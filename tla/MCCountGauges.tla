---------------------------- MODULE MCCountGauges ----------------------------
(* Two apps and a service instance in one space of an org that has another.    *)
EXTENDS CountGauges

CONSTANTS a1, a2, s1, p1, p2, o1

FirstSpace == [i \in Item |-> p1]
OneOrg == [s \in Space |-> o1]
OneType == [i \in ServiceInstance |-> "postgres"]
==============================================================================
