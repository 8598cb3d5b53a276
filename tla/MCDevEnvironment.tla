-------------------------- MODULE MCDevEnvironment --------------------------
(* A small environment, with all VMs in one zone. *)
EXTENDS DevEnvironment

CONSTANT z1

OneZone == [v \in Vm |-> z1]

\* The properties are about builds that have not overlapped, and overlapped
\* stays TRUE: nothing is missed by not going on from there.
Apart == ~overlapped
=============================================================================
