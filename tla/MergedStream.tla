------------------------------ MODULE MergedStream ------------------------------
(***************************************************************************)
(* What a reader of several metric sources combined may rely on: it gets   *)
(* what each source wrote, in the order of writing, nothing lost, repeated *)
(* or made up, and never more than Lag behind that source.                 *)
(***************************************************************************)
EXTENDS Integers, Sequences

CONSTANTS Source, Lag
VARIABLES
    written,   \* per source, how many events it has written
    got        \* per source, the numbers of its events in the order of reading

Init ==
    /\ written = [s \in Source |-> 0]
    /\ got = [s \in Source |-> <<>>]

Write(s) ==
    /\ written[s] - Len(got[s]) < Lag
    /\ written' = [written EXCEPT ![s] = @ + 1]
    /\ UNCHANGED got

Read(s) ==
    /\ Len(got[s]) < written[s]
    /\ got' = [got EXCEPT ![s] = Append(@, Len(@) + 1)]
    /\ UNCHANGED written

Next == \E s \in Source : Write(s) \/ Read(s)

Spec == Init /\ [][Next]_<<written, got>>
=================================================================================
