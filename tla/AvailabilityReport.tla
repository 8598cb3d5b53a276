---------------------------- MODULE AvailabilityReport ----------------------------
(***************************************************************************)
(* What an availability monitor promises its caller, without goroutines or *)
(* channels: tasks are executed while it runs, an execution is reported at *)
(* most once and never before it happened, at most Lag executions are      *)
(* missing from the report, and Run returns the report after Stop.         *)
(***************************************************************************)
EXTENDS Integers

CONSTANTS
    Outcome,   \* how an execution may end
    Lag        \* executions that may be finished and not yet reported

VARIABLES
    phase,     \* "idle", "running", "stopping" or "returned"
    executed,  \* per outcome, the executions that have ended
    reported   \* per outcome, the executions the report counts

vars == <<phase, executed, reported>>

Init ==
    /\ phase = "idle"
    /\ executed = [o \in Outcome |-> 0]
    /\ reported = [o \in Outcome |-> 0]

Start == phase = "idle" /\ phase' = "running" /\ UNCHANGED <<executed, reported>>

\* An execution ends.  Workers are not told of the report, so this also
\* happens while the monitor is stopping and after Run has returned.
Execute(o) ==
    /\ phase # "idle"
    /\ executed' = [executed EXCEPT ![o] = @ + 1]
    /\ UNCHANGED <<phase, reported>>

Collect(o) ==
    /\ phase \in {"running", "stopping"}
    /\ reported[o] < executed[o]
    /\ reported' = [reported EXCEPT ![o] = @ + 1]
    /\ UNCHANGED <<phase, executed>>

Stop == phase = "running" /\ phase' = "stopping" /\ UNCHANGED <<executed, reported>>

Return == phase = "stopping" /\ phase' = "returned" /\ UNCHANGED <<executed, reported>>

\* While the report is open its gap to the truth is at most Lag per outcome.
WithinLag == \A o \in Outcome : executed'[o] - reported'[o] <= Lag

Next ==
    /\ \/ Start \/ Stop \/ Return
       \/ \E o \in Outcome : Execute(o) \/ Collect(o)
    /\ WithinLag

\* What it may do, and that it returns.
Safety == Init /\ [][Next]_vars
Spec == Safety /\ WF_vars(Return)
===================================================================================
