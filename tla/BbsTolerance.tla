------------------------------ MODULE BbsTolerance ------------------------------
(***************************************************************************)
(* The tolerance of the API availability test for failures of the BBS: the *)
(* monitor's workers run the same task function at the same time, and all  *)
(* of them count the failures they tolerate down in one captured variable, *)
(* without a lock.  A decrement is a read and a write; the comparison that *)
(* follows uses the value written or reads the variable again, whichever   *)
(* the compiler made of it.                                                *)
(*                                                                         *)
(* The names are such that a module can extend DeployWatch as well, which  *)
(* models the rest of that test.                                           *)
(***************************************************************************)
EXTENDS Integers, FiniteSets

CONSTANTS
    Worker,       \* the monitor's workers
    Allowed,      \* the initial value of allowed_stats_failures
    MaxFailures   \* BOUND: calls to GetAppStats and GetAppInstances that fail

ASSUME ToleranceAssumption ==
    IsFiniteSet(Worker) /\ Allowed \in Nat \ {0} /\ MaxFailures \in Nat

VARIABLES
    allowed_stats_failures,
    at,        \* per worker: "task", "read" a failure's count, "wrote" it
    count,     \* per worker: the value it read, then the value it wrote
    failures,  \* history: calls that failed
    reported,  \* history: failures the task returned as an error
    tolerated  \* history: failures logged as within the tolerance

toleranceVars == <<allowed_stats_failures, at, count, failures, reported, tolerated>>

ToleranceInit ==
    /\ allowed_stats_failures = Allowed
    /\ at = [w \in Worker |-> "task"]
    /\ count = [w \in Worker |-> 0]
    /\ failures = 0 /\ reported = 0 /\ tolerated = 0

\* GetAppStats fails, or it succeeds and GetAppInstances fails: an execution
\* counts one failure at most.  allowed_stats_failures-- reads the variable,
CallFails(w) ==
    /\ at[w] = "task"
    /\ failures < MaxFailures
    /\ failures' = failures + 1
    /\ count' = [count EXCEPT ![w] = allowed_stats_failures]
    /\ at' = [at EXCEPT ![w] = "read"]
    /\ UNCHANGED <<allowed_stats_failures, reported, tolerated>>

\* Deviation: decrements by two.
X_Decrement(w) ==
    /\ at[w] = "read"
    /\ allowed_stats_failures' = count[w] - 2
    /\ count' = [count EXCEPT ![w] = @ - 2]
    /\ at' = [at EXCEPT ![w] = "wrote"]
    /\ UNCHANGED <<failures, reported, tolerated>>

\* and writes it back, whatever other workers have written since.
Decrement(w) ==
    /\ at[w] = "read"
    /\ allowed_stats_failures' = count[w] - 1
    /\ count' = [count EXCEPT ![w] = @ - 1]
    /\ at' = [at EXCEPT ![w] = "wrote"]
    /\ UNCHANGED <<failures, reported, tolerated>>

\* Deviation: compares with one.
X_Judge(w) ==
    /\ at[w] = "wrote"
    /\ \E left \in {count[w], allowed_stats_failures} :
          IF left <= 1
          THEN reported' = reported + 1 /\ UNCHANGED tolerated
          ELSE tolerated' = tolerated + 1 /\ UNCHANGED reported
    /\ at' = [at EXCEPT ![w] = "task"]
    /\ UNCHANGED <<allowed_stats_failures, count, failures>>

\* Deviation: an error is logged as tolerated as well.
Y_Judge(w) ==
    /\ at[w] = "wrote"
    /\ \E left \in {count[w], allowed_stats_failures} :
          /\ reported' = IF left <= 0 THEN reported + 1 ELSE reported
          /\ tolerated' = tolerated + 1
    /\ at' = [at EXCEPT ![w] = "task"]
    /\ UNCHANGED <<allowed_stats_failures, count, failures>>

\* The task returns an error when none are left, and nil otherwise.
Judge(w) ==
    /\ at[w] = "wrote"
    /\ \E left \in {count[w], allowed_stats_failures} :
          IF left <= 0
          THEN reported' = reported + 1 /\ UNCHANGED tolerated
          ELSE tolerated' = tolerated + 1 /\ UNCHANGED reported
    /\ at' = [at EXCEPT ![w] = "task"]
    /\ UNCHANGED <<allowed_stats_failures, count, failures>>

ToleranceNext == \E w \in Worker : CallFails(w) \/ Decrement(w) \/ Judge(w)

ToleranceSpec == ToleranceInit /\ [][ToleranceNext]_toleranceVars

-------------------------------------------------------------------------------
(* Properties.                                                              *)

\* The types of the variables; every failed call is reported, tolerated or still
\* in the hands of a worker.
ToleranceTypeOK ==
    /\ allowed_stats_failures \in Int
    /\ at \in [Worker -> {"task", "read", "wrote"}]
    /\ count \in [Worker -> Int]
    /\ {failures, reported, tolerated} \subseteq Nat
    /\ failures = reported + tolerated + Cardinality({w \in Worker : at[w] # "task"})

\* Races only ever make the test more lenient: no error is reported before there
\* were as many failures as the tolerance is set to.
ErrorsOnlyBeyondTolerance == reported > 0 => failures >= Allowed
=================================================================================
