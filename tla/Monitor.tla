------------------------------- MODULE Monitor -------------------------------
(***************************************************************************)
(* platform-tests/availability/monitor: one producer, a pool of workers    *)
(* and one statistics collector, connected by two buffered channels, an    *)
(* unbuffered reporter channel and a halt channel that Stop closes.  One   *)
(* action is what a goroutine does between two blocking points.            *)
(***************************************************************************)
EXTENDS Integers, Sequences, FiniteSets, Functions

CONSTANTS
    Worker,       \* the worker goroutines; numWorkers is their number
    Stopper,      \* the goroutines that call Stop
    NumTasks,     \* len(m.tasks) when Run is called
    MaxProduced,  \* BOUND: tasks the producer hands out
    Unit,         \* the part of a percent that the target is a multiple of
    Target,       \* targetReliability, in those units; 0 if it has not been set
    Rounding      \* units by which a float64 may round a percentage

numWorkers == Cardinality(Worker)

ASSUME MonitorAssumption ==
    /\ IsFiniteSet(Worker) /\ Worker # {}
    /\ NumTasks \in Nat \ {0}
    /\ MaxProduced \in Nat
    /\ Unit \in Nat \ {0}
    /\ Target \in 0 .. (100 * Unit)
    /\ Rounding \in Nat

Task == 1..NumTasks

\* What a TaskFunc returns: nil, an error, or an error that one of the
\* warningMatchers matches.
Outcome == {"success", "failure", "warning"}
BadOutcome == {"failure", "warning"}
Result == [task : Task, outcome : Outcome]
NoResult == [task |-> 1, outcome |-> "success"]  \* what an idle worker holds

VARIABLES
    run,        \* the goroutine in Run: "idle", "blocked", "returned", "panicked"
    halt,       \* the halt channel: "nil", "open", "closed"
    queue,      \* buffered channel of tasks, capacity numWorkers
    results,    \* buffered channel of results, capacity numWorkers
    producer,   \* "off", "waiting" in its select, "sending" to queue, "done"
    turn,       \* the task the producer's loop is at
    worker,     \* per worker: "off", "ready" in its select, "busy", "sending", "done"
    holds,      \* per worker: the result it is building or sending
    collector,  \* "off", "collecting", "reporting", "done"
    report,     \* the collector's Review: counts, and Errors/Warnings by task
    stop,       \* per stopper: "idle", "closing", "returned", "panicked"
    saw,        \* history: what m.halt was when the stopper's select read it
    executed,   \* history: executions that have ended, by outcome
    produced    \* history: tasks put on the queue

vars == <<run, halt, queue, results, producer, turn, worker, holds,
          collector, report, stop, saw, executed, produced>>

channels == <<queue, results>>
callers  == <<run, stop, saw>>

Init ==
    /\ run = "idle"
    /\ halt = "nil"
    /\ queue = <<>> /\ results = <<>>
    /\ producer = "off" /\ turn = 1
    /\ worker = [w \in Worker |-> "off"]
    /\ holds = [w \in Worker |-> NoResult]
    /\ collector = "off"
    /\ report = [count |-> [o \in Outcome |-> 0],
                 byTask |-> [o \in BadOutcome |-> [t \in Task |-> 0]]]
    /\ stop = [s \in Stopper |-> "idle"]
    /\ saw = [s \in Stopper |-> "none"]
    /\ executed = [o \in Outcome |-> 0]
    /\ produced = 0

-------------------------------------------------------------------------------
(* Run: make the channels, start every goroutine, wait for the report.      *)

Run ==
    /\ run = "idle"
    /\ halt = "nil"
    /\ run' = "blocked"
    /\ halt' = "open"
    /\ worker' = [w \in Worker |-> "ready"]
    /\ collector' = "collecting"
    /\ producer' = "waiting"
    /\ UNCHANGED <<channels, turn, holds, report, stop, saw, executed, produced>>

\* A second Run finds the halt channel of the first one.
RunTwice ==
    /\ run = "returned"
    /\ halt # "nil"
    /\ run' = "panicked"
    /\ UNCHANGED <<halt, channels, producer, turn, worker, holds, collector,
                   report, stop, saw, executed, produced>>

-------------------------------------------------------------------------------
(* Stop: a non-blocking look at the halt channel, then the close.           *)

\* Deviation: Stop does not look before it closes.
StopCheck_NoLook(s) ==
    /\ stop[s] = "idle"
    /\ saw' = [saw EXCEPT ![s] = halt]
    /\ stop' = [stop EXCEPT ![s] = "closing"]
    /\ UNCHANGED <<run, halt, channels, producer, turn, worker, holds, collector,
                   report, executed, produced>>

StopCheck(s) ==
    /\ stop[s] = "idle"
    /\ saw' = [saw EXCEPT ![s] = halt]
    /\ stop' = [stop EXCEPT ![s] = IF halt = "closed" THEN "returned" ELSE "closing"]
    /\ UNCHANGED <<run, halt, channels, producer, turn, worker, holds, collector,
                   report, executed, produced>>

\* close(m.halt) reads the field again; closing a nil or a closed channel panics.
StopClose(s) ==
    /\ stop[s] = "closing"
    /\ \/ /\ halt = "open"
          /\ halt' = "closed"
          /\ stop' = [stop EXCEPT ![s] = "returned"]
       \/ /\ halt # "open"
          /\ stop' = [stop EXCEPT ![s] = "panicked"]
          /\ UNCHANGED halt
    /\ UNCHANGED <<run, saw, channels, producer, turn, worker, holds, collector,
                   report, executed, produced>>

-------------------------------------------------------------------------------
(* producer: a select between halt and the rate timer, then a send that     *)
(* blocks while the queue is full and does not look at halt.                *)

\* Deviation: the producer sleeps between tasks and never looks at halt.
ProducerHalts_Deaf == FALSE /\ UNCHANGED vars

ProducerHalts ==
    /\ producer = "waiting"
    /\ halt = "closed"
    /\ producer' = "done"
    /\ UNCHANGED <<callers, halt, channels, turn, worker, holds, collector,
                   report, executed, produced>>

\* The timer fires; when halt is closed too, select may take either case.
ProducerTimer ==
    /\ producer = "waiting"
    /\ produced < MaxProduced
    /\ producer' = "sending"
    /\ UNCHANGED <<callers, halt, channels, turn, worker, holds, collector,
                   report, executed, produced>>

\* Deviation: the queue is not bounded.
ProducerSends_Unbounded ==
    /\ producer = "sending"
    /\ queue' = Append(queue, turn)
    /\ produced' = produced + 1
    /\ turn' = (turn % NumTasks) + 1
    /\ producer' = "waiting"
    /\ UNCHANGED <<callers, halt, results, worker, holds, collector, report, executed>>

ProducerSends ==
    /\ producer = "sending"
    /\ Len(queue) < numWorkers
    /\ queue' = Append(queue, turn)
    /\ produced' = produced + 1
    /\ turn' = (turn % NumTasks) + 1
    /\ producer' = "waiting"
    /\ UNCHANGED <<callers, halt, results, worker, holds, collector, report, executed>>

-------------------------------------------------------------------------------
(* worker: a select between halt and the queue, the task, then a send that  *)
(* blocks while the results channel is full and does not look at halt.      *)

WorkerHalts(w) ==
    /\ worker[w] = "ready"
    /\ halt = "closed"
    /\ worker' = [worker EXCEPT ![w] = "done"]
    /\ UNCHANGED <<callers, halt, channels, producer, turn, holds, collector,
                   report, executed, produced>>

WorkerTakes(w) ==
    /\ worker[w] = "ready"
    /\ queue # <<>>
    /\ queue' = Tail(queue)
    /\ worker' = [worker EXCEPT ![w] = "busy"]
    /\ holds' = [holds EXCEPT ![w].task = Head(queue)]
    /\ UNCHANGED <<callers, halt, results, producer, turn, collector, report,
                   executed, produced>>

\* task.fn returns, with any outcome.
WorkerExecutes(w) ==
    /\ worker[w] = "busy"
    /\ \E o \in Outcome :
          /\ holds' = [holds EXCEPT ![w].outcome = o]
          /\ executed' = [executed EXCEPT ![o] = @ + 1]
    /\ worker' = [worker EXCEPT ![w] = "sending"]
    /\ UNCHANGED <<callers, halt, channels, producer, turn, collector, report, produced>>

\* Deviation: the results channel is not bounded.
WorkerSends_Unbounded(w) ==
    /\ worker[w] = "sending"
    /\ results' = Append(results, holds[w])
    /\ worker' = [worker EXCEPT ![w] = "ready"]
    /\ holds' = [holds EXCEPT ![w] = NoResult]
    /\ UNCHANGED <<callers, halt, queue, producer, turn, collector, report,
                   executed, produced>>

\* Deviation: a send that cannot proceed at once drops the result.
WorkerSends_Drops(w) ==
    /\ worker[w] = "sending"
    /\ results' = IF Len(results) < numWorkers THEN Append(results, holds[w]) ELSE results
    /\ worker' = [worker EXCEPT ![w] = "ready"]
    /\ holds' = [holds EXCEPT ![w] = NoResult]
    /\ UNCHANGED <<callers, halt, queue, producer, turn, collector, report,
                   executed, produced>>

WorkerSends(w) ==
    /\ worker[w] = "sending"
    /\ Len(results) < numWorkers
    /\ results' = Append(results, holds[w])
    /\ worker' = [worker EXCEPT ![w] = "ready"]
    /\ holds' = [holds EXCEPT ![w] = NoResult]
    /\ UNCHANGED <<callers, halt, queue, producer, turn, collector, report,
                   executed, produced>>

-------------------------------------------------------------------------------
(* statsCollector: a select between a result and halt.                      *)

\* The Review after one more result: a success is only counted, an error or
\* a warning is counted and attributed to its task.
Counted(r, res) ==
    [count  |-> [r.count EXCEPT ![res.outcome] = @ + 1],
     byTask |-> [o \in BadOutcome |->
                   IF o = res.outcome
                   THEN [r.byTask[o] EXCEPT ![res.task] = @ + 1]
                   ELSE r.byTask[o]]]

\* Deviation: the collector looks at a result without taking it off the channel.
CollectorReceives_Peeks ==
    /\ collector = "collecting"
    /\ results # <<>>
    /\ report' = Counted(report, Head(results))
    /\ UNCHANGED <<callers, halt, channels, producer, turn, worker, holds, collector,
                   executed, produced>>

CollectorReceives ==
    /\ collector = "collecting"
    /\ results # <<>>
    /\ report' = Counted(report, Head(results))
    /\ results' = Tail(results)
    /\ UNCHANGED <<callers, halt, queue, producer, turn, worker, holds, collector,
                   executed, produced>>

\* Deviation: the collector first waits for the workers to end.
CollectorHalts_Joins ==
    /\ collector = "collecting"
    /\ halt = "closed"
    /\ \A w \in Worker : worker[w] = "done"
    /\ collector' = "reporting"
    /\ UNCHANGED <<callers, halt, channels, producer, turn, worker, holds, report,
                   executed, produced>>

\* Taken whenever halt is closed, whether or not results are waiting.
CollectorHalts ==
    /\ collector = "collecting"
    /\ halt = "closed"
    /\ collector' = "reporting"
    /\ UNCHANGED <<callers, halt, channels, producer, turn, worker, holds, report,
                   executed, produced>>

\* Deviation: the collector goes on collecting after it has sent its report.
CollectorReports_GoesOn ==
    /\ collector = "reporting"
    /\ run = "blocked"
    /\ collector' = "collecting"
    /\ run' = "returned"
    /\ UNCHANGED <<halt, channels, producer, turn, worker, holds, report, stop, saw,
                   executed, produced>>

\* The rendezvous on the unbuffered reporter channel.
CollectorReports ==
    /\ collector = "reporting"
    /\ run = "blocked"
    /\ collector' = "done"
    /\ run' = "returned"
    /\ UNCHANGED <<halt, channels, producer, turn, worker, holds, report, stop, saw,
                   executed, produced>>

-------------------------------------------------------------------------------
Next ==
    \/ Run \/ RunTwice
    \/ \E s \in Stopper : StopCheck(s) \/ StopClose(s)
    \/ ProducerHalts \/ ProducerTimer \/ ProducerSends
    \/ \E w \in Worker :
          WorkerHalts(w) \/ WorkerTakes(w) \/ WorkerExecutes(w) \/ WorkerSends(w)
    \/ CollectorReceives \/ CollectorHalts \/ CollectorReports

\* The Go scheduler runs every goroutine that can run, and a select that can
\* take its halt case again and again takes it with probability one.  Nothing
\* is assumed of the tasks (an HTTP call may hang), of the callers of Stop or
\* of the rate timer.
SchedulerFairness ==
    /\ WF_vars(CollectorHalts)
    /\ WF_vars(CollectorReports)

\* What SettlesAfterStop assumes additionally: tasks end and every goroutine is
\* scheduled.
TaskFairness ==
    /\ SF_vars(ProducerHalts) /\ WF_vars(ProducerSends)
    /\ \A w \in Worker :
          SF_vars(WorkerHalts(w)) /\ WF_vars(WorkerExecutes(w)) /\ WF_vars(WorkerSends(w))

Spec == Init /\ [][Next]_vars /\ SchedulerFairness

-------------------------------------------------------------------------------
(* The verdict the tests draw from the Review.                              *)

TotalExecutions(count) == count["success"] + (count["failure"] + count["warning"])

\* Whether "good" of "total" executions may reach the target: PercentageGoodExecutions
\* divides and multiplies float64 values, which is exact where nothing succeeded.
MayReach(good, total) ==
    good # 0 /\ Target * total <= (100 * Unit) * good + Rounding * total

\* Deviation: warnings are no bad executions.
HaveTestsPassed_WarningsGood(count) ==
    /\ Target # 0
    /\ TotalExecutions(count) # 0
    /\ MayReach(count["success"] + count["warning"], TotalExecutions(count))

\* TRUE wherever the code's may be.
HaveTestsPassed(count) ==
    /\ Target # 0
    /\ TotalExecutions(count) # 0
    /\ MayReach(count["success"], TotalExecutions(count))

-------------------------------------------------------------------------------
(* Properties.                                                              *)

\* The types of the variables, with the capacity of both channels.
TypeOK ==
    /\ run \in {"idle", "blocked", "returned", "panicked"}
    /\ halt \in {"nil", "open", "closed"}
    /\ queue \in Seq(Task) /\ Len(queue) <= numWorkers
    /\ results \in Seq(Result) /\ Len(results) <= numWorkers
    /\ producer \in {"off", "waiting", "sending", "done"}
    /\ turn \in Task
    /\ worker \in [Worker -> {"off", "ready", "busy", "sending", "done"}]
    /\ holds \in [Worker -> Result]
    /\ collector \in {"off", "collecting", "reporting", "done"}
    /\ report \in [count : [Outcome -> Nat], byTask : [BadOutcome -> [Task -> Nat]]]
    /\ stop \in [Stopper -> {"idle", "closing", "returned", "panicked"}]
    /\ saw \in [Stopper -> {"none", "nil", "open", "closed"}]
    /\ executed \in [Outcome -> Nat]
    /\ produced \in Nat

InState(st) == {w \in Worker : worker[w] = st}
Executed == TotalExecutions(executed)
Reported == TotalExecutions(report.count)

\* Every execution that ended, of every outcome, is counted by the report, or
\* waits in the results channel, or is in the hands of a worker: no
\* interleaving of workers and collector (monitor.go:50-137) loses one or
\* counts one twice.
ResultsConserved ==
    \A o \in Outcome :
        executed[o] = report.count[o]
                      + Cardinality({i \in DOMAIN results : results[i].outcome = o})
                      + Cardinality({w \in InState("sending") : holds[w].outcome = o})

\* The report can miss executions, because the collector leaves results behind
\* when halt closes (monitor.go:95-98), but never more than fill the results
\* channel and the hands of the workers.
LossBounded == Executed - Reported <= 2 * numWorkers

\* The producer never runs further ahead of the collector than the two
\* channels and the workers can hold, however slow tasks are.
Backpressure == produced - Reported <= 3 * numWorkers

\* Stop only panics when it is called before Run, or when two calls overlap in
\* the window between the look at halt and the close (monitor.go:154-158).
PanicOnlyOnMisuse ==
    \A s \in Stopper : stop[s] = "panicked" =>
        \/ saw[s] = "nil"
        \/ saw[s] = "open" /\ \E q \in Stopper \ {s} : stop[q] = "returned" /\ saw[q] # "closed"

\* A passing verdict is about what really ran: something succeeded, and the
\* executions that went wrong, those of the report and those it missed, stay
\* within the tolerance plus what the report may miss.
VerdictSound ==
    run = "returned" /\ HaveTestsPassed(report.count) =>
        /\ executed["success"] > 0
        /\ (100 * Unit) * (executed["failure"] + executed["warning"])
             <= (100 * Unit - Target + Rounding) * Reported + (100 * Unit) * (2 * numWorkers)

\* Once Run has handed out the Review nothing changes it under the caller,
\* although workers may still be running.
ReportFinal == [][run = "returned" => UNCHANGED report]_vars

\* After Stop, Run returns, even if every task hangs.
RunReturns == (halt = "closed") ~> (run \in {"returned", "panicked"})

\* After Stop, and if tasks end, every goroutine ends or is stuck for good in a
\* send on a channel that nobody drains any more.
Settled ==
    /\ collector = "done"
    /\ producer = "done" \/ (producer = "sending" /\ Len(queue) = numWorkers)
    /\ \A w \in Worker :
          worker[w] = "done" \/ (worker[w] = "sending" /\ Len(results) = numWorkers)
SettlesAfterStop == TaskFairness => ((halt = "closed") ~> []Settled)

\* The monitor keeps the promise of AvailabilityReport.
Promise == INSTANCE AvailabilityReport WITH
    Lag <- 2 * numWorkers,
    reported <- report.count,
    phase <- IF run \in {"returned", "panicked"} THEN "returned"
             ELSE IF halt = "nil" THEN "idle"
             ELSE IF halt = "open" THEN "running" ELSE "stopping"
KeepsPromise == Promise!Spec
===============================================================================
