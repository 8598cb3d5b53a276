---------------------------- MODULE MonitorProofs ----------------------------
(* Theorems about Monitor, for every pool of workers and any bound.          *)
EXTENDS Monitor, FiniteSetTheorems, TLAPS

\* The size of the pool is a positive number.
LEMMA PoolSize == numWorkers \in Nat \ {0}
BY MonitorAssumption, FS_CardinalityType, FS_EmptySet DEF numWorkers

\* The initial state is well typed.
LEMMA TypeInit == Init => TypeOK
<1> SUFFICES ASSUME Init PROVE TypeOK
  OBVIOUS
<1>1. 1 \in Task
  BY MonitorAssumption DEF Task
<1>2. NoResult \in Result
  BY <1>1 DEF NoResult, Result, Outcome
<1>3. report \in [count : [Outcome -> Nat], byTask : [BadOutcome -> [Task -> Nat]]]
  BY DEF Init
<1> QED
  BY <1>1, <1>2, <1>3, PoolSize DEF Init, TypeOK

\* A result moves the Review to a Review.
LEMMA CountedType ==
    ASSUME NEW r \in [count : [Outcome -> Nat], byTask : [BadOutcome -> [Task -> Nat]]],
           NEW res \in Result
    PROVE  Counted(r, res) \in [count : [Outcome -> Nat], byTask : [BadOutcome -> [Task -> Nat]]]
<1>1. res.outcome \in Outcome /\ res.task \in Task
  BY DEF Result
<1>2. [r.count EXCEPT ![res.outcome] = @ + 1] \in [Outcome -> Nat]
  BY <1>1
<1>3. ASSUME NEW o \in BadOutcome
      PROVE (IF o = res.outcome THEN [r.byTask[o] EXCEPT ![res.task] = @ + 1] ELSE r.byTask[o])
              \in [Task -> Nat]
  BY <1>1
<1> QED
  BY <1>2, <1>3 DEF Counted

\* Every step keeps the types.
LEMMA TypeStep == TypeOK /\ [Next]_vars => TypeOK'
<1> SUFFICES ASSUME TypeOK, [Next]_vars PROVE TypeOK'
  OBVIOUS
<1> USE PoolSize DEF TypeOK, channels, callers
<1>0. 1 \in Task /\ NoResult \in Result
  BY MonitorAssumption DEF Task, NoResult, Result, Outcome
<1>1. CASE Run
  BY <1>1 DEF Run
<1>2. CASE RunTwice
  BY <1>2 DEF RunTwice
<1>3. ASSUME NEW s \in Stopper, StopCheck(s) PROVE TypeOK'
  BY <1>3 DEF StopCheck
<1>4. ASSUME NEW s \in Stopper, StopClose(s) PROVE TypeOK'
  BY <1>4 DEF StopClose
<1>5. CASE ProducerHalts
  BY <1>5 DEF ProducerHalts
<1>6. CASE ProducerTimer
  BY <1>6 DEF ProducerTimer
<1>7. CASE ProducerSends
  <2>1. (turn % NumTasks) + 1 \in Task
    BY MonitorAssumption DEF Task
  <2>2. queue' \in Seq(Task) /\ Len(queue') <= numWorkers
    BY <1>7 DEF ProducerSends
  <2> QED
    BY <1>7, <2>1, <2>2 DEF ProducerSends
<1>8. ASSUME NEW w \in Worker, WorkerHalts(w) PROVE TypeOK'
  BY <1>8 DEF WorkerHalts
<1>9. ASSUME NEW w \in Worker, WorkerTakes(w) PROVE TypeOK'
  <2>1. Head(queue) \in Task /\ Tail(queue) \in Seq(Task) /\ Len(Tail(queue)) <= numWorkers
    BY <1>9 DEF WorkerTakes
  <2>2. holds' \in [Worker -> Result]
    BY <1>9, <2>1 DEF WorkerTakes, Result
  <2> QED
    BY <1>9, <2>1, <2>2 DEF WorkerTakes
<1>10. ASSUME NEW w \in Worker, WorkerExecutes(w) PROVE TypeOK'
  <2>1. holds' \in [Worker -> Result] /\ executed' \in [Outcome -> Nat]
    BY <1>10 DEF WorkerExecutes, Result
  <2> QED
    BY <1>10, <2>1 DEF WorkerExecutes
<1>11. ASSUME NEW w \in Worker, WorkerSends(w) PROVE TypeOK'
  <2>1. results' \in Seq(Result) /\ Len(results') <= numWorkers
    BY <1>11 DEF WorkerSends
  <2> QED
    BY <1>0, <1>11, <2>1 DEF WorkerSends
<1>12. CASE CollectorReceives
  <2>1. Head(results) \in Result /\ Tail(results) \in Seq(Result) /\ Len(Tail(results)) <= numWorkers
    BY <1>12 DEF CollectorReceives
  <2>2. report' \in [count : [Outcome -> Nat], byTask : [BadOutcome -> [Task -> Nat]]]
    BY <1>12, <2>1, CountedType DEF CollectorReceives
  <2> QED
    BY <1>12, <2>1, <2>2 DEF CollectorReceives
<1>13. CASE CollectorHalts
  BY <1>13 DEF CollectorHalts
<1>14. CASE CollectorReports
  BY <1>14 DEF CollectorReports
<1>15. CASE UNCHANGED vars
  BY <1>15 DEF vars
<1> QED
  BY <1>1, <1>2, <1>3, <1>4, <1>5, <1>6, <1>7, <1>8, <1>9, <1>10, <1>11, <1>12,
     <1>13, <1>14, <1>15 DEF Next

\* Every reachable state is well typed, and neither channel (monitor.go:108, 187)
\* ever holds more than numWorkers elements.
THEOREM TypeCorrect == Spec => []TypeOK
BY TypeInit, TypeStep, PTL DEF Spec

-------------------------------------------------------------------------------
(* The flow of tasks: what was produced is queued, being executed, waiting   *)
(* to be counted, or counted.                                                *)

Busy == Cardinality(InState("busy"))
Sending == Cardinality(InState("sending"))

\* The types, and where each execution and each task of the producer is.
FlowInv ==
    /\ TypeOK
    /\ run = "idle" => \A w \in Worker : worker[w] = "off"
    /\ produced = Executed + Len(queue) + Busy
    /\ Executed = Reported + Len(results) + Sending

\* The workers in a state are finitely many, and those that execute and those
\* that send are together no more than the pool.
LEMMA InStateFinite ==
    /\ \A st : IsFiniteSet(InState(st)) /\ Cardinality(InState(st)) \in Nat
    /\ Busy + Sending <= numWorkers
<1>1. \A st : InState(st) \in SUBSET Worker
  BY DEF InState
<1>2. \A st : IsFiniteSet(InState(st)) /\ Cardinality(InState(st)) \in Nat
  BY <1>1, MonitorAssumption, FS_Subset, FS_CardinalityType
<1>3. InState("busy") \cap InState("sending") = {}
  BY DEF InState
<1>4. InState("busy") \cup InState("sending") \in SUBSET Worker
  BY <1>1
<1>5. Cardinality(InState("busy") \cup InState("sending")) = Busy + Sending
  <2>1. Cardinality(InState("busy") \cap InState("sending")) = 0
    BY <1>3, FS_EmptySet
  <2>2. IsFiniteSet(InState("busy")) /\ IsFiniteSet(InState("sending"))
    BY <1>2
  <2>3. Cardinality(InState("busy") \cup InState("sending"))
          = Busy + Sending - Cardinality(InState("busy") \cap InState("sending"))
    BY <2>2, FS_Union DEF Busy, Sending
  <2>4. Busy \in Nat /\ Sending \in Nat
    BY <1>2 DEF Busy, Sending
  <2> QED
    BY <2>1, <2>3, <2>4
<1>6. Cardinality(InState("busy") \cup InState("sending")) <= numWorkers
  BY <1>4, MonitorAssumption, FS_Subset DEF numWorkers
<1> QED
  BY <1>2, <1>5, <1>6

\* A worker that moves from state a to state b leaves the one set and enters
\* the other; the other sets stay.
LEMMA WorkerMoves ==
    ASSUME worker \in [Worker -> {"off", "ready", "busy", "sending", "done"}],
           NEW w \in Worker, NEW a, NEW b \in {"off", "ready", "busy", "sending", "done"},
           a # b, worker[w] = a, worker' = [worker EXCEPT ![w] = b]
    PROVE  /\ Cardinality(InState(a)') = Cardinality(InState(a)) - 1
           /\ Cardinality(InState(b)') = Cardinality(InState(b)) + 1
           /\ \A c : c # a /\ c # b => InState(c)' = InState(c)
<1>1. InState(a)' = InState(a) \ {w} /\ w \in InState(a)
  BY DEF InState
<1>2. InState(b)' = InState(b) \cup {w} /\ w \notin InState(b)
  BY DEF InState
<1>3. \A c : c # a /\ c # b => InState(c)' = InState(c)
  BY DEF InState
<1>4. Cardinality(InState(a)') = Cardinality(InState(a)) - 1
  BY <1>1, InStateFinite, FS_RemoveElement
<1>5. Cardinality(InState(b)') = Cardinality(InState(b)) + 1
  BY <1>2, InStateFinite, FS_AddElement
<1> QED
  BY <1>3, <1>4, <1>5

\* A total of counts is a number.
LEMMA CountIsNat ==
    ASSUME NEW c \in [Outcome -> Nat]
    PROVE  TotalExecutions(c) \in Nat
BY DEF Outcome, TotalExecutions

\* One more execution of any outcome is one more execution.
LEMMA CountOneMore ==
    ASSUME NEW c \in [Outcome -> Nat], NEW o \in Outcome
    PROVE  TotalExecutions([c EXCEPT ![o] = @ + 1]) = TotalExecutions(c) + 1
<1>1. CASE o = "success"
  BY <1>1 DEF Outcome, TotalExecutions
<1>2. CASE o = "failure"
  BY <1>2 DEF Outcome, TotalExecutions
<1>3. CASE o = "warning"
  BY <1>3 DEF Outcome, TotalExecutions
<1> QED
  BY <1>1, <1>2, <1>3 DEF Outcome

\* Nothing has flowed in the initial state.
LEMMA FlowInit == Init => FlowInv
<1> SUFFICES ASSUME Init PROVE FlowInv
  OBVIOUS
<1>1. TypeOK
  BY TypeInit
<1>2. InState("busy") = {} /\ InState("sending") = {}
  BY DEF Init, InState
<1>3. Executed = 0 /\ Reported = 0
  BY DEF Init, Executed, Reported, TotalExecutions, Outcome
<1>4. Len(queue) = 0 /\ Len(results) = 0 /\ produced = 0
  BY DEF Init
<1>5. Busy = 0 /\ Sending = 0
  BY <1>2, FS_EmptySet DEF Busy, Sending
<1>6. run = "idle" => \A w \in Worker : worker[w] = "off"
  BY DEF Init
<1> QED
  BY <1>1, <1>3, <1>4, <1>5, <1>6 DEF FlowInv

\* Every step moves a task one place along.
LEMMA FlowStep == FlowInv /\ [Next]_vars => FlowInv'
<1> SUFFICES ASSUME FlowInv, [Next]_vars PROVE FlowInv'
  OBVIOUS
<1>0. TypeOK /\ TypeOK'
  BY TypeStep DEF FlowInv
<1>a. /\ Busy \in Nat /\ Sending \in Nat
      /\ Executed \in Nat /\ Reported \in Nat /\ produced \in Nat
      /\ Len(queue) \in Nat /\ Len(results) \in Nat
  <2>1. Busy \in Nat /\ Sending \in Nat
    BY InStateFinite DEF Busy, Sending
  <2>2. Executed \in Nat /\ Reported \in Nat
    BY <1>0, CountIsNat DEF Executed, Reported, TypeOK
  <2>3. produced \in Nat /\ Len(queue) \in Nat /\ Len(results) \in Nat
    BY <1>0 DEF TypeOK
  <2> QED
    BY <2>1, <2>2, <2>3
<1>b. worker \in [Worker -> {"off", "ready", "busy", "sending", "done"}]
  BY <1>0 DEF TypeOK
<1> DEFINE Counts == <<queue, results, report, executed, produced>>
           Idle == run = "idle" => \A w \in Worker : worker[w] = "off"
\* Steps that move no task.
<1>c. ASSUME UNCHANGED Counts, Busy' = Busy, Sending' = Sending, Idle' PROVE FlowInv'
  BY <1>0, <1>a, <1>c DEF FlowInv, Executed, Reported
<1>d. ASSUME UNCHANGED <<worker, run>> PROVE Busy' = Busy /\ Sending' = Sending /\ Idle'
  BY <1>d DEF Busy, Sending, InState, FlowInv
<1>1. CASE Run
  <2>1. /\ InState("busy") = {} /\ InState("sending") = {}
        /\ InState("busy")' = {} /\ InState("sending")' = {}
    BY <1>1 DEF Run, FlowInv, InState
  <2>2. Busy' = Busy /\ Sending' = Sending
    BY <2>1 DEF Busy, Sending
  <2> QED
    BY <1>1, <1>c, <2>2 DEF Run, channels
<1>2. CASE RunTwice
  <2>1. UNCHANGED worker /\ UNCHANGED Counts /\ Idle'
    BY <1>2 DEF RunTwice, channels
  <2> QED
    BY <1>c, <2>1 DEF Busy, Sending, InState
<1>3. ASSUME NEW s \in Stopper, StopCheck(s) PROVE FlowInv'
  BY <1>3, <1>c, <1>d DEF StopCheck, channels
<1>4. ASSUME NEW s \in Stopper, StopClose(s) PROVE FlowInv'
  BY <1>4, <1>c, <1>d DEF StopClose, channels
<1>5. CASE ProducerHalts
  BY <1>5, <1>c, <1>d DEF ProducerHalts, channels, callers
<1>6. CASE ProducerTimer
  BY <1>6, <1>c, <1>d DEF ProducerTimer, channels, callers
<1>7. CASE ProducerSends
  <2>1. Len(queue') = Len(queue) + 1
    BY <1>0, <1>7 DEF ProducerSends, TypeOK
  <2>2. Busy' = Busy /\ Sending' = Sending /\ Idle'
    BY <1>7, <1>d DEF ProducerSends, callers
  <2> QED
    BY <1>0, <1>7, <1>a, <2>1, <2>2 DEF FlowInv, ProducerSends, Executed, Reported
<1>8. ASSUME NEW w \in Worker, WorkerHalts(w) PROVE FlowInv'
  <2>1. Busy' = Busy /\ Sending' = Sending
    BY <1>8, <1>b, WorkerMoves DEF WorkerHalts, Busy, Sending
  <2>2. Idle'
    BY <1>8 DEF WorkerHalts, callers, FlowInv
  <2> QED
    BY <1>8, <1>c, <2>1, <2>2 DEF WorkerHalts, channels
<1>9. ASSUME NEW w \in Worker, WorkerTakes(w) PROVE FlowInv'
  <2>1. Busy' = Busy + 1 /\ Sending' = Sending
    BY <1>9, <1>b, WorkerMoves DEF WorkerTakes, Busy, Sending
  <2>2. Len(queue') = Len(queue) - 1
    BY <1>0, <1>9 DEF WorkerTakes, TypeOK
  <2>3. Idle'
    BY <1>9 DEF WorkerTakes, callers, FlowInv
  <2> QED
    BY <1>0, <1>9, <1>a, <2>1, <2>2, <2>3 DEF FlowInv, WorkerTakes, Executed, Reported
<1>10. ASSUME NEW w \in Worker, WorkerExecutes(w) PROVE FlowInv'
  <2>1. Busy' = Busy - 1 /\ Sending' = Sending + 1
    BY <1>10, <1>b, WorkerMoves DEF WorkerExecutes, Busy, Sending
  <2>2. Executed' = Executed + 1
    <3>1. PICK o \in Outcome : executed' = [executed EXCEPT ![o] = @ + 1]
      BY <1>10 DEF WorkerExecutes
    <3>2. executed \in [Outcome -> Nat]
      BY <1>0 DEF TypeOK
    <3> QED
      BY <3>1, <3>2, CountOneMore DEF Executed
  <2>3. Idle'
    BY <1>10 DEF WorkerExecutes, callers, FlowInv
  <2>4. UNCHANGED <<queue, results, report, produced>>
    BY <1>10 DEF WorkerExecutes, channels
  <2>5. Reported' = Reported
    BY <2>4 DEF Reported
  <2>6. produced' = Executed' + Len(queue') + Busy'
    BY <1>a, <2>1, <2>2, <2>4 DEF FlowInv
  <2>7. Executed' = Reported' + Len(results') + Sending'
    BY <1>a, <2>1, <2>2, <2>4, <2>5 DEF FlowInv
  <2> QED
    BY <1>0, <2>3, <2>6, <2>7 DEF FlowInv
<1>11. ASSUME NEW w \in Worker, WorkerSends(w) PROVE FlowInv'
  <2>1. Busy' = Busy /\ Sending' = Sending - 1
    BY <1>11, <1>b, WorkerMoves DEF WorkerSends, Busy, Sending
  <2>2. Len(results') = Len(results) + 1
    BY <1>0, <1>11 DEF WorkerSends, TypeOK
  <2>3. Idle'
    BY <1>11 DEF WorkerSends, callers, FlowInv
  <2> QED
    BY <1>0, <1>11, <1>a, <2>1, <2>2, <2>3 DEF FlowInv, WorkerSends, Executed, Reported
<1>12. CASE CollectorReceives
  <2>1. Len(results') = Len(results) - 1
    BY <1>0, <1>12 DEF CollectorReceives, TypeOK
  <2>2. Reported' = Reported + 1
    <3>1. Head(results).outcome \in Outcome
      <4>1. results \in Seq(Result) /\ results # <<>>
        BY <1>0, <1>12 DEF CollectorReceives, TypeOK
      <4>2. Head(results) \in Result
        BY <4>1
      <4> QED
        BY <4>2 DEF Result
    <3>2. report'.count = [report.count EXCEPT ![Head(results).outcome] = @ + 1]
      BY <1>12 DEF CollectorReceives, Counted
    <3>3. report.count \in [Outcome -> Nat]
      BY <1>0 DEF TypeOK
    <3> QED
      BY <3>1, <3>2, <3>3, CountOneMore DEF Reported
  <2>3. Busy' = Busy /\ Sending' = Sending /\ Idle'
    BY <1>12, <1>d DEF CollectorReceives, callers
  <2> QED
    BY <1>0, <1>12, <1>a, <2>1, <2>2, <2>3 DEF FlowInv, CollectorReceives, Executed
<1>13. CASE CollectorHalts
  BY <1>13, <1>c, <1>d DEF CollectorHalts, channels, callers
<1>14. CASE CollectorReports
  <2>1. UNCHANGED worker /\ UNCHANGED Counts /\ Idle'
    BY <1>14 DEF CollectorReports, channels
  <2> QED
    BY <1>c, <2>1 DEF Busy, Sending, InState
<1>15. CASE UNCHANGED vars
  BY <1>15, <1>c, <1>d DEF vars
<1> QED
  BY <1>1, <1>2, <1>3, <1>4, <1>5, <1>6, <1>7, <1>8, <1>9, <1>10, <1>11, <1>12,
     <1>13, <1>14, <1>15 DEF Next

\* The two bounds are consequences of the flow and of the capacities.
LEMMA FlowBounds == FlowInv => LossBounded /\ Backpressure
<1> SUFFICES ASSUME FlowInv PROVE LossBounded /\ Backpressure
  OBVIOUS
<1>1. Busy \in Nat /\ Sending \in Nat /\ Busy + Sending <= numWorkers
  BY InStateFinite DEF Busy, Sending
<1>2. /\ Len(queue) \in Nat /\ Len(results) \in Nat
      /\ Len(queue) <= numWorkers /\ Len(results) <= numWorkers
  BY DEF FlowInv, TypeOK
<1>3. Executed \in Nat /\ Reported \in Nat
  BY CountIsNat DEF FlowInv, TypeOK, Executed, Reported
<1> QED
  BY <1>1, <1>2, <1>3, PoolSize DEF FlowInv, LossBounded, Backpressure

\* However many workers there are, the Review misses at most 2 * numWorkers of
\* the executions that ended (monitor.go:95-98 against 127-132).
THEOREM LossIsBounded == Spec => []LossBounded
BY FlowInit, FlowStep, FlowBounds, PTL DEF Spec

\* The producer is never more than 3 * numWorkers tasks ahead of the Review
\* (monitor.go:147, 132): slow tasks stop it, nothing piles up.
THEOREM ProducerIsThrottled == Spec => []Backpressure
BY FlowInit, FlowStep, FlowBounds, PTL DEF Spec

-------------------------------------------------------------------------------
(* The Review after Run.                                                     *)

\* Run returns by taking the report from the collector, which then ends.
HandedOver == run \in {"returned", "panicked"} => collector = "done"

\* The collector is done for good once Run has the report.
LEMMA HandedOverStep == HandedOver /\ [Next]_vars => HandedOver'
<1> SUFFICES ASSUME HandedOver, [Next]_vars PROVE HandedOver'
  OBVIOUS
<1> USE DEF HandedOver, callers
<1>1. CASE Run \/ RunTwice
  BY <1>1 DEF Run, RunTwice
<1>2. ASSUME NEW s \in Stopper, StopCheck(s) \/ StopClose(s) PROVE HandedOver'
  BY <1>2 DEF StopCheck, StopClose
<1>3. CASE ProducerHalts \/ ProducerTimer \/ ProducerSends
  BY <1>3 DEF ProducerHalts, ProducerTimer, ProducerSends
<1>4. ASSUME NEW w \in Worker,
             WorkerHalts(w) \/ WorkerTakes(w) \/ WorkerExecutes(w) \/ WorkerSends(w)
      PROVE  HandedOver'
  BY <1>4 DEF WorkerHalts, WorkerTakes, WorkerExecutes, WorkerSends
<1>5. CASE CollectorReceives \/ CollectorHalts \/ CollectorReports
  BY <1>5 DEF CollectorReceives, CollectorHalts, CollectorReports
<1>6. CASE UNCHANGED vars
  BY <1>6 DEF vars
<1> QED
  BY <1>1, <1>2, <1>3, <1>4, <1>5, <1>6 DEF Next

\* Only a collector that is collecting changes the Review.
LEMMA OnlyCollecting == [Next]_vars /\ collector = "done" => UNCHANGED report
<1> SUFFICES ASSUME [Next]_vars, collector = "done" PROVE UNCHANGED report
  OBVIOUS
<1>1. CASE UNCHANGED vars
  BY <1>1 DEF vars
<1>2. CASE CollectorReceives
  BY <1>2 DEF CollectorReceives
<1> QED
  BY <1>1, <1>2 DEF Next, Run, RunTwice, StopCheck, StopClose, ProducerHalts,
     ProducerTimer, ProducerSends, WorkerHalts, WorkerTakes, WorkerExecutes,
     WorkerSends, CollectorHalts, CollectorReports

\* The caller of Run owns the Review: no goroutine writes to it afterwards
\* (monitor.go:95-98 return right after the send that line 115 receives).
THEOREM ReportIsFinal == Spec => ReportFinal
<1>1. Init => HandedOver
  BY DEF Init, HandedOver
<1>2. HandedOver /\ [Next]_vars => [run = "returned" => UNCHANGED report]_vars
  BY OnlyCollecting DEF HandedOver
<1> QED
  BY <1>1, <1>2, HandedOverStep, PTL DEF Spec, ReportFinal

-------------------------------------------------------------------------------
(* Results, one outcome at a time.                                           *)

\* The places of a sequence of results that hold an outcome, and the workers that
\* are about to send one.
Places(s, o) == {i \in DOMAIN s : s[i].outcome = o}
InHand(o) == {w \in InState("sending") : holds[w].outcome = o}

\* What there is of an outcome between the tasks and the Review.
Underway(o) == Cardinality(Places(results, o)) + Cardinality(InHand(o))

\* The places of an outcome are at most those of the sequence.
LEMMA PlacesFinite ==
    ASSUME NEW s \in Seq(Result), NEW o
    PROVE  /\ IsFiniteSet(Places(s, o))
           /\ Cardinality(Places(s, o)) \in Nat
           /\ Cardinality(Places(s, o)) <= Len(s)
<1>1. Places(s, o) \in SUBSET (1 .. Len(s)) /\ Len(s) \in Nat
  BY DEF Places
<1>2. IsFiniteSet(1 .. Len(s)) /\ Cardinality(1 .. Len(s)) = Len(s)
  <2>1. 1 \in Int /\ Len(s) \in Int
    BY <1>1
  <2>2. Cardinality(1 .. Len(s)) = IF 1 > Len(s) THEN 0 ELSE Len(s) - 1 + 1
    BY <2>1, FS_Interval
  <2>3. IsFiniteSet(1 .. Len(s))
    BY <2>1, FS_Interval
  <2> QED
    BY <1>1, <2>2, <2>3
<1> QED
  BY <1>1, <1>2, FS_Subset, FS_CardinalityType

\* A result that is appended adds its place.
LEMMA PlacesAppend ==
    ASSUME NEW s \in Seq(Result), NEW res \in Result, NEW o
    PROVE  Cardinality(Places(Append(s, res), o))
             = Cardinality(Places(s, o)) + (IF res.outcome = o THEN 1 ELSE 0)
<1>1. Len(s) + 1 \notin Places(s, o)
  BY DEF Places
<1>2. CASE res.outcome = o
  <2>1. Places(Append(s, res), o) = Places(s, o) \cup {Len(s) + 1}
    BY <1>2 DEF Places
  <2> QED
    BY <1>1, <1>2, <2>1, PlacesFinite, FS_AddElement
<1>3. CASE res.outcome # o
  <2>1. Places(Append(s, res), o) = Places(s, o)
    BY <1>3 DEF Places
  <2> QED
    BY <1>3, <2>1, PlacesFinite
<1> QED
  BY <1>2, <1>3

\* The tail has all the places but the first, each moved by one.
LEMMA PlacesTail ==
    ASSUME NEW s \in Seq(Result), s # <<>>, NEW o
    PROVE  Cardinality(Places(s, o))
             = Cardinality(Places(Tail(s), o)) + (IF Head(s).outcome = o THEN 1 ELSE 0)
<1> DEFINE Rest == Places(s, o) \ {1}
           Move == [i \in Places(Tail(s), o) |-> i + 1]
<1>1. Tail(s) \in Seq(Result) /\ Len(s) \in Nat \ {0} /\ Len(Tail(s)) = Len(s) - 1
  OBVIOUS
<1>2. \A i \in 1 .. Len(Tail(s)) : Tail(s)[i] = s[i + 1]
  OBVIOUS
<1>3. Places(Tail(s), o) = {i \in 1 .. (Len(s) - 1) : s[i + 1].outcome = o}
  BY <1>1, <1>2 DEF Places
<1>4. Rest = {i \in 2 .. Len(s) : s[i].outcome = o}
  BY <1>1 DEF Places
<1>5. ExistsBijection(Places(Tail(s), o), Rest)
  <2>1. Move \in [Places(Tail(s), o) -> Rest]
    BY <1>1, <1>3, <1>4
  <2>2. \A i, j \in Places(Tail(s), o) : Move[i] = Move[j] => i = j
    BY <1>3
  <2>3. ASSUME NEW k \in Rest PROVE \E i \in Places(Tail(s), o) : Move[i] = k
    <3>1. k - 1 \in Places(Tail(s), o) /\ (k - 1) + 1 = k
      BY <1>1, <1>3, <1>4
    <3> QED
      BY <3>1
  <2>4. Move \in Bijection(Places(Tail(s), o), Rest)
    BY <2>1, <2>2, <2>3 DEF Bijection, Injection, Surjection, IsInjective
  <2> QED
    BY <2>4 DEF ExistsBijection
<1>6. Cardinality(Rest) = Cardinality(Places(Tail(s), o))
  BY <1>1, <1>5, PlacesFinite, FS_Bijection
<1>7. 1 \in Places(s, o) <=> Head(s).outcome = o
  BY <1>1 DEF Places
<1>8. Cardinality(Rest) = IF 1 \in Places(s, o) THEN Cardinality(Places(s, o)) - 1
                                              ELSE Cardinality(Places(s, o))
  BY PlacesFinite, FS_RemoveElement
<1>9. Cardinality(Places(s, o)) \in Nat /\ Cardinality(Places(Tail(s), o)) \in Nat
  BY <1>1, PlacesFinite
<1> HIDE DEF Rest, Move
<1> QED
  BY <1>6, <1>7, <1>8, <1>9

\* Who sends one outcome is part of who sends.
LEMMA InHandFinite ==
    \A o : /\ IsFiniteSet(InHand(o)) /\ Cardinality(InHand(o)) \in Nat
           /\ Cardinality(InHand(o)) <= numWorkers
<1>1. \A o : InHand(o) \in SUBSET Worker
  BY DEF InHand, InState
<1> QED
  BY <1>1, MonitorAssumption, FS_Subset, FS_CardinalityType DEF numWorkers

\* What is proved of results: the counts in total, and of every outcome.
ConservedInv == FlowInv /\ ResultsConserved

\* ResultsConserved in the words of the lemmas.
Conserved == \A o \in Outcome : executed[o] = report.count[o] + Underway(o)

\* Conserved is ResultsConserved with the sets named.
LEMMA ConservedMeans == TypeOK => (ResultsConserved <=> Conserved)
<1> SUFFICES ASSUME TypeOK, NEW o \in Outcome
             PROVE  report.count[o] + Cardinality({i \in DOMAIN results : results[i].outcome = o})
                      + Cardinality({w \in InState("sending") : holds[w].outcome = o})
                    = report.count[o] + Underway(o)
  BY DEF ResultsConserved, Conserved
<1>1. Cardinality({i \in DOMAIN results : results[i].outcome = o}) = Cardinality(Places(results, o))
  BY DEF Places
<1>2. Cardinality({w \in InState("sending") : holds[w].outcome = o}) = Cardinality(InHand(o))
  BY DEF InHand
<1>3. /\ Cardinality(Places(results, o)) \in Nat /\ Cardinality(InHand(o)) \in Nat
      /\ report.count[o] \in Nat
  BY PlacesFinite, InHandFinite DEF TypeOK
<1> QED
  BY <1>1, <1>2, <1>3 DEF Underway

\* No step loses a result or counts one twice.
LEMMA ConservedStep == ConservedInv /\ [Next]_vars => ConservedInv'
<1> SUFFICES ASSUME ConservedInv, [Next]_vars PROVE ConservedInv'
  OBVIOUS
<1>a. TypeOK /\ TypeOK' /\ FlowInv /\ FlowInv'
  BY FlowStep DEF ConservedInv, FlowInv
<1>b. \A o \in Outcome : executed[o] = report.count[o] + Underway(o)
  BY <1>a, ConservedMeans DEF ConservedInv, Conserved
<1> SUFFICES ASSUME NEW o \in Outcome
             PROVE  executed'[o] = report'.count[o] + Underway(o)'
  <2>1. TypeOK' => (ResultsConserved' <=> Conserved')
    BY ConservedMeans, PTL
  <2> QED
    BY <1>a, <2>1 DEF ConservedInv, Conserved
<1> DEFINE Waits == Cardinality(Places(results, o))
           Held == Cardinality(InHand(o))
<1>c. /\ executed[o] \in Nat /\ report.count[o] \in Nat /\ Waits \in Nat /\ Held \in Nat
      /\ executed[o] = report.count[o] + (Waits + Held)
  BY <1>a, <1>b, PlacesFinite, InHandFinite DEF TypeOK, Underway
<1>d. ASSUME NEW w \in Worker, worker[w] # "sending" PROVE w \notin InHand(o)
  BY <1>d DEF InHand, InState
\* Steps of other goroutines.
<1>e. ASSUME UNCHANGED <<executed, report, results>>, InHand(o)' = InHand(o)
      PROVE  executed'[o] = report'.count[o] + Underway(o)'
  BY <1>b, <1>e DEF Underway
<1>f. ASSUME UNCHANGED <<worker, holds>> PROVE InHand(o)' = InHand(o)
  BY <1>f DEF InHand, InState
<1>1. CASE Run
  <2>1. InHand(o) = {} /\ InHand(o)' = {}
    BY <1>1, <1>a DEF Run, FlowInv, InHand, InState
  <2> QED
    BY <1>1, <1>e, <2>1 DEF Run, channels
<1>2. CASE RunTwice
  BY <1>2, <1>e, <1>f DEF RunTwice, channels
<1>3. ASSUME NEW s \in Stopper, StopCheck(s) \/ StopClose(s)
      PROVE  executed'[o] = report'.count[o] + Underway(o)'
  BY <1>3, <1>e, <1>f DEF StopCheck, StopClose, channels
<1>4. CASE ProducerHalts \/ ProducerTimer \/ ProducerSends
  BY <1>4, <1>e, <1>f DEF ProducerHalts, ProducerTimer, ProducerSends, channels
<1>5. ASSUME NEW w \in Worker, WorkerHalts(w)
      PROVE  executed'[o] = report'.count[o] + Underway(o)'
  <2>1. InHand(o)' = InHand(o)
    BY <1>5, <1>a DEF WorkerHalts, InHand, InState, TypeOK
  <2> QED
    BY <1>5, <1>e, <2>1 DEF WorkerHalts, channels
<1>6. ASSUME NEW w \in Worker, WorkerTakes(w)
      PROVE  executed'[o] = report'.count[o] + Underway(o)'
  <2>1. InHand(o)' = InHand(o)
    BY <1>6, <1>a DEF WorkerTakes, InHand, InState, TypeOK
  <2> QED
    BY <1>6, <1>e, <2>1 DEF WorkerTakes, channels
<1>7. ASSUME NEW w \in Worker, WorkerExecutes(w)
      PROVE  executed'[o] = report'.count[o] + Underway(o)'
  <2>1. PICK p \in Outcome : /\ holds' = [holds EXCEPT ![w].outcome = p]
                             /\ executed' = [executed EXCEPT ![p] = @ + 1]
    BY <1>7 DEF WorkerExecutes
  <2>2. worker' = [worker EXCEPT ![w] = "sending"] /\ worker[w] = "busy"
        /\ UNCHANGED <<report, results>>
    BY <1>7 DEF WorkerExecutes, channels
  <2>3. holds'[w].outcome = p /\ \A v \in Worker \ {w} : holds'[v] = holds[v]
    BY <1>a, <2>1 DEF TypeOK, Result
  <2>4. w \notin InHand(o)
    BY <1>d, <2>2
  <2>5. Cardinality(InHand(o)') = Held + (IF p = o THEN 1 ELSE 0)
    <3>1. CASE p = o
      <4>1. InHand(o)' = InHand(o) \cup {w}
        BY <1>a, <2>2, <2>3, <3>1 DEF InHand, InState, TypeOK
      <4> QED
        BY <2>4, <3>1, <4>1, InHandFinite, FS_AddElement
    <3>2. CASE p # o
      <4>1. InHand(o)' = InHand(o)
        BY <1>a, <2>2, <2>3, <3>2 DEF InHand, InState, TypeOK
      <4> QED
        BY <1>c, <3>2, <4>1
    <3> QED
      BY <3>1, <3>2
  <2>6. executed'[o] = executed[o] + (IF p = o THEN 1 ELSE 0)
    BY <1>a, <2>1 DEF TypeOK
  <2>7. Underway(o)' = Waits + Cardinality(InHand(o)')
    BY <2>2 DEF Underway
  <2> QED
    BY <1>c, <2>2, <2>5, <2>6, <2>7
<1>8. ASSUME NEW w \in Worker, WorkerSends(w)
      PROVE  executed'[o] = report'.count[o] + Underway(o)'
  <2>1. worker' = [worker EXCEPT ![w] = "ready"] /\ worker[w] = "sending"
        /\ holds' = [holds EXCEPT ![w] = NoResult] /\ results' = Append(results, holds[w])
        /\ UNCHANGED <<report, executed>>
    BY <1>8 DEF WorkerSends
  <2>2. InHand(o)' = InHand(o) \ {w}
    BY <1>a, <2>1 DEF InHand, InState, TypeOK
  <2>3. w \in InHand(o) <=> holds[w].outcome = o
    BY <2>1 DEF InHand, InState
  <2>4. Cardinality(InHand(o)') = Held - (IF holds[w].outcome = o THEN 1 ELSE 0)
    <3>1. Cardinality(InHand(o) \ {w}) = IF w \in InHand(o) THEN Held - 1 ELSE Held
      BY InHandFinite, FS_RemoveElement
    <3> QED
      BY <1>c, <2>2, <2>3, <3>1
  <2>5. Cardinality(Places(results', o)) = Waits + (IF holds[w].outcome = o THEN 1 ELSE 0)
    BY <1>a, <2>1, PlacesAppend DEF TypeOK
  <2>6. Underway(o)' = Cardinality(Places(results', o)) + Cardinality(InHand(o)')
    BY DEF Underway
  <2> QED
    BY <1>c, <2>1, <2>4, <2>5, <2>6
<1>9. CASE CollectorReceives
  <2>1. results # <<>> /\ report' = Counted(report, Head(results)) /\ results' = Tail(results)
        /\ UNCHANGED <<worker, holds, executed>>
    BY <1>9 DEF CollectorReceives
  <2>2. Head(results) \in Result
    BY <1>a, <2>1 DEF TypeOK
  <2>3. report'.count[o] = report.count[o] + (IF Head(results).outcome = o THEN 1 ELSE 0)
    BY <1>a, <2>1, <2>2 DEF Counted, Result, TypeOK
  <2>4. Waits = Cardinality(Places(results', o)) + (IF Head(results).outcome = o THEN 1 ELSE 0)
    BY <1>a, <2>1, PlacesTail DEF TypeOK
  <2>5. Cardinality(Places(results', o)) \in Nat
    BY <1>a, PlacesFinite DEF TypeOK
  <2>6. Underway(o)' = Cardinality(Places(results', o)) + Held
    BY <1>f, <2>1 DEF Underway
  <2> QED
    BY <1>c, <2>1, <2>3, <2>4, <2>5, <2>6
<1>10. CASE CollectorHalts \/ CollectorReports
  BY <1>10, <1>e, <1>f DEF CollectorHalts, CollectorReports, channels
<1>11. CASE UNCHANGED vars
  BY <1>11, <1>e, <1>f DEF vars
<1> QED
  BY <1>1, <1>2, <1>3, <1>4, <1>5, <1>6, <1>7, <1>8, <1>9, <1>10, <1>11 DEF Next

\* No result at all is nowhere.
LEMMA ConservedInit == Init => ConservedInv
<1> SUFFICES ASSUME Init PROVE ConservedInv
  OBVIOUS
<1>1. FlowInv
  BY FlowInit
<1>2. \A o : Places(results, o) = {} /\ InHand(o) = {}
  BY DEF Init, Places, InHand, InState
<1>3. \A o : Underway(o) = 0
  BY <1>2, FS_EmptySet DEF Underway
<1>4. \A o \in Outcome : executed[o] = 0 /\ report.count[o] = 0
  BY DEF Init
<1> QED
  BY <1>1, <1>3, <1>4, ConservedMeans DEF ConservedInv, FlowInv, Conserved

\* Of every outcome, each execution that ended is in the Review, in the results channel
\* or in a worker's hands, once (monitor.go:50-137), for any number of workers.
THEOREM NoResultIsLost == Spec => []ResultsConserved
<1>1. ConservedInv => ResultsConserved
  BY DEF ConservedInv
<1> QED
  BY <1>1, ConservedInit, ConservedStep, PTL DEF Spec

\* The arithmetic of a verdict: per execution k, of which the target asks for m and
\* rounding gives away r.
LEMMA WithinTolerance ==
  ASSUME NEW k \in Nat, NEW m \in Nat, NEW r \in Nat, NEW good \in Nat, NEW bad \in Nat,
         NEW total \in Nat, NEW missed \in Nat,
         bad <= total + missed - good, m * total <= k * good + r * total
  PROVE  k * bad <= (k - m + r) * total + k * missed
<1>1. k * bad <= k * (total + missed - good)
  <2>1. PICK d \in Nat : total + missed - good = bad + d
    OBVIOUS
  <2>2. k * (bad + d) = k * bad + k * d /\ k * d \in Nat /\ k * bad \in Nat
    OBVIOUS
  <2> QED
    BY <2>1, <2>2
<1>2. k * (total + missed - good) = k * total + k * missed - k * good
  OBVIOUS
<1>3. (k - m + r) * total = k * total - m * total + r * total
  OBVIOUS
<1>4. /\ k * bad \in Int /\ k * total \in Int /\ k * missed \in Int /\ k * good \in Int
      /\ m * total \in Int /\ r * total \in Int
  OBVIOUS
<1> QED
  BY <1>1, <1>2, <1>3, <1>4

\* A verdict cannot pass on executions that the Review invented, and what it missed is
\* bounded.
LEMMA VerdictFollows == ConservedInv => VerdictSound
<1> DEFINE Good == report.count["success"]
           Bad == executed["failure"] + executed["warning"]
<1> SUFFICES ASSUME ConservedInv, HaveTestsPassed(report.count)
             PROVE  /\ executed["success"] > 0
                    /\ (100 * Unit) * Bad <= (100 * Unit - Target + Rounding) * Reported
                                                + (100 * Unit) * (2 * numWorkers)
  BY DEF VerdictSound
<1>1. TypeOK /\ LossBounded /\ Conserved
  BY FlowBounds, ConservedMeans DEF ConservedInv, FlowInv
<1>2. /\ report.count \in [Outcome -> Nat] /\ executed \in [Outcome -> Nat]
      /\ Reported \in Nat /\ Executed \in Nat
  BY <1>1, CountIsNat DEF TypeOK, Reported, Executed
<1>3. \A o \in Outcome : Underway(o) \in Nat
  BY <1>1, PlacesFinite, InHandFinite DEF Underway, TypeOK
<1>4. Good \in Nat /\ executed["success"] \in Nat /\ Good <= executed["success"]
  BY <1>1, <1>2, <1>3 DEF Conserved, Outcome
<1>5. Good # 0 /\ Target * Reported <= (100 * Unit) * Good + Rounding * Reported
  BY DEF HaveTestsPassed, MayReach, Reported
<1>6. Executed = executed["success"] + Bad
  BY DEF Executed, TotalExecutions
<1>7. Bad \in Nat
  <2>1. executed["failure"] \in Nat /\ executed["warning"] \in Nat
    BY <1>2 DEF Outcome
  <2> QED
    BY <2>1
<1>8. Bad <= Reported + 2 * numWorkers - Good
  <2> HIDE DEF Good, Bad
  <2> QED
    BY <1>1, <1>2, <1>4, <1>6, <1>7, PoolSize DEF LossBounded
<1>9. 100 * Unit \in Nat /\ Target \in Nat /\ Rounding \in Nat /\ 2 * numWorkers \in Nat
  BY MonitorAssumption, PoolSize
<1>10. (100 * Unit) * Bad
          <= (100 * Unit - Target + Rounding) * Reported + (100 * Unit) * (2 * numWorkers)
  <2> HIDE DEF Good, Bad
  <2> QED
    BY <1>2, <1>4, <1>5, <1>7, <1>8, <1>9, WithinTolerance
<1> QED
  BY <1>4, <1>5, <1>10

\* A verdict that passes (monitor.go:54-60) is about what ran, for any number of
\* workers, any target and any rounding of the percentage: some execution succeeded,
\* and those that did not, seen or missed, are within the tolerance plus what fits the
\* channel and the hands.
THEOREM VerdictIsSound == Spec => []VerdictSound
BY ConservedInit, ConservedStep, VerdictFollows, PTL DEF Spec

-------------------------------------------------------------------------------
(* Callers of Stop.                                                          *)

\* The halt channel is made once and closed once, by a caller of Stop that had not
\* seen it closed; a caller that saw it open saw it after it was made.
StopInv ==
    /\ TypeOK
    /\ \A s \in Stopper : stop[s] = "closing" => saw[s] \in {"nil", "open"}
    /\ \A s \in Stopper : saw[s] = "open" => halt # "nil"
    /\ halt = "closed" => \E q \in Stopper : stop[q] = "returned" /\ saw[q] # "closed"
    /\ PanicOnlyOnMisuse

\* Only the two steps of Stop and the start of Run matter to it.
LEMMA StopStep == StopInv /\ [Next]_vars => StopInv'
<1> SUFFICES ASSUME StopInv, [Next]_vars PROVE StopInv'
  OBVIOUS
<1>0. TypeOK'
  BY TypeStep DEF StopInv
<1> USE DEF StopInv, PanicOnlyOnMisuse
<1>a. ASSUME UNCHANGED <<halt, stop, saw>> PROVE StopInv'
  BY <1>0, <1>a
<1>1. CASE Run
  BY <1>0, <1>1 DEF Run
<1>2. CASE RunTwice
  BY <1>2, <1>a DEF RunTwice
<1>3. ASSUME NEW s \in Stopper, StopCheck(s) PROVE StopInv'
  <2>1. /\ stop[s] = "idle" /\ halt' = halt
        /\ stop'[s] = (IF halt = "closed" THEN "returned" ELSE "closing")
        /\ saw'[s] = halt
        /\ \A q \in Stopper \ {s} : stop'[q] = stop[q] /\ saw'[q] = saw[q]
    BY <1>3 DEF StopCheck, TypeOK
  <2>2. \A q \in Stopper : stop[q] \in {"returned", "panicked"} => q # s
    BY <2>1
  <2>3. \A q \in Stopper : stop'[q] = "closing" => saw'[q] \in {"nil", "open"}
    BY <2>1 DEF TypeOK
  <2>4. \A q \in Stopper : saw'[q] = "open" => halt' # "nil"
    BY <2>1
  <2>5. halt' = "closed" => \E q \in Stopper : stop'[q] = "returned" /\ saw'[q] # "closed"
    BY <2>1, <2>2
  <2>6. ASSUME NEW p \in Stopper, stop'[p] = "panicked"
        PROVE  \/ saw'[p] = "nil"
               \/ /\ saw'[p] = "open"
                  /\ \E q \in Stopper \ {p} : stop'[q] = "returned" /\ saw'[q] # "closed"
    BY <2>1, <2>2, <2>6
  <2> QED
    BY <1>0, <2>3, <2>4, <2>5, <2>6
<1>4. ASSUME NEW s \in Stopper, StopClose(s) PROVE StopInv'
  <2>1. /\ stop[s] = "closing" /\ saw' = saw
        /\ \A q \in Stopper \ {s} : stop'[q] = stop[q]
        /\ \/ halt = "open" /\ halt' = "closed" /\ stop'[s] = "returned"
           \/ halt # "open" /\ halt' = halt /\ stop'[s] = "panicked"
    BY <1>4 DEF StopClose, TypeOK
  <2>2. saw[s] \in {"nil", "open"}
    BY <2>1
  <2>3. \A q \in Stopper : stop'[q] = "closing" => saw'[q] \in {"nil", "open"}
    BY <2>1
  <2>4. \A q \in Stopper : saw'[q] = "open" => halt' # "nil"
    BY <2>1
  <2>5. \A q \in Stopper : stop[q] = "returned" => q # s /\ stop'[q] = "returned"
    BY <2>1
  <2>6. halt' = "closed" => \E q \in Stopper : stop'[q] = "returned" /\ saw'[q] # "closed"
    BY <2>1, <2>2, <2>5
  <2>7. ASSUME NEW p \in Stopper, stop'[p] = "panicked"
        PROVE  \/ saw'[p] = "nil"
               \/ /\ saw'[p] = "open"
                  /\ \E q \in Stopper \ {p} : stop'[q] = "returned" /\ saw'[q] # "closed"
    <3>1. CASE p = s
      <4>1. halt # "open" /\ saw'[s] = saw[s]
        BY <2>1, <2>7, <3>1
      <4>2. saw[s] = "open" => halt = "closed"
        BY <4>1 DEF TypeOK
      <4> QED
        BY <2>1, <2>2, <2>5, <3>1, <4>1, <4>2
    <3>2. CASE p # s
      BY <2>1, <2>5, <2>7, <3>2
    <3> QED
      BY <3>1, <3>2
  <2> QED
    BY <1>0, <2>3, <2>4, <2>6, <2>7
<1>5. CASE ProducerHalts \/ ProducerTimer \/ ProducerSends
  BY <1>5, <1>a DEF ProducerHalts, ProducerTimer, ProducerSends, callers
<1>6. ASSUME NEW w \in Worker,
             WorkerHalts(w) \/ WorkerTakes(w) \/ WorkerExecutes(w) \/ WorkerSends(w)
      PROVE  StopInv'
  BY <1>6, <1>a DEF WorkerHalts, WorkerTakes, WorkerExecutes, WorkerSends, callers
<1>7. CASE CollectorReceives \/ CollectorHalts \/ CollectorReports
  BY <1>7, <1>a DEF CollectorReceives, CollectorHalts, CollectorReports, callers
<1>8. CASE UNCHANGED vars
  BY <1>8, <1>a DEF vars
<1> QED
  BY <1>1, <1>2, <1>3, <1>4, <1>5, <1>6, <1>7, <1>8 DEF Next

\* However many callers overlap, Stop panics for one that was too early, or for one that
\* another overtook between the look and the close (monitor.go:154-158), and no other.
THEOREM StopPanicsOnMisuse == Spec => []PanicOnlyOnMisuse
<1>1. Init => StopInv
  BY TypeInit DEF Init, StopInv, PanicOnlyOnMisuse
<1>2. StopInv => PanicOnlyOnMisuse
  BY DEF StopInv
<1> QED
  BY <1>1, <1>2, StopStep, PTL DEF Spec

-------------------------------------------------------------------------------
(* The promise of AvailabilityReport, step by step.  That Run returns, the   *)
(* fairness of the promise, is left to TLC.                                  *)

\* How far each goroutine can be, given what Run and Stop have done.
StageInv ==
    /\ halt = "nil" => /\ run = "idle" /\ collector = "off"
                       /\ \A w \in Worker : worker[w] = "off"
    /\ run = "blocked" <=> collector \in {"collecting", "reporting"}
    /\ collector = "reporting" => halt = "closed"
    /\ HandedOver

\* Each goroutine starts in Run, and the collector ends in the rendezvous with it.
LEMMA StageStep == TypeOK /\ StageInv /\ [Next]_vars => StageInv'
<1> SUFFICES ASSUME TypeOK, StageInv, [Next]_vars PROVE StageInv'
  OBVIOUS
<1>0. HandedOver'
  BY HandedOverStep DEF StageInv
<1> USE DEF StageInv, TypeOK
<1>a. ASSUME UNCHANGED <<halt, run, collector, worker>> PROVE StageInv'
  BY <1>0, <1>a
<1>1. CASE Run
  BY <1>0, <1>1 DEF Run
<1>2. CASE RunTwice
  BY <1>0, <1>2 DEF RunTwice, HandedOver
<1>3. ASSUME NEW s \in Stopper, StopCheck(s) PROVE StageInv'
  BY <1>3, <1>a DEF StopCheck
<1>4. ASSUME NEW s \in Stopper, StopClose(s) PROVE StageInv'
  BY <1>0, <1>4 DEF StopClose
<1>5. CASE ProducerHalts \/ ProducerTimer \/ ProducerSends
  BY <1>5, <1>a DEF ProducerHalts, ProducerTimer, ProducerSends, callers
<1>6. ASSUME NEW w \in Worker,
             WorkerHalts(w) \/ WorkerTakes(w) \/ WorkerExecutes(w) \/ WorkerSends(w)
      PROVE  StageInv'
  <2>1. worker[w] # "off"
    BY <1>6 DEF WorkerHalts, WorkerTakes, WorkerExecutes, WorkerSends
  <2>2. halt # "nil" /\ UNCHANGED <<halt, run, collector>>
    BY <1>6, <2>1 DEF WorkerHalts, WorkerTakes, WorkerExecutes, WorkerSends, callers
  <2> QED
    BY <1>0, <2>2
<1>7. CASE CollectorReceives
  BY <1>7, <1>a DEF CollectorReceives, callers
<1>8. CASE CollectorHalts
  BY <1>0, <1>8 DEF CollectorHalts, callers
<1>9. CASE CollectorReports
  BY <1>0, <1>9 DEF CollectorReports
<1>10. CASE UNCHANGED vars
  BY <1>10, <1>a DEF vars
<1> QED
  BY <1>1, <1>2, <1>3, <1>4, <1>5, <1>6, <1>7, <1>8, <1>9, <1>10 DEF Next

\* What a step of the promise needs: no result is lost, and the stages match.
PromiseInv == ConservedInv /\ StageInv

\* Before Run nothing has started and nothing has ended.
LEMMA PromiseInit == Init => PromiseInv
<1>1. Init => StageInv
  BY DEF Init, StageInv, HandedOver
<1> QED
  BY <1>1, ConservedInit DEF PromiseInv

\* Both parts are inductive.
LEMMA PromiseStep == PromiseInv /\ [Next]_vars => PromiseInv'
BY ConservedStep, StageStep DEF PromiseInv, ConservedInv, FlowInv

\* What the Review may still get of an outcome fits the channel and the hands.
LEMMA WithinLag == PromiseInv => \A o \in Outcome : executed[o] - report.count[o] <= 2 * numWorkers
<1> SUFFICES ASSUME PromiseInv, NEW o \in Outcome
             PROVE  executed[o] - report.count[o] <= 2 * numWorkers
  OBVIOUS
<1>1. TypeOK /\ Conserved
  BY ConservedMeans DEF PromiseInv, ConservedInv, FlowInv
<1>2. /\ Cardinality(Places(results, o)) \in Nat
      /\ Cardinality(Places(results, o)) <= Len(results)
      /\ Len(results) <= numWorkers /\ Len(results) \in Nat
  BY <1>1, PlacesFinite DEF TypeOK
<1>3. Cardinality(InHand(o)) \in Nat /\ Cardinality(InHand(o)) <= numWorkers
  BY InHandFinite
<1>4. executed[o] = report.count[o] + (Cardinality(Places(results, o)) + Cardinality(InHand(o)))
      /\ report.count[o] \in Nat
  BY <1>1 DEF Conserved, Underway, TypeOK
<1> QED
  BY <1>2, <1>3, <1>4, PoolSize

\* Every step of the monitor is a step of the promise or leaves it alone.
LEMMA StepOfPromise == PromiseInv /\ [Next]_vars => [Promise!Next]_(Promise!vars)
<1> SUFFICES ASSUME PromiseInv, [Next]_vars PROVE [Promise!Next]_(Promise!vars)
  OBVIOUS
<1>a. TypeOK /\ StageInv /\ Conserved /\ HandedOver
  BY ConservedMeans DEF PromiseInv, ConservedInv, FlowInv, StageInv
<1>b. Promise!WithinLag
  <2>1. PromiseInv'
    BY PromiseStep
  <2>2. (\A o \in Outcome : executed[o] - report.count[o] <= 2 * numWorkers)'
    BY <2>1, WithinLag, PTL
  <2> QED
    BY <2>2 DEF Promise!WithinLag
<1>c. ASSUME UNCHANGED <<run, halt, executed, report>> PROVE [Promise!Next]_(Promise!vars)
  BY <1>c DEF Promise!vars
<1>1. CASE Run
  <2>1. Promise!Start
    BY <1>1 DEF Run, Promise!Start
  <2> QED
    BY <1>b, <2>1 DEF Promise!Next
<1>2. CASE RunTwice
  BY <1>2 DEF RunTwice, Promise!vars
<1>3. ASSUME NEW s \in Stopper, StopCheck(s) PROVE [Promise!Next]_(Promise!vars)
  BY <1>3, <1>c DEF StopCheck
<1>4. ASSUME NEW s \in Stopper, StopClose(s) PROVE [Promise!Next]_(Promise!vars)
  <2>1. CASE halt = "open" /\ run \notin {"returned", "panicked"}
    <3>1. Promise!Stop
      BY <1>4, <2>1 DEF StopClose, Promise!Stop
    <3> QED
      BY <1>b, <3>1 DEF Promise!Next
  <2>2. CASE halt = "open" /\ run \in {"returned", "panicked"}
    BY <1>4, <2>2 DEF StopClose, Promise!vars
  <2>3. CASE halt # "open"
    BY <1>4, <1>c, <2>3 DEF StopClose
  <2> QED
    BY <2>1, <2>2, <2>3
<1>5. CASE ProducerHalts \/ ProducerTimer \/ ProducerSends
  BY <1>5, <1>c DEF ProducerHalts, ProducerTimer, ProducerSends, callers
<1>6. ASSUME NEW w \in Worker, WorkerHalts(w) \/ WorkerTakes(w) \/ WorkerSends(w)
      PROVE  [Promise!Next]_(Promise!vars)
  BY <1>6, <1>c DEF WorkerHalts, WorkerTakes, WorkerSends, callers
<1>7. ASSUME NEW w \in Worker, WorkerExecutes(w) PROVE [Promise!Next]_(Promise!vars)
  <2>1. PICK o \in Outcome : executed' = [executed EXCEPT ![o] = @ + 1]
    BY <1>7 DEF WorkerExecutes
  <2>2. halt # "nil" /\ UNCHANGED <<run, halt, report>>
    BY <1>7, <1>a DEF WorkerExecutes, StageInv, callers
  <2>3. Promise!Execute(o)
    BY <2>1, <2>2 DEF Promise!Execute
  <2> QED
    BY <1>b, <2>3 DEF Promise!Next
<1>8. CASE CollectorReceives
  <2> DEFINE o == Head(results).outcome
  <2>1. results # <<>> /\ collector = "collecting" /\ UNCHANGED <<run, halt, executed>>
        /\ report' = Counted(report, Head(results))
    BY <1>8 DEF CollectorReceives, callers
  <2>2. Head(results) \in Result
    BY <1>a, <2>1 DEF TypeOK
  <2>3. o \in Outcome /\ report'.count = [report.count EXCEPT ![o] = @ + 1]
    BY <2>1, <2>2 DEF Counted, Result
  <2>4. run = "blocked" /\ halt # "nil"
    BY <1>a, <2>1 DEF StageInv
  <2>5. report.count[o] < executed[o]
    <3>1. /\ Cardinality(Places(results, o)) = Cardinality(Places(Tail(results), o)) + 1
          /\ Cardinality(Places(Tail(results), o)) \in Nat
      <4>1. results \in Seq(Result) /\ Tail(results) \in Seq(Result)
        BY <1>a, <2>1 DEF TypeOK
      <4>2. Cardinality(Places(results, o)) = Cardinality(Places(Tail(results), o))
                                                + (IF Head(results).outcome = o THEN 1 ELSE 0)
        BY <2>1, <4>1, PlacesTail
      <4> QED
        BY <4>1, <4>2, PlacesFinite
    <3>2. executed[o] = report.count[o] + (Cardinality(Places(results, o)) + Cardinality(InHand(o)))
      BY <1>a, <2>3 DEF Conserved, Underway
    <3>3. report.count[o] \in Nat /\ Cardinality(InHand(o)) \in Nat
      BY <1>a, <2>3, InHandFinite DEF TypeOK
    <3> HIDE DEF o
    <3> QED
      BY <3>1, <3>2, <3>3
  <2>6. Promise!Collect(o)
    BY <1>a, <2>1, <2>3, <2>4, <2>5 DEF Promise!Collect, TypeOK
  <2> QED
    BY <1>b, <2>3, <2>6 DEF Promise!Next
<1>9. CASE CollectorHalts
  BY <1>9, <1>c DEF CollectorHalts, callers
<1>10. CASE CollectorReports
  <2>1. Promise!Return
    BY <1>10, <1>a DEF CollectorReports, StageInv, Promise!Return
  <2> QED
    BY <1>b, <2>1 DEF Promise!Next
<1>11. CASE UNCHANGED vars
  BY <1>11, <1>c DEF vars
<1> QED
  BY <1>1, <1>2, <1>3, <1>4, <1>5, <1>6, <1>7, <1>8, <1>9, <1>10, <1>11 DEF Next

\* The monitor does nothing that AvailabilityReport does not allow, for any number of
\* workers and of callers of Stop: it reports only what ended, each once, with at
\* most 2 * numWorkers of an outcome missing, and hands the Review out after Stop.
THEOREM PromiseIsKept == Spec => Promise!Safety
<1>1. Init => Promise!Init
  BY DEF Init, Promise!Init
<1> QED
  BY <1>1, PromiseInit, PromiseStep, StepOfPromise, PTL DEF Spec, Promise!Safety

-------------------------------------------------------------------------------
(* What RunReturns and SettlesAfterStop rest on beside fairness.             *)

\* Once halt is closed, a Run that waits has before it one step of the collector or two,
\* which can be taken at once: no task, worker, producer or caller of Stop is needed.
OnlyCollectorIsNeeded ==
    run = "blocked" /\ halt = "closed" =>
        \/ collector = "collecting"   \* all that CollectorHalts waits for
        \/ collector = "reporting"    \* all that CollectorReports waits for

\* Nothing moves any more in a monitor that has settled: what is stuck in a send remains
\* so, and the channels, the Review and the counts keep their values.
SettledForGood ==
    [][Settled => Settled' /\ UNCHANGED <<channels, worker, producer, report, executed, produced>>]_vars

\* Run is not left waiting for a goroutine that may hang (monitor.go:95-97, 115).
THEOREM RunNeedsOnlyCollector == Spec => []OnlyCollectorIsNeeded
<1>1. PromiseInv => OnlyCollectorIsNeeded
  BY DEF PromiseInv, StageInv, OnlyCollectorIsNeeded
<1> QED
  BY <1>1, PromiseInit, PromiseStep, PTL DEF Spec

\* What SettlesAfterStop finds settled once is settled for good: the goroutines that
\* leak do nothing but stay, and another Stop or Run does not wake them.
THEOREM SettledStays == Spec => SettledForGood
<1> DEFINE Stays == Settled' /\ UNCHANGED <<channels, worker, producer, report, executed, produced>>
<1>1. ASSUME PromiseInv, Settled, [Next]_vars PROVE Stays
  <2> USE DEF Settled, channels, callers
  <2>1. halt # "nil" /\ collector = "done"
    BY <1>1 DEF PromiseInv, StageInv
  <2>2. CASE RunTwice
    BY <1>1, <2>2 DEF RunTwice
  <2>3. ASSUME NEW s \in Stopper, StopCheck(s) \/ StopClose(s) PROVE Stays
    BY <1>1, <2>3 DEF StopCheck, StopClose
  <2>4. CASE UNCHANGED vars
    BY <1>1, <2>4 DEF vars
  <2>5. ~(ProducerHalts \/ ProducerTimer \/ ProducerSends)
    BY <1>1 DEF ProducerHalts, ProducerTimer, ProducerSends
  <2>6. \A w \in Worker :
            ~(WorkerHalts(w) \/ WorkerTakes(w) \/ WorkerExecutes(w) \/ WorkerSends(w))
    BY <1>1 DEF WorkerHalts, WorkerTakes, WorkerExecutes, WorkerSends
  <2>7. ~(CollectorReceives \/ CollectorHalts \/ CollectorReports) /\ ~Run
    BY <2>1 DEF CollectorReceives, CollectorHalts, CollectorReports, Run
  <2> QED
    BY <1>1, <2>2, <2>3, <2>4, <2>5, <2>6, <2>7 DEF Next
<1>2. PromiseInv /\ [Next]_vars =>
        [Settled => Settled' /\ UNCHANGED <<channels, worker, producer, report, executed, produced>>]_vars
  BY <1>1
<1> QED
  BY <1>2, PromiseInit, PromiseStep, PTL DEF Spec, SettledForGood

===============================================================================
