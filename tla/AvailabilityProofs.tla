--------------------------- MODULE AvailabilityProofs ---------------------------
(***************************************************************************)
(* The availability tests.  DeployWatch: for any number of runs and any    *)
(* tests that pre-deploy waits for, no run is deployed before its tests    *)
(* were started, and a test that passed saw its run to the end, or had     *)
(* lost sight of it.  BbsTolerance: the race on allowed_stats_failures     *)
(* never makes the api test stricter.                                      *)
(***************************************************************************)
EXTENDS DeployWatch, BbsTolerance, FiniteSetTheorems, TLAPS

LEMMA TestsInOrder ==
  /\ DOMAIN WaitOrder = 1..Len(WaitOrder) /\ Len(WaitOrder) \in Nat /\ Len(WaitOrder) >= 1
  /\ 1 \in DOMAIN WaitOrder
  /\ \A i \in DOMAIN WaitOrder : WaitOrder[i] \in Test
  BY WatchAssumption DEF Test

LEMMA RunsAreNumbers == \A r \in Run : r \in Nat /\ r >= 1 /\ r <= MaxRuns
  BY WatchAssumption DEF Run

-------------------------------------------------------------------------------
(* Types.                                                                   *)

\* The api test has an attempt left for as long as it polls.
AttemptsLeft ==
    "api" \in Test => \A r \in Run :
        test["api"][r] \in {"none", "uploaded", "running"} => attempts[r] >= 1

TestState == {"none", "passed", "failed"} \union Active

LEMMA BecomesType ==
  ASSUME test \in [Test -> [Run -> TestState]], NEW t \in Test, NEW r \in Run,
         NEW s \in TestState, Becomes(t, r, s)
  PROVE  /\ test' \in [Test -> [Run -> TestState]]
         /\ test'[t][r] = s
         /\ \A u \in Test, q \in Run : (u # t \/ q # r) => test'[u][q] = test[u][q]
  BY DEF Becomes

LEMMA PipelineTypes ==
  ASSUME TypeOK, NEW r \in Run, Pipeline(r) PROVE TypeOK'
  <1> USE TestsInOrder
  <1>1. CASE GateStarts(r)
    BY <1>1 DEF TypeOK, GateStarts, tests
  <1>2. CASE GateSees(r)
    <2>1. awaits[r] + 1 \in DOMAIN WaitOrder \/ awaits[r] = Len(WaitOrder)
      BY DEF TypeOK
    <2>2. gate' \in [Run -> {"none", "waiting", "passed", "failed"}]
      BY <1>2 DEF TypeOK, GateSees
    <2>3. awaits' \in [Run -> DOMAIN WaitOrder]
      BY <1>2, <2>1 DEF TypeOK, GateSees
    <2> QED BY <1>2, <2>2, <2>3 DEF TypeOK, GateSees, tests
  <1>3. CASE GateTimesOut(r)
    BY <1>3 DEF TypeOK, GateTimesOut, tests
  <1>4. CASE DeployStarts(r) \/ DeployEnds(r)
    BY <1>4 DEF TypeOK, DeployStarts, DeployEnds, tests
  <1>5. CASE PostStarts(r) \/ PostEnds(r)
    BY <1>5 DEF TypeOK, PostStarts, PostEnds, tests
  <1>6. CASE SecretsPass(r)
    <2>1. r \in 1..version
      BY <1>6, RunsAreNumbers DEF TypeOK, SecretsPass
    <2>2. secrets' \in SUBSET (1..version) /\ version' = version
      BY <1>6, <2>1 DEF TypeOK, SecretsPass
    <2> QED BY <1>6, <2>2 DEF TypeOK, SecretsPass, tests
  <1> QED BY <1>1, <1>2, <1>3, <1>4, <1>5, <1>6 DEF Pipeline

LEMMA TestTypes ==
  ASSUME TypeOK, AttemptsLeft, NEW r \in Run,
         Api(r) \/ (\E t \in AppTest : App(t, r)) \/ (\E t \in Test : TimesOut(t, r))
  PROVE  TypeOK'
  <1>1. AppTest \subseteq Test
    BY DEF AppTest
  <1>2. UNCHANGED pipeline
    BY DEF Api, App, ApiUploads, ApiRuns, ApiBreaks, ApiPollFails, ApiPollDone,
           ApiPollerFails, ApiVerdict, AppStarts, AppRequests, LogRotates, AppPollDone, AppFails, TimesOut
  <1>3. test \in [Test -> [Run -> TestState]]
    BY DEF TypeOK, TestState
  <1>4. test' = test \/ \E t \in Test, s \in TestState : Becomes(t, r, s)
    BY <1>1 DEF Api, App, ApiUploads, ApiRuns, ApiBreaks, ApiPollFails, ApiPollDone,
           ApiPollerFails, ApiVerdict, AppStarts, AppRequests, LogRotates, AppPollDone, AppFails, TimesOut,
           TestState, Active
  <1>5. test' \in [Test -> [Run -> TestState]]
    BY <1>3, <1>4, BecomesType
  <1>6. signal' \in SUBSET (Test \X Run)
    <2>1. CASE signal' \subseteq signal
      BY <2>1 DEF TypeOK
    <2>2. CASE ApiUploads(r)
      BY <2>2 DEF TypeOK, ApiUploads
    <2>3. ASSUME NEW t \in AppTest, AppRequests(t, r) PROVE signal' \in SUBSET (Test \X Run)
      BY <1>1, <2>3 DEF TypeOK, AppRequests
    <2>4. ASSUME NEW t \in AppTest, App(t, r), ~AppRequests(t, r) PROVE signal' \subseteq signal
      BY <2>4 DEF App, AppStarts, LogRotates, AppPollDone, AppFails
    <2>5. ASSUME Api(r), ~ApiUploads(r) PROVE signal' \subseteq signal
      BY <2>5 DEF Api, ApiRuns, ApiBreaks, ApiPollFails, ApiPollDone, ApiPollerFails,
                  ApiVerdict, DeletesFile
    <2>6. ASSUME NEW t \in Test, TimesOut(t, r) PROVE signal' \subseteq signal
      BY <2>6 DEF TimesOut, DeletesFile
    <2> QED BY <2>1, <2>2, <2>3, <2>4, <2>5, <2>6
  <1>7. attempts' \in [Run -> 0..maxConcourseConnectionFailures]
    <2>1. CASE UNCHANGED attempts
      BY <2>1 DEF TypeOK
    <2>2. CASE ApiPollFails(r)
      <3>1. attempts[r] \in 1..maxConcourseConnectionFailures
        BY <2>2 DEF TypeOK, AttemptsLeft, ApiPollFails
      <3>2. attempts[r] - 1 \in 0..maxConcourseConnectionFailures
        BY <3>1, WatchAssumption
      <3> QED BY <2>2, <3>2 DEF TypeOK, ApiPollFails
    <2>3. CASE ApiUploads(r)
      BY <2>3, WatchAssumption DEF TypeOK, ApiUploads
    <2> QED BY <2>1, <2>2, <2>3 DEF Api, App, ApiUploads, ApiRuns, ApiBreaks, ApiPollDone,
           ApiPollerFails, ApiVerdict, AppStarts, AppRequests, LogRotates, AppPollDone, AppFails, TimesOut
  <1> QED BY <1>2, <1>5, <1>6, <1>7 DEF TypeOK, TestState, pipeline

LEMMA AttemptsStep == ASSUME TypeOK, AttemptsLeft, [Next]_vars PROVE AttemptsLeft'
  <1> SUFFICES ASSUME "api" \in Test, NEW r \in Run,
                      test'["api"][r] \in {"none", "uploaded", "running"}
               PROVE  attempts'[r] >= 1
    BY DEF AttemptsLeft
  <1>1. CASE UNCHANGED <<test, attempts>>
    BY <1>1 DEF AttemptsLeft
  <1>2. ASSUME NEW q \in Run, ApiPollFails(q) PROVE attempts'[r] >= 1
    <2>1. CASE r # q
      BY <1>2, <2>1 DEF ApiPollFails, AttemptsLeft, TypeOK, Becomes
    <2>2. CASE r = q
      <3>1. attempts'[r] = attempts[r] - 1 /\ attempts[r] \in Nat
        BY <1>2, <2>2, WatchAssumption DEF ApiPollFails, TypeOK
      <3>2. attempts'[r] <= 0 => test'["api"][r] = "gaveup"
        BY <1>2, <2>2 DEF ApiPollFails, Becomes, TypeOK
      <3> QED BY <3>1, <3>2
    <2> QED BY <2>1, <2>2
  <1>3. ASSUME UNCHANGED attempts, NEW t \in Test, NEW q \in Run, NEW s,
               Becomes(t, q, s),
               s \in {"none", "uploaded", "running"} => test[t][q] \in {"none", "uploaded", "running"}
        PROVE  attempts'[r] >= 1
    BY <1>3 DEF Becomes, TypeOK, AttemptsLeft
  <1>4. AppTest \subseteq Test
    BY DEF AppTest
  <1>9. ASSUME NEW q \in Run, ApiUploads(q) PROVE attempts'[r] >= 1
    <2>1. CASE r # q
      BY <1>9, <2>1 DEF ApiUploads, AttemptsLeft, TypeOK, Becomes
    <2>2. CASE r = q
      BY <1>9, <2>2, WatchAssumption DEF ApiUploads, TypeOK
    <2> QED BY <2>1, <2>2
  <1>5. ASSUME NEW q \in Run, Api(q), ~ApiPollFails(q), ~ApiUploads(q)
        PROVE  attempts'[r] >= 1
    BY <1>3, <1>5 DEF Api, ApiRuns, ApiBreaks, ApiPollDone, ApiPollerFails,
                      ApiVerdict
  <1>6. ASSUME NEW q \in Run, NEW t \in AppTest, App(t, q) PROVE attempts'[r] >= 1
    <2>1. CASE UNCHANGED test
      BY <1>1, <1>6, <2>1 DEF App, AppStarts, AppRequests, LogRotates, AppPollDone, AppFails
    <2>2. ASSUME NEW s, Becomes(t, q, s), UNCHANGED attempts PROVE attempts'[r] >= 1
      <3>1. t # "api" /\ t \in Test
        BY <1>6 DEF AppTest
      <3>2. test'["api"] = test["api"]
        BY <2>2, <3>1 DEF Becomes, TypeOK
      <3> QED BY <2>2, <3>2 DEF AttemptsLeft
    <2> QED BY <1>6, <2>1, <2>2
            DEF App, AppStarts, AppRequests, LogRotates, AppPollDone, AppFails
  <1>7. ASSUME NEW q \in Run, NEW t \in Test, TimesOut(t, q) PROVE attempts'[r] >= 1
    BY <1>3, <1>7 DEF TimesOut
  <1>8. ASSUME NEW q \in Run, StartRun \/ Pipeline(q) \/ UNCHANGED vars PROVE attempts'[r] >= 1
    BY <1>1, <1>8 DEF StartRun, Pipeline, SecretsPass, GateStarts, GateSees, GateTimesOut, DeployStarts,
                      DeployEnds, PostStarts, PostEnds, vars, tests
  <1> QED BY <1>2, <1>5, <1>6, <1>7, <1>8, <1>9 DEF Next

TypeInv == TypeOK /\ AttemptsLeft

LEMMA TypeStep == ASSUME TypeInv, [Next]_vars PROVE TypeInv'
  <1>1. ASSUME StartRun PROVE TypeOK'
    BY <1>1, WatchAssumption DEF TypeInv, TypeOK, StartRun, tests
  <1>2. ASSUME UNCHANGED vars PROVE TypeOK'
    BY <1>2 DEF TypeInv, TypeOK, vars, pipeline, tests
  <1>3. TypeOK'
    BY <1>1, <1>2, PipelineTypes, TestTypes DEF Next, TypeInv
  <1> QED BY <1>3, AttemptsStep DEF TypeInv

LEMMA TypeInit == ASSUME Init PROVE TypeInv
  BY TestsInOrder, WatchAssumption DEF Init, TypeInv, TypeOK, AttemptsLeft

\* The variables keep their types; the attempts never go below zero.
THEOREM TypeCorrect == Spec => []TypeOK
  <1>1. Init => TypeInv
    BY TypeInit
  <1>2. TypeInv /\ [Next]_vars => TypeInv'
    BY TypeStep
  <1>3. TypeInv => TypeOK
    BY DEF TypeInv
  <1> QED BY <1>1, <1>2, <1>3, PTL DEF Spec

-------------------------------------------------------------------------------
(* No deploy without its tests.                                             *)

\* A signal is of a test that was started; pre-deploy has got past the tests that
\* were started, and a deploy is of a run whose pre-deploy saw all of them.
StartedInv ==
    /\ \A t \in Test, r \in Run : <<t, r>> \in signal => test[t][r] # "none"
    /\ \A r \in Run : \A i \in DOMAIN WaitOrder : i < awaits[r] => Seen(WaitOrder[i], r)
    /\ \A r \in Run : gate[r] = "passed" => \A t \in Test : Seen(t, r)
    /\ DeployWatched

\* A test that was started once is never as if it had not been.
LEMMA StartedStays ==
  ASSUME TypeInv, [Next]_vars, NEW u \in Test, NEW q \in Run, test[u][q] # "none"
  PROVE  test'[u][q] # "none"
  <1>1. CASE UNCHANGED test
    BY <1>1
  <1>2. ASSUME NEW t \in Test, NEW r \in Run, NEW s, s # "none", Becomes(t, r, s)
        PROVE  test'[u][q] # "none"
    BY <1>2 DEF Becomes, TypeInv, TypeOK
  <1>3. AppTest \subseteq Test
    BY DEF AppTest
  <1>4. ASSUME NEW r \in Run, Api(r) PROVE test'[u][q] # "none"
    BY <1>1, <1>2, <1>4 DEF Api, ApiUploads, ApiRuns, ApiBreaks, ApiPollFails, ApiPollDone,
                            ApiPollerFails, ApiVerdict
  <1>5. ASSUME NEW r \in Run, NEW t \in AppTest, App(t, r) PROVE test'[u][q] # "none"
    BY <1>1, <1>2, <1>3, <1>5 DEF App, AppStarts, AppRequests, LogRotates, AppPollDone, AppFails
  <1>6. ASSUME NEW r \in Run, NEW t \in Test, TimesOut(t, r) PROVE test'[u][q] # "none"
    BY <1>2, <1>6 DEF TimesOut
  <1>7. ASSUME NEW r \in Run, Pipeline(r) PROVE UNCHANGED test
    BY <1>7 DEF Pipeline, SecretsPass, GateStarts, GateSees, GateTimesOut, DeployStarts, DeployEnds,
                PostStarts, PostEnds, tests
  <1>8. ASSUME StartRun \/ UNCHANGED vars PROVE UNCHANGED test
    BY <1>8 DEF StartRun, vars, tests
  <1> QED BY <1>1, <1>4, <1>5, <1>6, <1>7, <1>8 DEF Next

\* A signal is only ever given by a test that has started.
LEMMA SignalsAreReal ==
  ASSUME TypeInv, StartedInv, [Next]_vars, NEW u \in Test, NEW q \in Run, <<u, q>> \in signal'
  PROVE  test'[u][q] # "none"
  <1>1. CASE <<u, q>> \in signal
    <2>1. test[u][q] # "none"
      BY <1>1 DEF StartedInv
    <2> QED BY <2>1, StartedStays
  <1>2. CASE <<u, q>> \notin signal
    <2>1. AppTest \subseteq Test
      BY DEF AppTest
    <2>2. PICK r \in Run : ApiUploads(r) \/ \E t \in AppTest : AppRequests(t, r)
      BY <1>2 DEF Next, StartRun, Pipeline, SecretsPass, GateStarts, GateSees, GateTimesOut, DeployStarts,
             DeployEnds, PostStarts, PostEnds, Api, ApiRuns, ApiBreaks, ApiPollFails,
             ApiPollDone, ApiPollerFails, ApiVerdict, App, AppStarts, LogRotates, AppPollDone, AppFails,
             TimesOut, DeletesFile, vars, tests
    <2>3. CASE ApiUploads(r)
      <3>1. u = "api" /\ q = r
        BY <1>2, <2>3 DEF ApiUploads
      <3> QED BY <2>3, <3>1 DEF ApiUploads, Becomes, TypeInv, TypeOK
    <2>4. CASE \E t \in AppTest : AppRequests(t, r)
      <3>1. PICK t \in AppTest : AppRequests(t, r)
        BY <2>4
      <3>2. u = t /\ q = r
        BY <1>2, <3>1 DEF AppRequests
      <3> QED BY <3>1, <3>2 DEF AppRequests
    <2> QED BY <2>2, <2>3, <2>4
  <1> QED BY <1>1, <1>2

LEMMA SeenStays ==
  ASSUME TypeInv, [Next]_vars, NEW u \in Test, NEW r \in Run, Seen(u, r) PROVE Seen(u, r)'
  <1>1. PICK q \in Run : Shows(u, q, r) /\ test[u][q] # "none"
    BY DEF Seen
  <1>2. test'[u][q] # "none"
    BY <1>1, StartedStays
  <1> QED BY <1>1, <1>2 DEF Seen

LEMMA StartedStep == ASSUME TypeInv, StartedInv, [Next]_vars PROVE StartedInv'
  <1> USE TestsInOrder
  <1>1. ASSUME NEW q \in Run, NEW i \in DOMAIN WaitOrder, i < awaits'[q]
        PROVE  Seen(WaitOrder[i], q)'
    <2>1. CASE i < awaits[q]
      <3>1. Seen(WaitOrder[i], q)
        BY <2>1 DEF StartedInv
      <3> QED BY <3>1, SeenStays
    <2>2. CASE ~(i < awaits[q])
      <3>1. PICK r \in Run : GateStarts(r) \/ GateSees(r)
        BY <1>1, <2>2 DEF Next, StartRun, Pipeline, SecretsPass, GateTimesOut, DeployStarts,
             DeployEnds, PostStarts, PostEnds, Api, ApiUploads, ApiRuns, ApiBreaks, ApiPollFails,
             ApiPollDone, ApiPollerFails, ApiVerdict, App, AppStarts, AppRequests, LogRotates, AppPollDone,
             AppFails, TimesOut, vars, pipeline
      <3>2. awaits[q] \in DOMAIN WaitOrder
        BY DEF TypeInv, TypeOK
      <3>3. r = q /\ GateSees(r) /\ i = awaits[q]
        <4>1. \/ awaits' = [awaits EXCEPT ![r] = 1]
              \/ GateSees(r) /\ awaits' = [awaits EXCEPT ![r] = @ + 1]
              \/ awaits' = awaits
          BY <3>1 DEF GateStarts, GateSees
        <4>2. awaits \in [Run -> DOMAIN WaitOrder]
          BY DEF TypeInv, TypeOK
        <4> QED BY <1>1, <2>2, <3>2, <4>1, <4>2
      <3>4. Seen(WaitOrder[i], q)
        BY <3>3 DEF GateSees, StartedInv, Seen
      <3> QED BY <3>4, SeenStays
    <2> QED BY <2>1, <2>2
  <1>2. ASSUME NEW q \in Run, gate'[q] = "passed", NEW u \in Test
        PROVE  Seen(u, q)'
    <2>1. CASE gate[q] = "passed"
      <3>1. Seen(u, q)
        BY <2>1 DEF StartedInv
      <3> QED BY <3>1, SeenStays
    <2>2. CASE gate[q] # "passed"
      <3>1. PICK r \in Run : Pipeline(r) /\ gate' # gate
        BY <1>2, <2>2 DEF Next, StartRun, Api, ApiUploads, ApiRuns, ApiBreaks, ApiPollFails,
             ApiPollDone, ApiPollerFails, ApiVerdict, App, AppStarts, AppRequests, LogRotates, AppPollDone,
             AppFails, TimesOut, vars, pipeline
      <3>2. r = q /\ GateSees(r) /\ awaits[q] = Len(WaitOrder)
        BY <1>2, <2>2, <3>1 DEF Pipeline, SecretsPass, GateStarts, GateSees, GateTimesOut, DeployStarts,
             DeployEnds, PostStarts, PostEnds, TypeInv, TypeOK
      <3>3. Seen(WaitOrder[awaits[q]], q)
        BY <3>2, awaits[q] \in DOMAIN WaitOrder DEF GateSees, StartedInv, Seen
      <3>4. PICK i \in DOMAIN WaitOrder : u = WaitOrder[i]
        BY DEF Test
      <3>5. i < awaits[q] \/ i = awaits[q]
        BY <3>2
      <3>6. Seen(u, q)
        BY <3>3, <3>4, <3>5 DEF StartedInv
      <3> QED BY <3>6, SeenStays
    <2> QED BY <2>1, <2>2
  <1>3. ASSUME NEW q \in Run, deploy'[q] # "none", NEW u \in Test
        PROVE  Seen(u, q)'
    <2>1. CASE deploy[q] # "none"
      <3>1. Seen(u, q)
        BY <2>1 DEF StartedInv, DeployWatched
      <3> QED BY <3>1, SeenStays
    <2>2. CASE deploy[q] = "none"
      <3>1. PICK r \in Run : Pipeline(r) /\ deploy' # deploy
        BY <1>3, <2>2 DEF Next, StartRun, Api, ApiUploads, ApiRuns, ApiBreaks, ApiPollFails,
             ApiPollDone, ApiPollerFails, ApiVerdict, App, AppStarts, AppRequests, LogRotates, AppPollDone,
             AppFails, TimesOut, vars, pipeline
      <3>2. r = q /\ gate[q] = "passed"
        BY <1>3, <2>2, <3>1 DEF Pipeline, SecretsPass, GateStarts, GateSees, GateTimesOut, DeployStarts,
             DeployEnds, PostStarts, PostEnds, TypeInv, TypeOK
      <3>3. Seen(u, q)
        BY <3>2 DEF StartedInv
      <3> QED BY <3>3, SeenStays
    <2> QED BY <2>1, <2>2
  <1> QED BY <1>1, <1>2, <1>3, SignalsAreReal DEF StartedInv, DeployWatched

\* No run is deployed before every one of its tests was started for that run.
THEOREM NoUnwatchedDeploy == Spec => []DeployWatched
  <1>1. Init => TypeInv /\ StartedInv
    <2> SUFFICES ASSUME Init PROVE TypeInv /\ StartedInv
      OBVIOUS
    <2>1. \A i \in DOMAIN WaitOrder, r \in Run : ~(i < awaits[r])
      BY TestsInOrder DEF Init
    <2> QED BY <2>1, TypeInit DEF Init, StartedInv, DeployWatched
  <1>2. TypeInv /\ StartedInv /\ [Next]_vars => TypeInv' /\ StartedInv'
    BY TypeStep, StartedStep
  <1>3. StartedInv => DeployWatched
    BY DEF StartedInv
  <1> QED BY <1>1, <1>2, <1>3, PTL DEF Spec

-------------------------------------------------------------------------------
(* A test that passed saw its run to the end.                               *)

\* post-cf-deploy runs after a deploy that worked, and a poller gives up when it
\* has no attempt left.
EndInv ==
    /\ \A r \in Run : post[r] # "none" => deploy[r] = "ok"
    /\ "api" \in Test => \A r \in Run :
          test["api"][r] \in {"gaveup", "doomed"} => attempts[r] = 0
    /\ PassedMeansDeployed

PipelineMoves == StartRun \/ \E r \in Run : Pipeline(r)

LEMMA PipelineEndStep == ASSUME TypeInv, EndInv, PipelineMoves PROVE EndInv'
  <1>1. UNCHANGED tests
    BY DEF PipelineMoves, StartRun, Pipeline, SecretsPass, GateStarts, GateSees, GateTimesOut, DeployStarts,
           DeployEnds, PostStarts, PostEnds
  <1>2. ASSUME NEW q \in Run, deploy[q] = "ok" PROVE deploy'[q] = "ok"
    BY <1>2 DEF PipelineMoves, StartRun, Pipeline, SecretsPass, GateStarts, GateSees, GateTimesOut,
           DeployStarts, DeployEnds, PostStarts, PostEnds, TypeInv, TypeOK
  <1>3. ASSUME NEW q \in Run, post[q] # "none" PROVE post'[q] # "none"
    BY <1>3 DEF PipelineMoves, StartRun, Pipeline, SecretsPass, GateStarts, GateSees, GateTimesOut,
           DeployStarts, DeployEnds, PostStarts, PostEnds, TypeInv, TypeOK
  <1>4. ASSUME NEW q \in Run, post'[q] # "none" PROVE post[q] # "none" \/ deploy[q] = "ok"
    BY <1>4 DEF PipelineMoves, StartRun, Pipeline, SecretsPass, GateStarts, GateSees, GateTimesOut,
           DeployStarts, DeployEnds, PostStarts, PostEnds, TypeInv, TypeOK
  <1> QED BY <1>1, <1>2, <1>3, <1>4 DEF EndInv, PassedMeansDeployed, tests

LEMMA TestEndStep ==
  ASSUME TypeInv, EndInv, NEW r \in Run,
         Api(r) \/ (\E t \in AppTest : App(t, r)) \/ (\E t \in Test : TimesOut(t, r))
  PROVE  EndInv'
  <1>1. UNCHANGED pipeline
    BY DEF Api, App, ApiUploads, ApiRuns, ApiBreaks, ApiPollFails, ApiPollDone, ApiPollerFails,
           ApiVerdict, AppStarts, AppRequests, LogRotates, AppPollDone, AppFails, TimesOut
  <1>2. Complete(r) => post[r] # "none" /\ deploy[r] = "ok"
    BY DEF Complete, EndInv
  <1>3. CASE ApiPollFails(r)
    <2>1. \A q \in Run : q # r => attempts'[q] = attempts[q]
      BY <1>3 DEF ApiPollFails, TypeInv, TypeOK
    <2>2. attempts'[r] = attempts[r] - 1 /\ attempts[r] >= 1
      BY <1>3 DEF ApiPollFails, TypeInv, TypeOK, AttemptsLeft
    <2>3. attempts[r] \in Nat
      BY WatchAssumption DEF TypeInv, TypeOK
    <2>4. CASE test' = test
      BY <1>1, <1>3, <2>1, <2>4 DEF ApiPollFails, EndInv, PassedMeansDeployed, pipeline
    <2>5. CASE attempts'[r] = 0 /\ Becomes("api", r, "gaveup")
      BY <1>1, <1>3, <2>1, <2>5
         DEF ApiPollFails, EndInv, PassedMeansDeployed, pipeline, Becomes, TypeInv, TypeOK
    <2> QED BY <1>3, <2>2, <2>3, <2>4, <2>5 DEF ApiPollFails
  <1>4. ASSUME UNCHANGED attempts, NEW t \in Test, NEW s, Becomes(t, r, s),
               s \in {"gaveup", "doomed"} => test[t][r] \in {"gaveup", "doomed"},
               s \in {"passed", "stopping"} =>
                  \/ Complete(r)
                  \/ test[t][r] = "stopping"
                  \/ t = "api" /\ test[t][r] \in {"gaveup", "doomed"}
        PROVE  EndInv'
    <2>1. \A u \in Test, q \in Run : (u # t \/ q # r) => test'[u][q] = test[u][q]
      BY <1>4 DEF Becomes, TypeInv, TypeOK
    <2>2. test'[t][r] = s
      BY <1>4 DEF Becomes, TypeInv, TypeOK
    <2>3. s \in {"passed", "stopping"} =>
             (deploy[r] = "ok" /\ post[r] # "none") \/ (t = "api" /\ attempts[r] = 0)
      BY <1>2, <1>4 DEF EndInv, PassedMeansDeployed
    <2> QED BY <1>1, <1>4, <2>1, <2>2, <2>3 DEF EndInv, PassedMeansDeployed, pipeline
  <1>5. CASE UNCHANGED <<test, attempts>>
    BY <1>1, <1>5 DEF EndInv, PassedMeansDeployed, pipeline
  <1>6. AppTest \subseteq Test
    BY DEF AppTest
  <1>10. CASE ApiUploads(r)
    <2>1. \A q \in Run : q # r => attempts'[q] = attempts[q]
      BY <1>10 DEF ApiUploads, TypeInv, TypeOK
    <2>2. test'["api"][r] = "uploaded"
      BY <1>10 DEF ApiUploads, Becomes, TypeInv, TypeOK
    <2>3. \A u \in Test, q \in Run : (u # "api" \/ q # r) => test'[u][q] = test[u][q]
      BY <1>10 DEF ApiUploads, Becomes, TypeInv, TypeOK
    <2> QED BY <1>1, <2>1, <2>2, <2>3 DEF EndInv, PassedMeansDeployed, pipeline
  <1>7. ASSUME Api(r), ~ApiPollFails(r), ~ApiUploads(r) PROVE EndInv'
    BY <1>4, <1>7 DEF Api, ApiRuns, ApiBreaks, ApiPollDone, ApiPollerFails, ApiVerdict
  <1>8. ASSUME NEW t \in AppTest, App(t, r) PROVE EndInv'
    BY <1>4, <1>5, <1>6, <1>8 DEF App, AppStarts, AppRequests, LogRotates, AppPollDone, AppFails
  <1>9. ASSUME NEW t \in Test, TimesOut(t, r) PROVE EndInv'
    BY <1>4, <1>9 DEF TimesOut
  <1> QED BY <1>3, <1>7, <1>8, <1>9, <1>10

\* A test that passed saw its run deployed and post-cf-deploy end, unless the api
\* test lost sight of Concourse.
THEOREM PassesMeanDeployed == Spec => []PassedMeansDeployed
  <1>1. Init => TypeInv /\ EndInv
    BY TypeInit DEF Init, EndInv, PassedMeansDeployed
  <1>2. ASSUME TypeInv, EndInv, [Next]_vars PROVE EndInv'
    <2>1. CASE UNCHANGED vars
      BY <1>2, <2>1 DEF EndInv, PassedMeansDeployed, vars, pipeline, tests
    <2> QED BY <1>2, <2>1, PipelineEndStep, TestEndStep DEF Next, PipelineMoves
  <1>3. TypeInv /\ EndInv /\ [Next]_vars => TypeInv' /\ EndInv'
    BY <1>2, TypeStep
  <1>4. EndInv => PassedMeansDeployed
    BY DEF EndInv
  <1> QED BY <1>1, <1>3, <1>4, PTL DEF Spec

-------------------------------------------------------------------------------
(* BbsTolerance: for any number of workers and any tolerance, a decrement   *)
(* that is lost is one failure more that is tolerated, never one less.      *)

\* The workers that have counted a failure and not judged it yet.
Judging == {w \in Worker : at[w] # "task"}

\* A worker takes up a failure, goes on with it, and is done with it.
LEMMA JudgingMoves ==
  ASSUME at \in [Worker -> {"task", "read", "wrote"}],
         NEW w \in Worker, NEW s \in {"task", "read", "wrote"}, at' = [at EXCEPT ![w] = s]
  PROVE  /\ Cardinality(Judging) \in Nat
         /\ at[w] = "task" /\ s # "task" => Cardinality(Judging') = Cardinality(Judging) + 1
         /\ at[w] # "task" /\ s # "task" => Cardinality(Judging') = Cardinality(Judging)
         /\ at[w] # "task" /\ s = "task" => Cardinality(Judging') = Cardinality(Judging) - 1
  <1>1. IsFiniteSet(Judging) /\ Cardinality(Judging) \in Nat
    <2>1. Judging \in SUBSET Worker
      BY DEF Judging
    <2> QED BY <2>1, ToleranceAssumption, FS_Subset, FS_CardinalityType
  <1>2. CASE at[w] = "task" /\ s # "task"
    <2>1. Judging' = Judging \cup {w} /\ w \notin Judging
      BY <1>2 DEF Judging
    <2> QED BY <1>1, <1>2, <2>1, FS_AddElement
  <1>3. CASE at[w] # "task" /\ s # "task"
    <2>1. Judging' = Judging
      BY <1>3 DEF Judging
    <2> QED BY <1>1, <1>3, <2>1
  <1>4. CASE at[w] # "task" /\ s = "task"
    <2>1. Judging' = Judging \ {w} /\ w \in Judging
      BY <1>4 DEF Judging
    <2> QED BY <1>1, <1>4, <2>1, FS_RemoveElement
  <1> QED BY <1>1, <1>2, <1>3, <1>4

\* The type invariant, the set of judging workers named.
FailuresConserved ==
    /\ allowed_stats_failures \in Int
    /\ at \in [Worker -> {"task", "read", "wrote"}]
    /\ count \in [Worker -> Int]
    /\ failures \in Nat /\ reported \in Nat /\ tolerated \in Nat
    /\ failures = reported + tolerated + Cardinality(Judging)

\* It is the type invariant of BbsTolerance.
LEMMA ConservedIsType == FailuresConserved <=> ToleranceTypeOK
  <1>1. Judging = {w \in Worker : at[w] # "task"}
    BY DEF Judging
  <1>2. {failures, reported, tolerated} \subseteq Nat
          <=> failures \in Nat /\ reported \in Nat /\ tolerated \in Nat
    OBVIOUS
  <1> QED BY <1>1, <1>2 DEF FailuresConserved, ToleranceTypeOK

\* A failure is in the hands of one worker until it is judged, once.
LEMMA FailureStep ==
  ASSUME FailuresConserved, [ToleranceNext]_toleranceVars
  PROVE  FailuresConserved'
  <1> USE DEF FailuresConserved
  <1>1. ASSUME NEW w \in Worker, CallFails(w) PROVE FailuresConserved'
    <2>1. /\ at[w] = "task" /\ at' = [at EXCEPT ![w] = "read"]
          /\ failures' = failures + 1 /\ count' = [count EXCEPT ![w] = allowed_stats_failures]
          /\ UNCHANGED <<allowed_stats_failures, reported, tolerated>>
      BY <1>1 DEF CallFails
    <2>2. /\ Cardinality(Judging') = Cardinality(Judging) + 1 /\ Cardinality(Judging) \in Nat
      BY <2>1, JudgingMoves
    <2> QED BY <2>1, <2>2
  <1>2. ASSUME NEW w \in Worker, Decrement(w) PROVE FailuresConserved'
    <2>1. /\ at[w] = "read" /\ at' = [at EXCEPT ![w] = "wrote"]
          /\ allowed_stats_failures' = count[w] - 1 /\ count' = [count EXCEPT ![w] = @ - 1]
          /\ UNCHANGED <<failures, reported, tolerated>>
      BY <1>2 DEF Decrement
    <2>2. Cardinality(Judging') = Cardinality(Judging)
      BY <2>1, JudgingMoves
    <2> QED BY <2>1, <2>2
  <1>3. ASSUME NEW w \in Worker, Judge(w) PROVE FailuresConserved'
    <2>1. /\ at[w] = "wrote" /\ at' = [at EXCEPT ![w] = "task"]
          /\ \/ reported' = reported + 1 /\ tolerated' = tolerated
             \/ reported' = reported /\ tolerated' = tolerated + 1
          /\ UNCHANGED <<allowed_stats_failures, count, failures>>
      BY <1>3 DEF Judge
    <2>2. Cardinality(Judging') = Cardinality(Judging) - 1 /\ Cardinality(Judging) \in Nat
      BY <2>1, JudgingMoves
    <2> QED BY <2>1, <2>2
  <1>4. CASE UNCHANGED toleranceVars
    BY <1>4 DEF toleranceVars, Judging
  <1> QED BY <1>1, <1>2, <1>3, <1>4 DEF ToleranceNext

\* Whatever the race does to the counter, it loses no failure: each one is reported,
\* logged as tolerated, or still in the hands of one of the workers.
THEOREM FailuresAccounted == ToleranceSpec => []ToleranceTypeOK
  <1>1. ToleranceInit => FailuresConserved
    <2> SUFFICES ASSUME ToleranceInit PROVE FailuresConserved
      OBVIOUS
    <2>1. Judging = {}
      BY DEF ToleranceInit, Judging
    <2>2. Cardinality(Judging) = 0
      BY <2>1, FS_EmptySet
    <2> QED BY <2>2, ToleranceAssumption DEF ToleranceInit, FailuresConserved
  <1>2. FailuresConserved /\ [ToleranceNext]_toleranceVars => FailuresConserved'
    BY FailureStep
  <1> QED BY <1>1, <1>2, ConservedIsType, PTL DEF ToleranceSpec

\* No copy of the variable has been counted down by more than the failures so far;
\* a copy that was just read does not count its own failure yet.
Lenient ==
    /\ failures \in Nat /\ reported \in Nat
    /\ at \in [Worker -> {"task", "read", "wrote"}]
    /\ count \in [Worker -> Int]
    /\ allowed_stats_failures \in Int /\ allowed_stats_failures >= Allowed - failures
    /\ \A w \in Worker :
          /\ at[w] = "read" => count[w] >= Allowed - failures + 1
          /\ at[w] = "wrote" => count[w] >= Allowed - failures

\* The bound, with what it is for.
LenientInv == Lenient /\ ErrorsOnlyBeyondTolerance

\* A lost decrement leaves the variable too high, never too low.
LEMMA LenientStep ==
  ASSUME LenientInv, [ToleranceNext]_toleranceVars
  PROVE  LenientInv'
  <1> USE ToleranceAssumption DEF LenientInv, Lenient, ErrorsOnlyBeyondTolerance
  <1>1. ASSUME NEW w \in Worker, CallFails(w) PROVE LenientInv'
    <2>1. failures' = failures + 1
      BY <1>1 DEF CallFails
    <2>2. count' \in [Worker -> Int] /\ at' \in [Worker -> {"task", "read", "wrote"}]
      BY <1>1 DEF CallFails
    <2>3. \A v \in Worker : /\ at'[v] = "read" => count'[v] >= Allowed - failures' + 1
                            /\ at'[v] = "wrote" => count'[v] >= Allowed - failures'
      BY <1>1 DEF CallFails
    <2> QED BY <1>1, <2>1, <2>2, <2>3 DEF CallFails
  <1>2. ASSUME NEW w \in Worker, Decrement(w) PROVE LenientInv'
    BY <1>2 DEF Decrement
  <1>3. ASSUME NEW w \in Worker, Judge(w) PROVE LenientInv'
    <2>1. PICK left \in {count[w], allowed_stats_failures} :
             reported' = reported \/ (left <= 0 /\ reported' = reported + 1)
      BY <1>3 DEF Judge
    <2>2. left \in Int /\ left >= Allowed - failures
      BY <1>3 DEF Judge
    <2>3. reported' > 0 => failures >= Allowed
      BY <2>1, <2>2
    <2> QED BY <1>3, <2>1, <2>3 DEF Judge
  <1>4. CASE UNCHANGED toleranceVars
    BY <1>4 DEF toleranceVars
  <1> QED BY <1>1, <1>2, <1>3, <1>4 DEF ToleranceNext

\* The task reports no error before as many calls have failed as it may tolerate
\* (api_test.go:131-136), however the workers' decrements overlap.
THEOREM ErrorsAreEarned == ToleranceSpec => []ErrorsOnlyBeyondTolerance
  <1>1. ToleranceInit => LenientInv
    BY ToleranceAssumption DEF ToleranceInit, LenientInv, Lenient, ErrorsOnlyBeyondTolerance
  <1>2. LenientInv /\ [ToleranceNext]_toleranceVars => LenientInv'
    BY LenientStep
  <1>3. LenientInv => ErrorsOnlyBeyondTolerance
    BY DEF LenientInv
  <1> QED BY <1>1, <1>2, <1>3, PTL DEF ToleranceSpec

================================================================================
