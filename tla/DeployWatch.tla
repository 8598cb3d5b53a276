------------------------------ MODULE DeployWatch ------------------------------
(***************************************************************************)
(* How a pipeline run and the availability tests that watch it find each   *)
(* other.  The run's pre-deploy job waits until the tests have signalled   *)
(* that they started; the tests poll Concourse until post-cf-deploy is     *)
(* done.  A run is known by its version of the pipeline-trigger resource.  *)
(*                                                                         *)
(* Runs may overlap: locking is disabled in development, and the job       *)
(* pipeline-release-lock releases the lock of any run.                     *)
(***************************************************************************)
EXTENDS Integers, Sequences

CONSTANTS
    WaitOrder,    \* the tests pre-deploy waits for, in order
    maxConcourseConnectionFailures,
    PageLimit,    \* how many versions buildsWithVersion looks at
    Radix,        \* of the numeral of a version: 10
    MaxRuns       \* BOUND: runs of the pipeline

Run == 1..MaxRuns
Test == {WaitOrder[i] : i \in DOMAIN WaitOrder}
AppTest == Test \ {"api"}

ASSUME WatchAssumption ==
    /\ WaitOrder \in Seq(STRING) /\ WaitOrder # <<>>
    /\ maxConcourseConnectionFailures \in Nat \ {0}
    /\ PageLimit \in Nat \ {0}
    /\ Radix \in Nat \ {0, 1}
    /\ MaxRuns \in Nat

VARIABLES
    version,   \* the newest version of pipeline-trigger, 0 before the first run
    secrets,   \* the runs that have passed generate-secrets
    gate,      \* pre-deploy per run: "none", "waiting", "passed", "failed"
    awaits,    \* per run, the index in WaitOrder that pre-deploy has got to
    deploy,    \* the jobs up to cf-deploy: "none", "running", "ok", "failed"
    post,      \* the newest build of post-cf-deploy: "none" or its status
    test,      \* per test and run: "none", "uploaded", "running", "stopping",
               \* "gaveup", "doomed", "passed", "failed"
    signal,    \* <<test, run>> pairs that pre-deploy can see to have started
    attempts   \* concourseConnectionAttemptsRemaining of the run's newest api test

pipeline == <<version, secrets, gate, awaits, deploy, post>>
tests == <<test, signal, attempts>>
vars == <<pipeline, tests>>

Init ==
    /\ version = 0
    /\ secrets = {}
    /\ gate = [r \in Run |-> "none"]
    /\ awaits = [r \in Run |-> 1]
    /\ deploy = [r \in Run |-> "none"]
    /\ post = [r \in Run |-> "none"]
    /\ test = [t \in Test |-> [r \in Run |-> "none"]]
    /\ signal = {}
    /\ attempts = [r \in Run |-> maxConcourseConnectionFailures]

-------------------------------------------------------------------------------
(* The run: pipeline-lock bumps the version, generate-secrets passes it on  *)
(* to pre-deploy, which waits for the tests, and to the tests; the deploy   *)
(* and post-cf-deploy follow.                                               *)

\* pipeline-lock puts the new version.
StartRun ==
    /\ version < MaxRuns
    /\ version' = version + 1
    /\ UNCHANGED <<secrets, gate, awaits, deploy, post, tests>>

\* generate-secrets succeeds.  It is serial and a build gets the newest version: a
\* version may end after the next was made, or be passed over, never come later.
SecretsPass(r) ==
    /\ r <= version
    /\ \A q \in secrets : q < r
    /\ secrets' = secrets \union {r}
    /\ UNCHANGED <<version, gate, awaits, deploy, post, tests>>

\* pre-deploy is triggered, or started again after it failed.
GateStarts(r) ==
    /\ r \in secrets
    /\ gate[r] \in {"none", "failed"}
    /\ gate' = [gate EXCEPT ![r] = "waiting"]
    /\ awaits' = [awaits EXCEPT ![r] = 1]
    /\ UNCHANGED <<version, secrets, deploy, post, tests>>

\* Whether the wait for test t of run r takes the signal of run q for it.  The job
\* file of the api test is named after the run.  For an app test, grep looks for
\* "availability-test=0.0.r" in the app's log: it also finds the requests of a run
\* whose number begins with the digits of r.
Shows(t, q, r) ==
    IF t = "api" THEN q = r ELSE \E k \in 0..q : q \div (Radix ^ k) = r

\* Deviation: the signal does not tell of which run it is.
X_GateSees(r) ==
    /\ gate[r] = "waiting"
    /\ \E q \in Run : <<WaitOrder[awaits[r]], q>> \in signal
    /\ IF awaits[r] = Len(WaitOrder)
       THEN gate' = [gate EXCEPT ![r] = "passed"] /\ UNCHANGED awaits
       ELSE awaits' = [awaits EXCEPT ![r] = @ + 1] /\ UNCHANGED gate
    /\ UNCHANGED <<version, secrets, deploy, post, tests>>

\* One of the wait tasks sees what it takes for its test's signal.
GateSees(r) ==
    /\ gate[r] = "waiting"
    /\ \E q \in Run :
          /\ Shows(WaitOrder[awaits[r]], q, r)
          /\ <<WaitOrder[awaits[r]], q>> \in signal
    /\ IF awaits[r] = Len(WaitOrder)
       THEN gate' = [gate EXCEPT ![r] = "passed"] /\ UNCHANGED awaits
       ELSE awaits' = [awaits EXCEPT ![r] = @ + 1] /\ UNCHANGED gate
    /\ UNCHANGED <<version, secrets, deploy, post, tests>>

\* 24 looks, 5 seconds apart, and no signal in any of them.
GateTimesOut(r) ==
    /\ gate[r] = "waiting"
    /\ gate' = [gate EXCEPT ![r] = "failed"]
    /\ UNCHANGED <<version, secrets, awaits, deploy, post, tests>>

\* cf-deploy is serial.  A failed one may be started again.
DeployStarts(r) ==
    /\ gate[r] = "passed"
    /\ deploy[r] \in {"none", "failed"}
    /\ \A q \in Run : deploy[q] # "running"
    /\ deploy' = [deploy EXCEPT ![r] = "running"]
    /\ UNCHANGED <<version, secrets, gate, awaits, post, tests>>

DeployEnds(r) ==
    /\ deploy[r] = "running"
    /\ \E s \in {"ok", "failed"} : deploy' = [deploy EXCEPT ![r] = s]
    /\ UNCHANGED <<version, secrets, gate, awaits, post, tests>>

PostStarts(r) ==
    /\ deploy[r] = "ok"
    /\ post[r] \in {"none", "failed", "errored", "aborted"}
    /\ \A q \in Run : post[q] # "started"
    /\ post' = [post EXCEPT ![r] = "started"]
    /\ UNCHANGED <<version, secrets, gate, awaits, deploy, tests>>

PostEnds(r) ==
    /\ post[r] = "started"
    /\ \E s \in {"succeeded", "failed", "errored", "aborted"} :
          post' = [post EXCEPT ![r] = s]
    /\ UNCHANGED <<version, secrets, gate, awaits, deploy, tests>>

-------------------------------------------------------------------------------
(* Deployment.Complete, the question the tests put to Concourse.            *)

InPage(r) == r > version - PageLimit

\* Deviation: a run without a build of the job counts as complete.
X_Complete(r) == InPage(r) /\ post[r] \in {"none", "succeeded", "failed"}

\* Deviation: only a build that succeeded counts as complete.
Y_Complete(r) == InPage(r) /\ post[r] = "succeeded"

Complete(r) == InPage(r) /\ post[r] \in {"succeeded", "failed"}

-------------------------------------------------------------------------------
(* The jobs of the tests.  They are serial; Concourse gives a build the     *)
(* newest version there is, and a build that has ended can be run again by  *)
(* hand, for the newest version or with the inputs it had.                  *)

Active == {"uploaded", "running", "stopping", "gaveup", "doomed"}
Idle(t) == \A q \in Run : test[t][q] \notin Active

\* Deviation: the job is put behind pre-deploy, which waits for it.
X_Triggered(t, r) ==
    /\ r \in secrets /\ gate[r] = "passed"
    /\ test[t][r] = "none" /\ Idle(t)

\* The newest version to have passed generate-secrets, without a build so far.
Triggered(t, r) ==
    /\ r \in secrets /\ \A q \in secrets : q <= r
    /\ test[t][r] = "none" /\ Idle(t)

ByHand(t, r) == test[t][r] \in {"passed", "failed"} /\ Idle(t)

Starts(t, r) == Triggered(t, r) \/ ByHand(t, r)
Becomes(t, r, s) == test' = [test EXCEPT ![t][r] = s]

\* The job file goes when run-tests ends, whatever its result ("ensure"), but
\* its deletion may fail.
DeletesFile(r) == signal' \in {signal, signal \ {<<"api", r>>}}

\* The api test: upload-job-file, then run-tests.
ApiUploads(r) ==
    /\ "api" \in Test /\ Starts("api", r)
    /\ Becomes("api", r, "uploaded")
    /\ signal' = signal \union {<<"api", r>>}
    /\ attempts' = [attempts EXCEPT ![r] = maxConcourseConnectionFailures]
    /\ UNCHANGED pipeline

\* The suite has pushed its app, and runs the monitor and the polling goroutine.
ApiRuns(r) ==
    /\ "api" \in Test /\ test["api"][r] = "uploaded"
    /\ Becomes("api", r, "running")
    /\ UNCHANGED <<pipeline, signal, attempts>>

\* run-tests fails before that, or the build is lost before run-tests.
ApiBreaks(r) ==
    /\ "api" \in Test /\ test["api"][r] = "uploaded"
    /\ Becomes("api", r, "failed")
    /\ DeletesFile(r)
    /\ UNCHANGED <<pipeline, attempts>>

\* Deviation: gives up one failure too late.
X_ApiPollFails(r) ==
    /\ "api" \in Test /\ test["api"][r] = "running"
    /\ attempts' = [attempts EXCEPT ![r] = @ - 1]
    /\ IF attempts'[r] < 0 THEN Becomes("api", r, "gaveup") ELSE UNCHANGED test
    /\ UNCHANGED <<pipeline, signal>>

\* Complete returns an error.  The number of attempts is the whole test's: a good
\* poll does not restore it.  At 0 the goroutine stops the monitor, then it fails.
ApiPollFails(r) ==
    /\ "api" \in Test /\ test["api"][r] = "running"
    /\ attempts' = [attempts EXCEPT ![r] = @ - 1]
    /\ IF attempts'[r] <= 0 THEN Becomes("api", r, "gaveup") ELSE UNCHANGED test
    /\ UNCHANGED <<pipeline, signal>>

ApiPollDone(r) ==
    /\ "api" \in Test /\ test["api"][r] = "running"
    /\ Complete(r)
    /\ Becomes("api", r, "stopping")
    /\ UNCHANGED <<pipeline, signal, attempts>>

\* The expectation of the goroutine that gave up fails the spec, if it still runs.
ApiPollerFails(r) ==
    /\ "api" \in Test /\ test["api"][r] = "gaveup"
    /\ Becomes("api", r, "doomed")
    /\ UNCHANGED <<pipeline, signal, attempts>>

\* Run has returned its report and the spec judges it: the monitor was stopped.
ApiVerdict(r) ==
    /\ "api" \in Test /\ test["api"][r] \in {"stopping", "gaveup", "doomed"}
    /\ \E s \in IF test["api"][r] = "doomed" THEN {"failed"} ELSE {"passed", "failed"} :
          Becomes("api", r, s)
    /\ DeletesFile(r)
    /\ UNCHANGED <<pipeline, attempts>>

\* The app tests: their requests carry the version, and show in the app's log.
AppStarts(t, r) ==
    /\ Starts(t, r)
    /\ Becomes(t, r, "running")
    /\ UNCHANGED <<pipeline, signal, attempts>>

AppRequests(t, r) ==
    /\ test[t][r] = "running"
    /\ signal' = signal \union {<<t, r>>}
    /\ UNCHANGED <<pipeline, test, attempts>>

\* "cf logs --recent" no longer has the requests.
LogRotates(t, r) ==
    /\ <<t, r>> \in signal
    /\ signal' = signal \ {<<t, r>>}
    /\ UNCHANGED <<pipeline, test, attempts>>

\* The deployment is complete: the success rate decides.
AppPollDone(t, r) ==
    /\ test[t][r] = "running"
    /\ Complete(r)
    /\ \E s \in {"passed", "failed"} : Becomes(t, r, s)
    /\ UNCHANGED <<pipeline, signal, attempts>>

\* Complete returns an error, or more than half of the requests have failed.
AppFails(t, r) ==
    /\ test[t][r] = "running"
    /\ Becomes(t, r, "failed")
    /\ UNCHANGED <<pipeline, signal, attempts>>

\* ginkgo -timeout=12h
TimesOut(t, r) ==
    /\ test[t][r] = "running"
    /\ Becomes(t, r, "failed")
    /\ IF t = "api" THEN DeletesFile(r) ELSE UNCHANGED signal
    /\ UNCHANGED <<pipeline, attempts>>

-------------------------------------------------------------------------------
Pipeline(r) ==
    \/ SecretsPass(r) \/ GateStarts(r) \/ GateSees(r) \/ GateTimesOut(r)
    \/ DeployStarts(r) \/ DeployEnds(r) \/ PostStarts(r) \/ PostEnds(r)

Api(r) ==
    \/ ApiUploads(r) \/ ApiRuns(r) \/ ApiBreaks(r) \/ ApiPollFails(r) \/ ApiPollDone(r)
    \/ ApiPollerFails(r) \/ ApiVerdict(r)

App(t, r) ==
    \/ AppStarts(t, r) \/ AppRequests(t, r) \/ LogRotates(t, r)
    \/ AppPollDone(t, r) \/ AppFails(t, r)

Next ==
    \/ StartRun
    \/ \E r \in Run :
          \/ Pipeline(r) \/ Api(r)
          \/ \E t \in AppTest : App(t, r)
          \/ \E t \in Test : TimesOut(t, r)

Spec == Init /\ [][Next]_vars

\* A poll whose answer is certain: the deployment is complete, or its version is
\* no longer among those that are looked at.
ApiPollCertain(r) == ApiPollDone(r) \/ (~InPage(r) /\ ApiPollFails(r))
AppPollCertain(t, r) == AppPollDone(t, r) \/ (~InPage(r) /\ AppFails(t, r))

\* The tests poll for as long as they run, and Run returns after Stop (property
\* RunReturns of Monitor).  Neither the pipeline nor the 12 hours are relied on.
FairSpec ==
    /\ Spec
    /\ \A r \in Run :
          /\ WF_vars(ApiPollCertain(r)) /\ WF_vars(ApiVerdict(r)) /\ WF_vars(ApiRuns(r))
          /\ \A t \in AppTest : WF_vars(AppPollCertain(t, r))

\* Some test is run again by hand.
StartsAgain ==
    \E t \in Test, r \in Run : test[t][r] \in {"passed", "failed"} /\ test'[t][r] \in Active

\* What NewestRunIsTested assumes additionally: 12 hours pass, Concourse starts a build
\* that can start, and the tests are not run again by hand for ever.
Patience ==
    /\ <>[][~StartsAgain]_vars
    /\ \A r \in Run :
          /\ WF_vars(ApiUploads(r))
          /\ \A t \in AppTest : WF_vars(AppStarts(t, r))
          /\ \A t \in Test : WF_vars(TimesOut(t, r))

-------------------------------------------------------------------------------
(* Properties.                                                              *)

\* The types of the variables, with the range of the attempts.
TypeOK ==
    /\ version \in 0..MaxRuns
    /\ secrets \in SUBSET (1..version)
    /\ gate \in [Run -> {"none", "waiting", "passed", "failed"}]
    /\ awaits \in [Run -> DOMAIN WaitOrder]
    /\ deploy \in [Run -> {"none", "running", "ok", "failed"}]
    /\ post \in [Run -> {"none", "started", "succeeded", "failed", "errored", "aborted"}]
    /\ test \in [Test -> [Run -> {"none", "passed", "failed"} \union Active]]
    /\ signal \in SUBSET (Test \X Run)
    /\ attempts \in [Run -> 0..maxConcourseConnectionFailures]

\* What pre-deploy waits for has been started: for the api test that run's own, for
\* an app test one that the log shows for that run's.
Seen(t, r) == \E q \in Run : Shows(t, q, r) /\ test[t][q] # "none"

\* No deploy of a run begins before each of the tests it waits for was seen to have
\* been started, whatever other runs, reruns and left-over signals there are.
DeployWatched == \A r \in Run : deploy[r] # "none" => \A t \in Test : Seen(t, r)

\* A test that passed was there until the end: the deploy of its run had worked
\* and post-cf-deploy had ended, unless the api test lost sight of Concourse.
PassedMeansDeployed ==
    \A t \in Test, r \in Run :
        test[t][r] \in {"passed", "stopping"} =>
            \/ deploy[r] = "ok" /\ post[r] # "none"
            \/ t = "api" /\ attempts[r] = 0

\* The goroutine that lost sight of Concourse expects its error not to have
\* occurred (api_test.go:162), so such a test does not pass.
LostContactFails ==
    "api" \in Test => \A r \in Run : test["api"][r] = "passed" => attempts[r] > 0

\* Once post-cf-deploy has ended for good with a result, every test that watches
\* the run ends too, however often it is run again, also when newer runs have pushed
\* its version off the page.
EndsWithDeploy ==
    \A t \in Test, r \in Run :
        <>[](post[r] \in {"succeeded", "failed"}) => []<>(test[t][r] \notin Active)

\* The newest run gets its tests, although those of an older run, whose deploy never
\* got to post-cf-deploy, hold on to the serial jobs until they lose sight of their
\* version or 12 hours are over; pre-deploy and its tests do not wait for each other.
NewestRunIsTested ==
    Patience => \A t \in Test, r \in Run :
                    <>[](r \in secrets /\ version = r) => <>(test[t][r] # "none")
================================================================================
