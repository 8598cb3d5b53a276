------------------------------ MODULE PipelineRuns ------------------------------
(***************************************************************************)
(* Runs of the create-cloudfoundry pipeline.  The job pipeline-lock claims *)
(* a lock and makes a version of pipeline-trigger, the run; Concourse      *)
(* takes the run from job to job along their "passed" constraints, up to   *)
(* pipeline-unlock.  The lock does not know who claimed it: whoever comes  *)
(* to release it does.  Other jobs, off that way, are started by timers or *)
(* by hand at any time, lock or no lock.                                   *)
(*                                                                         *)
(* The jobs and their constraints are parameters.                          *)
(***************************************************************************)
EXTENDS Integers, FiniteSets

CONSTANTS
    Job,      \* the jobs that follow pipeline-lock
    Aside,    \* jobs that get no pipeline-trigger, and are started whenever somebody likes
    Passed,   \* per job, the jobs whose runs it takes
    Before,   \* per job, all jobs before it in the graph
    Excludes, \* per job, the jobs that it does not build beside: "serial" and its groups
    Writes,   \* per job, the resources that it puts and others get
    Reads,    \* per job, the resources that it gets the newest version of
    ClaimMayFail, \* whether claiming the lock may fail
    HandRelease,  \* whether the lock may be released by hand in the middle of a run
    HandStarts,   \* whether a job may be started by hand again that has succeeded
    MaxRuns   \* BOUND: runs of the pipeline

Resource == UNION {Writes[j] : j \in Job}
Gating == Before["pipeline-unlock"] \union {"pipeline-unlock"}

\* Of what was put after getting something older than the newest.
Overtaken == -1

ASSUME GraphAssumption ==
    /\ MaxRuns \in Nat
    /\ IsFiniteSet(Job) /\ "pipeline-unlock" \in Job
    /\ Passed \in [Job -> SUBSET Job] /\ Before \in [Job -> SUBSET Job]
    /\ \A j \in Job : Before[j] = Passed[j] \union UNION {Before[k] : k \in Passed[j]}
    /\ \A j \in Job : j \notin Before[j] /\ \A k \in Before[j] : Before[k] \subseteq Before[j]

\* What others get is put on the way to pipeline-unlock, and some of it off the graph.
ASSUME ResourceAssumption ==
    /\ \A j \in Job \ Gating : Writes[j] = {}
    /\ \A a \in Aside : Writes[a] \subseteq Resource

\* A job on the way to pipeline-unlock shares serial groups with others on it and with
\* jobs off the graph, but with no job of a run that is not on that way.
ASSUME GroupAssumption == \A j \in Gating : Excludes[j] \intersect Job \subseteq Gating

VARIABLES
    locking,   \* pipeline-lock: "idle", "claiming" the lock, "updating" the pipeline
    lock,      \* the lock in the pool: "unclaimed", "claimed"
    version,   \* the newest run, 0 before the first
    building,  \* <<job, run>> of the builds under way
    aside,     \* <<job, got>> of those off the graph, with what they got of what they put
    done,      \* per job, the runs it succeeded for
    latest     \* per resource, the run whose putting its newest version contains

vars == <<locking, lock, version, building, aside, done, latest>>
Run == 1 .. MaxRuns

\* A run goes on until pipeline-unlock has succeeded for it.
InProgress == version > 0 /\ version \notin done["pipeline-unlock"]

Init ==
    /\ locking = "idle" /\ lock = "unclaimed"
    /\ version = 0
    /\ building = {} /\ aside = {}
    /\ done = [j \in Job |-> {}]
    /\ latest = [res \in Resource |-> 0]

-------------------------------------------------------------------------------
(* pipeline-lock, which is serial: claim the lock, update the pipeline,     *)
(* make the run.                                                            *)

LockStarts ==
    /\ locking = "idle" /\ version < MaxRuns
    /\ locking' = "claiming"
    /\ UNCHANGED <<lock, version, building, aside, done, latest>>

\* Deviation: the claim does not wait for the lock.
X_Claim ==
    /\ locking = "claiming"
    /\ lock' = "claimed"
    /\ locking' = "updating"
    /\ UNCHANGED <<version, building, aside, done, latest>>

\* The "try" that lets the task fail whose failure claims the lock, lets the claim
\* fail too: the job then goes on without having waited.
Claim ==
    /\ locking = "claiming"
    /\ lock = "unclaimed" \/ ClaimMayFail
    /\ lock' \in {"claimed"} \union (IF ClaimMayFail THEN {lock} ELSE {})
    /\ locking' = "updating"
    /\ UNCHANGED <<version, building, aside, done, latest>>

Bump ==
    /\ locking = "updating"
    /\ version' = version + 1
    /\ locking' = "idle"
    /\ UNCHANGED <<lock, building, aside, done, latest>>

\* The job fails or is aborted.  The lock, if it was claimed, remains so.
LockFails ==
    /\ locking # "idle"
    /\ locking' = "idle"
    /\ UNCHANGED <<lock, version, building, aside, done, latest>>

\* pipeline-release-lock, by hand: meant for a lock that nobody is going to release.
ReleaseByHand ==
    /\ lock = "claimed"
    /\ HandRelease \/ (~InProgress /\ locking # "updating")
    /\ lock' = "unclaimed"
    /\ UNCHANGED <<locking, version, building, aside, done, latest>>

-------------------------------------------------------------------------------
(* The other jobs.                                                          *)

\* The runs that meet the constraints of a job.
Candidates(j) == {r \in 1 .. version : \A k \in Passed[j] : r \in done[k]}

\* Concourse takes the newest run that meets the constraints, once.  By hand, a job
\* can be started again for any run that it could be built for.
Ready(j, r) ==
    /\ r \in Candidates(j) /\ <<j, r>> \notin building
    /\ HandStarts \/ (r \notin done[j] /\ \A q \in Candidates(j) : q <= r)

Excluded(j, builds) == \E b \in builds : b[1] \in Excludes[j]

\* Concourse starts a build, or somebody starts one that failed again.
Starts(j, r) ==
    /\ Ready(j, r) /\ ~Excluded(j, building \union aside)
    /\ building' = building \union {<<j, r>>}
    /\ UNCHANGED <<locking, lock, version, aside, done, latest>>

\* A build of run r puts some resources; those that it does not put stay.  Whoever
\* got one of them before, and puts it after, has not seen this.
Puts(r, some) ==
    /\ latest' = [res \in Resource |-> IF res \in some THEN r ELSE latest[res]]
    /\ aside' = {<<b[1], [res \in DOMAIN b[2] |->
                             IF res \in some THEN Overtaken ELSE b[2][res]]>> : b \in aside}

\* Deviation: the job puts nothing.
Y_Succeeds(j, r) ==
    /\ <<j, r>> \in building
    /\ building' = building \ {<<j, r>>}
    /\ done' = [done EXCEPT ![j] = @ \union {r}]
    /\ IF j = "pipeline-unlock" THEN lock' \in {"unclaimed", lock} ELSE UNCHANGED lock
    /\ UNCHANGED <<locking, version, aside, latest>>

\* The release of the lock may fail: it is under a "try".
Succeeds(j, r) ==
    /\ <<j, r>> \in building
    /\ building' = building \ {<<j, r>>}
    /\ done' = [done EXCEPT ![j] = @ \union {r}]
    /\ Puts(r, Writes[j])
    /\ IF j = "pipeline-unlock" THEN lock' \in {"unclaimed", lock} ELSE UNCHANGED lock
    /\ UNCHANGED <<locking, version>>

\* Some of what the job puts may have been put by then ("ensure").
Fails(j, r) ==
    /\ <<j, r>> \in building
    /\ building' = building \ {<<j, r>>}
    /\ \E some \in SUBSET Writes[j] : Puts(r, some)
    /\ UNCHANGED <<locking, lock, version, done>>

-------------------------------------------------------------------------------
(* The jobs off the graph.                                                  *)

\* What such a job puts is what it got, changed a little; or nothing of a run's.
Gets(a) == [res \in Writes[a] |-> IF res \in Reads[a] THEN latest[res] ELSE Overtaken]

AsideStarts(a) ==
    /\ ~Excluded(a, building \union aside)
    /\ aside' = aside \union {<<a, Gets(a)>>}
    /\ UNCHANGED <<locking, lock, version, building, done, latest>>

\* It may end badly, and put nothing or, by "ensure", still put what it has.
AsideEnds(b) ==
    /\ aside' = aside \ {b}
    /\ \E some \in SUBSET Writes[b[1]] :
          latest' = [res \in Resource |-> IF res \in some THEN b[2][res] ELSE latest[res]]
    /\ UNCHANGED <<locking, lock, version, building, done>>

-------------------------------------------------------------------------------
Next ==
    \/ LockStarts \/ Claim \/ Bump \/ LockFails \/ ReleaseByHand
    \/ \E j \in Job, r \in Run : Starts(j, r) \/ Succeeds(j, r) \/ Fails(j, r)
    \/ \E a \in Aside : AsideStarts(a)
    \/ \E b \in aside : AsideEnds(b)

Spec == Init /\ [][Next]_vars

-------------------------------------------------------------------------------
(* Properties.                                                              *)

\* The lock works as it is meant to: claims do not fail unnoticed, and nobody
\* releases the lock of a run that goes on, or starts again what has succeeded.
Orderly == ~ClaimMayFail /\ ~HandRelease /\ ~HandStarts

\* The types of the variables.
TypeOK ==
    /\ locking \in {"idle", "claiming", "updating"}
    /\ lock \in {"unclaimed", "claimed"}
    /\ version \in Nat
    /\ building \subseteq Job \X Nat
    /\ done \in [Job -> SUBSET Nat]
    /\ \A b \in aside : b \in {b[1]} \X [Writes[b[1]] -> Nat \union {Overtaken}] /\ b[1] \in Aside
    /\ latest \in [Resource -> Nat \union {Overtaken}]

\* Whatever is being built on the way from pipeline-lock to pipeline-unlock is for one
\* run, which holds the lock, although the lock names no owner, jobs are started
\* again, and a pipeline-lock that failed leaves a lock without a run.
OneRunAtATime ==
    Orderly => \A b \in building :
        b[1] \in Gating => b[2] = version /\ lock = "claimed" /\ locking # "updating"

\* What a job gets without a "passed" constraint, the newest version, contains what its
\* own run has put, if a job before it puts such a thing: post-cf-deploy and the tests
\* look at the manifest that was deployed.  Only a job off the graph that got something
\* older can have put that over it since (expire-aws-keys, rotate-cloudfoundry-credentials).
OwnInputs ==
    [][Orderly => \A b \in building' \ building :
          b[1] \in Gating => \A res \in Reads[b[1]] :
              (\E k \in Before[b[1]] : res \in Writes[k]) => latest[res] \in {b[2], Overtaken}]_vars

\* A run can always go on: the constraints and the serial groups leave no job waiting
\* for one that waits for it, whatever has failed.  If anything holds up the run, then a
\* build off the graph, and those wait for nothing.
CanGoOn ==
    InProgress => \E j \in Gating :
        <<j, version>> \in building \/ (Ready(j, version) /\ ~Excluded(j, building))
================================================================================
