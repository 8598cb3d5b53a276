--------------------------- MODULE DevEnvironment ---------------------------
(***************************************************************************)
(* Putting a development environment to sleep and waking it up             *)
(* (concourse/scripts/fast-startup-and-shutdown-cf-env.sh, run by the jobs *)
(* fast-startup-cf-env and fast-shutdown-cf-env), and disabling an         *)
(* availability zone (the jobs disable-az-* and enable-az-* of             *)
(* create-cloudfoundry.yml).  What they share is BOSH's resurrector, which *)
(* makes every VM again that it cannot reach.                              *)
(*                                                                         *)
(* The two jobs are serial, each for itself: they may overlap.  Any call   *)
(* may fail, and any build may be aborted between two calls; what it has   *)
(* done until then stays.                                                  *)
(***************************************************************************)
EXTENDS Naturals, Sequences, FiniteSets

CONSTANTS Vm,      \* EC2 instances of the environment (not BOSH's, not Concourse's)
          Db,      \* RDS instances, its own and its broker's
          Zone,    \* availability zones
          ZoneOf   \* the zone of each VM

ASSUME EnvironmentAssumption ==
  /\ IsFiniteSet(Vm) /\ IsFiniteSet(Db) /\ Vm \cap Db = {}
  /\ ZoneOf \in [Vm -> Zone]
  /\ "none" \notin Zone

VARIABLES
  instance,     \* state of every VM and database, as AWS describes it
  resurrector,  \* whether BOSH's resurrector is on
  job,          \* the build of each of the two jobs
  disabled,     \* the zones whose subnets a network ACL cuts off
  zoneJob,      \* the zone that a disable-az job is about to cut off
  overlapped,   \* history: the two jobs have overlapped
  unguarded     \* history: a build could not reach BOSH, or woke the
                \* environment while a zone was, or was being, disabled

vars == <<instance, resurrector, job, disabled, zoneJob, overlapped, unguarded>>

Action == {"start", "stop"}
Kind == {"ec2", "rds"}
Of(k) == IF k = "ec2" THEN Vm ELSE Db
Instance == Vm \cup Db

Up(k) == IF k = "ec2" THEN "running" ELSE "available"

\* initial_*_state and target_*_state of the script.
InitialState(a, k) == IF a = "stop" THEN Up(k) ELSE "stopped"
TargetState(a, k) == IF a = "stop" THEN "stopped" ELSE Up(k)

\* What AWS calls an instance on its way ("pending" for an EC2 instance).
Moving(a) == IF a = "stop" THEN "stopping" ELSE "starting"

\* The steps of main, after the state has been validated.
X_Plan(a) ==   \* Deviation: the resurrector goes on while VMs still start
  IF a = "start" THEN <<"rds", "resurrector", "ec2", "health">>
                 ELSE <<"resurrector", "ec2", "rds">>

Y_Plan(a) ==   \* Deviation: databases are stopped, and not started again
  IF a = "start" THEN <<"ec2", "resurrector", "health">>
                 ELSE <<"resurrector", "ec2", "rds">>

Plan(a) == IF a = "start" THEN <<"rds", "ec2", "resurrector", "health">>
                          ELSE <<"resurrector", "ec2", "rds">>

Ended(a) == Len(Plan(a)) + 1

\* A build at its n-th step, before it has listed anything.
Fresh(n, skip) == [at |-> n, phase |-> "list", ids |-> {}, left |-> {}, known |-> {},
                   skip_bosh |-> skip]

Init ==
  /\ instance = [i \in Instance |-> IF i \in Vm THEN "running" ELSE "available"]
  /\ resurrector = TRUE
  /\ job = [a \in Action |-> Fresh(0, "no")]
  /\ disabled = {}
  /\ zoneJob = "none"
  /\ overlapped = FALSE
  /\ unguarded = FALSE

Active(a) == job[a].at \in 1..Len(Plan(a))
At(a, step) == Active(a) /\ Plan(a)[job[a].at] = step

-----------------------------------------------------------------------------
(* A build of fast-startup-cf-env ("start") or fast-shutdown-cf-env ("stop") *)

\* main up to validate_initial_state: a build goes on only if no VM is on its
\* way to another state (databases are not looked at).  If BOSH does not
\* answer, all BOSH operations are skipped.
Begins(a) ==
  /\ ~Active(a)
  /\ \A v \in Vm : instance[v] \notin {"stopping", "starting"}
  /\ \E skip \in {"yes", "no"} :
       /\ job' = [job EXCEPT ![a] = Fresh(1, skip)]
       /\ unguarded' = (unguarded \/ skip = "yes"
                        \/ (a = "start" /\ (disabled # {} \/ zoneJob # "none")))
  /\ overlapped' = (overlapped \/ \E b \in Action \ {a} : Active(b))
  /\ UNCHANGED <<instance, resurrector, disabled, zoneJob>>

\* The build goes on to its next step, or has ended well.
NextStep(a) ==
  job' = IF job[a].at = Len(Plan(a)) THEN [job EXCEPT ![a] = Fresh(Ended(a), "no")]
         ELSE [job EXCEPT ![a].at = @ + 1, ![a].phase = "list", ![a].ids = {}]

\* A failed call ends the script, and an operator may abort a build.
Fail(a) == job' = [job EXCEPT ![a] = Fresh(0, "no")]

\* The instances in the initial state are what the rest of the step is about;
\* others are left alone.  If there is none, they are "already" as wanted: the
\* wait for none is over at once.  known is history: the instances that were
\* in one of the two states, and have not been made again since.
Lists(a, k) ==
  /\ At(a, k) /\ job[a].phase = "list"
  /\ LET in(s) == {i \in Of(k) : instance[i] = s}
         ids == in(InitialState(a, k))
     IN  job' = [job EXCEPT ![a].phase = IF ids = {} THEN "wait" ELSE "call",
                            ![a].ids = ids,
                            ![a].left = ids,
                            ![a].known = @ \cup ids \cup in(TargetState(a, k))]
  /\ UNCHANGED <<instance, resurrector, disabled, zoneJob, overlapped, unguarded>>

\* One call for some of the listed instances: AWS refuses it, and the script
\* ends, if one of them is gone or on its way elsewhere meanwhile.
Call(a, k, some) ==
  LET from == InitialState(a, k)
      ok == \A i \in some : /\ instance[i] \in {from, TargetState(a, k)}
                            /\ i \in job[a].known
      rest == job[a].left \ some
  IN  IF ok
      THEN /\ instance' = [i \in Instance |->
                             IF i \in some /\ instance[i] = from THEN Moving(a) ELSE instance[i]]
           /\ job' = [job EXCEPT ![a].left = rest,
                                 ![a].phase = IF rest = {} THEN "wait" ELSE "call"]
      ELSE Fail(a) /\ UNCHANGED instance

\* aws ec2 start-instances or stop-instances, for all of them at once.
CallsEc2(a) ==
  /\ At(a, "ec2") /\ job[a].phase = "call"
  /\ Call(a, "ec2", job[a].left)
  /\ UNCHANGED <<resurrector, disabled, zoneJob, overlapped, unguarded>>

\* aws rds start-db-instance or stop-db-instance, for one after the other.
CallsRds(a) ==
  /\ At(a, "rds") /\ job[a].phase = "call"
  /\ \E d \in job[a].left : Call(a, "rds", {d})
  /\ UNCHANGED <<resurrector, disabled, zoneJob, overlapped, unguarded>>

\* The wait ends when as many of the listed instances are in the target state
\* as were listed.
X_Waits(a, k) ==   \* Deviation: one is enough
  /\ At(a, k) /\ job[a].phase = "wait"
  /\ \E i \in job[a].ids : instance[i] = TargetState(a, k) /\ i \in job[a].known
  /\ NextStep(a)
  /\ UNCHANGED <<instance, resurrector, disabled, zoneJob, overlapped, unguarded>>

Y_Waits(a, k) ==   \* Deviation: waits for all instances, not for those it asked for
  /\ At(a, k) /\ job[a].phase = "wait"
  /\ \A i \in Of(k) : instance[i] = TargetState(a, k)
  /\ NextStep(a)
  /\ UNCHANGED <<instance, resurrector, disabled, zoneJob, overlapped, unguarded>>

Waits(a, k) ==
  /\ At(a, k) /\ job[a].phase = "wait"
  /\ LET there == {i \in job[a].ids \cap job[a].known : instance[i] = TargetState(a, k)}
     IN  Cardinality(there) >= Cardinality(job[a].ids)
  /\ NextStep(a)
  /\ UNCHANGED <<instance, resurrector, disabled, zoneJob, overlapped, unguarded>>

\* Some time after an instance was terminated AWS no longer knows its id, and
\* a query by id fails.  A query for a deleted database just finds nothing.
Forgotten(a) ==
  /\ At(a, "ec2") /\ job[a].phase = "wait"
  /\ ~(job[a].ids \subseteq job[a].known)
  /\ Fail(a)
  /\ UNCHANGED <<instance, resurrector, disabled, zoneJob, overlapped, unguarded>>

\* toggle_bosh_resurrector
Toggles(a) ==
  /\ At(a, "resurrector")
  /\ resurrector' = IF job[a].skip_bosh = "yes" THEN resurrector ELSE a = "start"
  /\ NextStep(a)
  /\ UNCHANGED <<instance, disabled, zoneJob, overlapped, unguarded>>

\* run_health_checks: the API has answered in one of 200 attempts.
HealthCheck(a) ==
  /\ At(a, "health")
  /\ NextStep(a)
  /\ UNCHANGED <<instance, resurrector, disabled, zoneJob, overlapped, unguarded>>

Fails(a) ==
  /\ Active(a)
  /\ Fail(a)
  /\ UNCHANGED <<instance, resurrector, disabled, zoneJob, overlapped, unguarded>>

-----------------------------------------------------------------------------
(* The availability zones *)

\* disable-az-*: the resurrector goes off in a task of its own ...
DisableResurrector(z) ==
  /\ zoneJob = "none" /\ z \notin disabled
  /\ zoneJob' = z
  /\ resurrector' = FALSE
  /\ unguarded' = (unguarded \/ Active("start"))
  /\ UNCHANGED <<instance, job, disabled, overlapped>>

\* ... and then Terraform makes the ACL, or the job ends without it.
DisableZone ==
  /\ zoneJob # "none"
  /\ \/ disabled' = disabled \cup {zoneJob}
     \/ UNCHANGED disabled
  /\ zoneJob' = "none"
  /\ UNCHANGED <<instance, resurrector, job, overlapped, unguarded>>

\* enable-az-*: terraform destroy.  The resurrector stays as it is.
EnableZone(z) ==
  /\ zoneJob = "none" /\ z \in disabled
  /\ disabled' = disabled \ {z}
  /\ UNCHANGED <<instance, resurrector, job, zoneJob, overlapped, unguarded>>

-----------------------------------------------------------------------------
(* AWS and BOSH, as far as the script relies on them *)

Settles(i) ==
  /\ instance[i] \in {"starting", "stopping"}
  /\ instance' = [instance EXCEPT ![i] =
                    IF @ = "stopping" THEN "stopped"
                    ELSE IF i \in Vm THEN "running" ELSE "available"]
  /\ UNCHANGED <<resurrector, job, disabled, zoneJob, overlapped, unguarded>>

\* A backup, an upgrade or a change: neither available nor stopped.
Maintained(d) ==
  /\ \/ instance[d] = "available" /\ instance' = [instance EXCEPT ![d] = "busy"]
     \/ instance[d] = "busy" /\ instance' = [instance EXCEPT ![d] = "available"]
  /\ UNCHANGED <<resurrector, job, disabled, zoneJob, overlapped, unguarded>>

\* A tenant deletes a service: its database is gone.
Deleted(d) ==
  /\ instance[d] \in {"available", "stopped", "busy"}
  /\ instance' = [instance EXCEPT ![d] = "gone"]
  /\ UNCHANGED <<resurrector, job, disabled, zoneJob, overlapped, unguarded>>

\* A deploy or the resurrector makes the VM again, as another instance.
Replaced(v) ==
  /\ instance[v] \in {"running", "stopped"}
  /\ instance' = [instance EXCEPT ![v] = "starting"]
  /\ job' = [a \in Action |-> [job[a] EXCEPT !.known = @ \ {v}]]
  /\ UNCHANGED <<resurrector, disabled, zoneJob, overlapped, unguarded>>

-----------------------------------------------------------------------------
Step(a) ==
  \/ \E k \in Kind : Lists(a, k) \/ Waits(a, k)
  \/ CallsEc2(a) \/ CallsRds(a) \/ Forgotten(a) \/ Toggles(a) \/ HealthCheck(a)

Next ==
  \/ \E a \in Action : Begins(a) \/ Step(a) \/ Fails(a)
  \/ \E z \in Zone : DisableResurrector(z) \/ EnableZone(z)
  \/ DisableZone
  \/ \E i \in Instance : Settles(i)
  \/ \E d \in Db : Maintained(d) \/ Deleted(d)
  \/ \E v \in Vm : Replaced(v)

Spec == Init /\ [][Next]_vars

\* AWS does what it was asked, there is time and again a moment without any
\* maintenance, and a build that runs takes its next step.  A loop polls again
\* and again, so it sees a state that recurs.
Fairness ==
  /\ \A i \in Instance : WF_vars(Settles(i))
  /\ []<>(\A d \in Db : instance[d] # "busy")
  /\ \A a \in Action : WF_vars(Step(a)) /\ SF_vars(\E k \in Kind : Waits(a, k))

FairSpec == Spec /\ Fairness

-----------------------------------------------------------------------------
(* Properties *)

Build == [at : 0..5, phase : {"list", "call", "wait"}, ids : SUBSET Instance,
          left : SUBSET Instance, known : SUBSET Instance, skip_bosh : {"yes", "no"}]

\* Types, and that a build asks for no change of an instance it did not list.
TypeOK ==
  /\ instance \in [Instance -> {"starting", "running", "available", "busy",
                                "stopping", "stopped", "gone"}]
  /\ \A v \in Vm : instance[v] \in {"starting", "running", "stopping", "stopped"}
  /\ \A d \in Db : instance[d] # "running"
  /\ resurrector \in BOOLEAN
  /\ job \in [Action -> Build]
  /\ \A a \in Action : job[a].left \subseteq job[a].ids
  /\ disabled \subseteq Zone
  /\ zoneJob \in Zone \cup {"none"}
  /\ overlapped \in BOOLEAN
  /\ unguarded \in BOOLEAN

\* BOSH cannot reach a VM that is stopped, or cut off from the others.
Unresponsive(v) == instance[v] \in {"stopping", "stopped"} \/ ZoneOf[v] \in disabled

\* Whatever failed or was aborted before: while the resurrector is on, there
\* is nothing that it would make again, in a sleeping environment or in a
\* disabled zone.  The script turns it off before the first VM stops and on
\* after the last one has started; disable-az turns it off before the ACL.
NothingToResurrect ==
  ~overlapped /\ ~unguarded => (resurrector => \A v \in Vm : ~Unresponsive(v))

Finishes(a) == Active(a) /\ job'[a].at = Ended(a)

AsAnnounced(a, k) == {TargetState(a, k), "gone"} \cup (IF a = "start" THEN {"busy"} ELSE {})

\* A build that ends well has put every instance to the state it announces
\* ("env is now asleep", "awake"), whatever earlier builds left behind, except
\* for instances that were between states when it listed them, or that were
\* made again, deleted or maintained since.
EndsAsAnnounced ==
  [][\A a \in Action : Finishes(a) /\ ~overlapped =>
       \A k \in Kind : \A i \in Of(k) \cap job[a].known :
          instance[i] \in AsAnnounced(a, k)]_vars

\* A build does not wait for ever, unless the other job has interfered or a
\* database was deleted: the loops have no limit.
BuildsEnd ==
  \A a \in Action :
    Active(a) ~> (~Active(a) \/ overlapped \/ \E d \in Db : instance[d] = "gone")

\* Whatever state sleeping builds and failed ones have left: if the
\* environment is woken again and again, successfully, and no longer put to
\* sleep, nothing stays stopped, if builds did not overlap.
WakingWakes ==
  (/\ []~overlapped
   /\ <>[](~Active("stop"))
   /\ []<><<Finishes("start")>>_vars)
  => <>[](\A i \in Instance : instance[i] \notin {"stopped", "stopping"})
=============================================================================
