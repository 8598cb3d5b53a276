------------------------- MODULE DevEnvironmentProofs -------------------------
(***************************************************************************)
(* Proofs about DevEnvironment, for any sets of VMs, databases and zones.  *)
(***************************************************************************)
EXTENDS DevEnvironment, FiniteSetTheorems, TLAPS

USE DEF Action, Kind

\* The plans, step by step.
LEMMA PlanFacts ==
  /\ Len(Plan("start")) = 4 /\ Len(Plan("stop")) = 3
  /\ Plan("start")[1] = "rds" /\ Plan("start")[2] = "ec2"
  /\ Plan("start")[3] = "resurrector" /\ Plan("start")[4] = "health"
  /\ Plan("stop")[1] = "resurrector" /\ Plan("stop")[2] = "ec2" /\ Plan("stop")[3] = "rds"
BY DEF Plan

LEMMA PlanBound == \A a \in Action : Len(Plan(a)) \in 3..4
BY PlanFacts

LEMMA KindParts == \A k \in Kind : Of(k) \subseteq Instance
BY DEF Of, Instance

LEMMA FreshType ==
  \A n \in 0..5 : \A skip \in {"yes", "no"} :
    /\ Fresh(n, skip) \in Build
    /\ Fresh(n, skip).at = n /\ Fresh(n, skip).phase = "list"
    /\ Fresh(n, skip).ids = {} /\ Fresh(n, skip).left = {} /\ Fresh(n, skip).known = {}
    /\ Fresh(n, skip).skip_bosh = skip
BY DEF Fresh, Build

\* A build lists instances in the steps about instances only, and has none
\* listed between two steps.
Shape ==
  \A a \in Action :
    /\ job[a].phase = "list" => job[a].ids = {}
    /\ job[a].phase # "call" => job[a].left = {}
    /\ job[a].phase # "list" => \E k \in Kind : At(a, k) /\ job[a].ids \subseteq Of(k)

TypeInv == TypeOK /\ Shape

LEMMA InitType == Init => TypeInv
<1> SUFFICES ASSUME Init PROVE TypeInv
  OBVIOUS
<1>1. job \in [Action -> Build] /\ \A a \in Action : job[a] = Fresh(0, "no")
  BY FreshType DEF Init
<1>2. Shape /\ \A a \in Action : job[a].left \subseteq job[a].ids
  BY <1>1, FreshType DEF Shape
<1>3. /\ instance \in [Instance -> {"running", "available"}]
      /\ \A v \in Vm : instance[v] = "running"
      /\ \A d \in Db : instance[d] = "available"
  BY EnvironmentAssumption DEF Init, Instance
<1> QED
  BY <1>1, <1>2, <1>3 DEF Init, TypeInv, TypeOK

\* The parts of the types that are about builds, and about instances.
BuildOK(j) == j \in [Action -> Build] /\ \A a \in Action : j[a].left \subseteq j[a].ids

InstanceOK(f) ==
  /\ f \in [Instance -> {"starting", "running", "available", "busy",
                         "stopping", "stopped", "gone"}]
  /\ \A v \in Vm : f[v] \in {"starting", "running", "stopping", "stopped"}
  /\ \A d \in Db : f[d] # "running"

LEMMA BuildReplaced ==
  ASSUME TypeInv, NEW a \in Action, NEW n \in 0..5, NEW skip \in {"yes", "no"},
         job' = [job EXCEPT ![a] = Fresh(n, skip)]
  PROVE  BuildOK(job') /\ Shape'
BY FreshType DEF TypeInv, TypeOK, BuildOK, Shape, At, Active

LEMMA FailType ==
  ASSUME TypeInv, NEW a \in Action, Fail(a)
  PROVE  BuildOK(job') /\ Shape'
<1>1. 0 \in 0..5 /\ "no" \in {"yes", "no"} /\ job' = [job EXCEPT ![a] = Fresh(0, "no")]
  BY DEF Fail
<1> QED
  BY <1>1, BuildReplaced, Zenon

LEMMA NextStepType ==
  ASSUME TypeInv, NEW a \in Action, Active(a), NextStep(a), job[a].phase # "call"
  PROVE  BuildOK(job') /\ Shape'
<1>1. PICK n \in 3..4 : n = Len(Plan(a)) /\ job[a].at \in 1..n
  BY PlanBound DEF Active
<1>2. CASE job[a].at = Len(Plan(a))
  <2>1. Ended(a) \in 0..5
    <3>1. Ended(a) = n + 1
      BY <1>1 DEF Ended
    <3> QED
      BY <3>1
  <2>2. job' = [job EXCEPT ![a] = Fresh(Ended(a), "no")]
    BY <1>2 DEF NextStep, TypeInv, TypeOK, Build
  <2> QED
    BY <2>1, <2>2, BuildReplaced
<1>3. CASE job[a].at # Len(Plan(a))
  <2>1. job[a].at + 1 \in 0..5
    BY <1>1, <1>3
  <2>2. job' = [job EXCEPT ![a].at = @ + 1, ![a].phase = "list", ![a].ids = {}]
    BY <1>3 DEF NextStep, TypeInv, TypeOK, Build
  <2>3. /\ job \in [Action -> Build] /\ \A b \in Action : job[b].left \subseteq job[b].ids
        /\ job[a].left = {}
    BY DEF TypeInv, TypeOK, Shape
  <2>4. /\ job' \in [Action -> Build] /\ job'[a].left = {}
        /\ \A b \in Action \ {a} : job'[b] = job[b]
    BY <2>1, <2>2, <2>3 DEF Build
  <2>5. BuildOK(job')
    BY <2>3, <2>4 DEF BuildOK
  <2>6. Shape'
    BY <2>1, <2>2 DEF TypeInv, TypeOK, Build, Shape, At, Active
  <2> QED
    BY <2>5, <2>6
<1> QED
  BY <1>2, <1>3

LEMMA NextType == TypeInv /\ [Next]_vars => TypeInv'
<1> SUFFICES ASSUME TypeInv, [Next]_vars PROVE TypeInv'
  OBVIOUS
<1> DEFINE Rest == /\ disabled' \subseteq Zone /\ zoneJob' \in Zone \cup {"none"}
                   /\ resurrector' \in BOOLEAN
                   /\ overlapped' \in BOOLEAN /\ unguarded' \in BOOLEAN
<1>0. BuildOK(job') /\ Shape' /\ InstanceOK(instance') /\ Rest => TypeInv'
  BY DEF TypeInv, TypeOK, BuildOK, InstanceOK
<1>a. BuildOK(job) /\ Shape /\ InstanceOK(instance)
  BY DEF TypeInv, TypeOK, BuildOK, InstanceOK
<1>b. UNCHANGED job => BuildOK(job') /\ Shape'
  BY <1>a DEF BuildOK, Shape, At, Active
<1>c. UNCHANGED instance => InstanceOK(instance')
  BY <1>a DEF InstanceOK
<1>d. UNCHANGED <<resurrector, disabled, zoneJob, overlapped, unguarded>> => Rest
  BY DEF TypeInv, TypeOK
<1>1. ASSUME NEW a \in Action, Begins(a) PROVE TypeInv'
  <2>1. PICK skip \in {"yes", "no"} : job' = [job EXCEPT ![a] = Fresh(1, skip)]
    BY <1>1 DEF Begins
  <2>a. 1 \in 0..5 /\ BuildOK(job') /\ Shape'
    <3>1. 1 \in 0..5
      OBVIOUS
    <3> QED
      BY <2>1, <3>1, BuildReplaced, Zenon
  <2>2. Rest
    BY <1>1 DEF Begins, TypeInv, TypeOK
  <2> QED
    BY <1>1, <1>0, <1>c, <2>a, <2>2 DEF Begins
<1>2. ASSUME NEW a \in Action, NEW k \in Kind, Lists(a, k) PROVE TypeInv'
  <2>0. PICK ids \in SUBSET Of(k), t \in SUBSET Of(k), ph \in {"wait", "call"} :
           /\ job' = [job EXCEPT ![a].phase = ph, ![a].ids = ids, ![a].left = ids,
                                 ![a].known = @ \cup ids \cup t]
           /\ ph = "wait" => ids = {}
           /\ At(a, k)
    BY <1>2 DEF Lists
  <2>a. ids \in SUBSET Instance /\ job[a].known \cup ids \cup t \in SUBSET Instance
    BY <2>0, <1>a, KindParts DEF BuildOK, Build
  <2>b. /\ \A x \in Action \ {a} : job'[x] = job[x]
        /\ job'[a] = [at |-> job[a].at, phase |-> ph, ids |-> ids, left |-> ids,
                      known |-> job[a].known \cup ids \cup t, skip_bosh |-> job[a].skip_bosh]
        /\ job' = [x \in Action |-> job'[x]]
    BY <2>0, <1>a DEF BuildOK, Build
  <2>c. job[a].at \in 0..5 /\ job[a].skip_bosh \in {"yes", "no"}
    BY <1>a DEF BuildOK, Build
  <2>d. job'[a] \in Build /\ job'[a].left \subseteq job'[a].ids
    BY <2>a, <2>b, <2>c DEF Build
  <2>1. BuildOK(job')
    <3>1. \A x \in Action : job'[x] \in Build /\ job'[x].left \subseteq job'[x].ids
      BY <2>b, <2>d, <1>a DEF BuildOK
    <3> QED
      BY <2>b, <3>1 DEF BuildOK
  <2>2. Shape'
    <3>1. /\ job'[a].phase = ph /\ job'[a].ids = ids /\ job'[a].left = ids
          /\ job'[a].at = job[a].at
      BY <2>b
    <3>2. At(a, k)'
      BY <2>0, <3>1 DEF At, Active
    <3>3. \A x \in Action \ {a} : \A j \in Kind : At(x, j)' <=> At(x, j)
      BY <2>b DEF At, Active
    <3>4. /\ job'[a].phase = "list" => job'[a].ids = {}
          /\ job'[a].phase # "call" => job'[a].left = {}
          /\ \E j \in Kind : At(a, j)' /\ job'[a].ids \subseteq Of(j)
      BY <2>0, <3>1, <3>2
    <3>5. ASSUME NEW x \in Action \ {a}
          PROVE  /\ job'[x].phase = "list" => job'[x].ids = {}
                 /\ job'[x].phase # "call" => job'[x].left = {}
                 /\ job'[x].phase # "list" =>
                      \E j \in Kind : At(x, j)' /\ job'[x].ids \subseteq Of(j)
      BY <2>b, <3>3, <1>a DEF Shape
    <3> QED
      BY <3>4, <3>5 DEF Shape
  <2> QED
    BY <1>2, <1>0, <1>c, <1>d, <2>1, <2>2 DEF Lists
<1>3. ASSUME NEW a \in Action, NEW k \in Kind, Waits(a, k) PROVE TypeInv'
  BY <1>3, <1>0, <1>c, <1>d, NextStepType DEF Waits, At
<1>4. ASSUME NEW a \in Action, NEW k \in Kind, NEW some \in SUBSET job[a].left,
             At(a, k), job[a].phase = "call", Call(a, k, some),
             UNCHANGED <<resurrector, disabled, zoneJob, overlapped, unguarded>>
      PROVE  TypeInv'
  <2>1. CASE Fail(a) /\ UNCHANGED instance
    BY <2>1, <1>0, <1>c, <1>d, <1>4, FailType
  <2>2. CASE /\ instance' = [i \in Instance |->
                    IF i \in some /\ instance[i] = InitialState(a, k) THEN Moving(a) ELSE instance[i]]
             /\ job' = [job EXCEPT ![a].left = job[a].left \ some,
                                   ![a].phase = IF job[a].left \ some = {} THEN "wait" ELSE "call"]
    <3>1. BuildOK(job')
      BY <2>2, <1>a DEF BuildOK, Build
    <3>2. Shape'
      BY <2>2, <1>a DEF BuildOK, Build, Shape, At, Active
    <3>3. InstanceOK(instance')
      BY <2>2, <1>a, EnvironmentAssumption DEF InstanceOK, Moving, Instance
    <3> QED
      BY <1>0, <1>d, <1>4, <3>1, <3>2, <3>3
  <2> QED
    BY <1>4, <2>1, <2>2 DEF Call
<1>5. ASSUME NEW a \in Action, CallsEc2(a) PROVE TypeInv'
  BY <1>5, <1>4 DEF CallsEc2
<1>6. ASSUME NEW a \in Action, CallsRds(a) PROVE TypeInv'
  BY <1>6, <1>4 DEF CallsRds
<1>7. ASSUME NEW a \in Action, Forgotten(a) \/ Fails(a) PROVE TypeInv'
  BY <1>7, <1>0, <1>c, <1>d, FailType DEF Forgotten, Fails
<1>8. ASSUME NEW a \in Action, Toggles(a) \/ HealthCheck(a) PROVE TypeInv'
  <2>1. Active(a) /\ job[a].phase # "call" /\ NextStep(a) /\ UNCHANGED instance
    BY <1>8, <1>a DEF Toggles, HealthCheck, Shape, At
  <2>2. Rest
    BY <1>8 DEF Toggles, HealthCheck, TypeInv, TypeOK
  <2> QED
    BY <2>1, <2>2, <1>0, <1>c, NextStepType
<1>9. ASSUME \/ \E z \in Zone : DisableResurrector(z) \/ EnableZone(z)
             \/ DisableZone
      PROVE TypeInv'
  BY <1>9, <1>0, <1>b, <1>c DEF DisableResurrector, EnableZone, DisableZone, TypeInv, TypeOK
<1>10. ASSUME \/ \E i \in Instance : Settles(i)
              \/ \E d \in Db : Maintained(d) \/ Deleted(d)
       PROVE TypeInv'
  BY <1>10, <1>0, <1>a, <1>b, <1>d, EnvironmentAssumption
     DEF Settles, Maintained, Deleted, InstanceOK, Instance
<1>11. ASSUME NEW v \in Vm, Replaced(v) PROVE TypeInv'
  <2>1. BuildOK(job') /\ Shape'
    BY <1>11, <1>a DEF Replaced, BuildOK, Build, Shape, At, Active
  <2>2. InstanceOK(instance')
    BY <1>11, <1>a, EnvironmentAssumption DEF Replaced, InstanceOK, Instance
  <2> QED
    BY <2>1, <2>2, <1>0, <1>d, <1>11 DEF Replaced
<1>12. CASE UNCHANGED vars
  BY <1>12, <1>0, <1>b, <1>c, <1>d DEF vars
<1> QED
  BY <1>1, <1>2, <1>3, <1>5, <1>6, <1>7, <1>8, <1>9, <1>10, <1>11, <1>12 DEF Next, Step

\* Types, and that a build asks for changes of instances it has listed only.
THEOREM TypeCorrect == Spec => []TypeOK
<1>1. Spec => []TypeInv
  BY InitType, NextType, PTL DEF Spec
<1> QED
  BY <1>1, PTL DEF TypeInv

-------------------------------------------------------------------------------
(* What a step does to a build. *)

Others(a) == \A x \in Action \ {a} : job'[x] = job[x]

LEMMA AfterBegins ==
  ASSUME TypeInv, NEW a \in Action, Begins(a)
  PROVE  /\ Others(a) /\ job'[a].at = 1 /\ job'[a].known = {} /\ job'[a].ids = {}
         /\ job'[a].phase = "list"
         /\ job'[a].skip_bosh = "no" \/ unguarded'
<1>1. PICK skip \in {"yes", "no"} : /\ job' = [job EXCEPT ![a] = Fresh(1, skip)]
                                    /\ skip = "yes" => unguarded'
  BY DEF Begins
<1>2. job'[a] = Fresh(1, skip) /\ Others(a)
  BY <1>1 DEF Others, TypeInv, TypeOK
<1> QED
  BY <1>1, <1>2 DEF Fresh

LEMMA AfterFail ==
  ASSUME TypeInv, NEW a \in Action, Fail(a)
  PROVE  Others(a) /\ job'[a].at = 0
<1>1. job'[a] = Fresh(0, "no") /\ Others(a)
  BY DEF Fail, Others, TypeInv, TypeOK
<1> QED
  BY <1>1 DEF Fresh

LEMMA AfterNextStep ==
  ASSUME TypeInv, NEW a \in Action, Active(a), NextStep(a)
  PROVE  /\ Others(a) /\ job'[a].ids = {} /\ job'[a].phase = "list"
         /\ job'[a].at = job[a].at + 1
         /\ Active(a)' => /\ job'[a].known = job[a].known
                          /\ job'[a].skip_bosh = job[a].skip_bosh
<1>1. CASE job[a].at = Len(Plan(a))
  <2>1. job'[a] = Fresh(Ended(a), "no") /\ Others(a)
    BY <1>1 DEF NextStep, Others, TypeInv, TypeOK
  <2>2. job'[a].at = Len(Plan(a)) + 1 /\ job'[a].ids = {} /\ job'[a].phase = "list"
    BY <2>1 DEF Fresh, Ended
  <2>3. PICK n \in 3..4 : n = Len(Plan(a))
    BY PlanBound
  <2>4. ~ Active(a)'
    BY <2>2, <2>3 DEF Active
  <2> QED
    BY <1>1, <2>1, <2>2, <2>4
<1>2. CASE job[a].at # Len(Plan(a))
  BY <1>2 DEF NextStep, Others, TypeInv, TypeOK, Build
<1> QED
  BY <1>1, <1>2

LEMMA AfterLists ==
  ASSUME TypeInv, NEW a \in Action, NEW k \in Kind, Lists(a, k)
  PROVE  /\ Others(a) /\ job'[a].at = job[a].at /\ job'[a].skip_bosh = job[a].skip_bosh
         /\ job'[a].phase # "list"
         /\ job'[a].ids = {i \in Of(k) : instance[i] = InitialState(a, k)}
         /\ job'[a].known = job[a].known \cup job'[a].ids
                               \cup {i \in Of(k) : instance[i] = TargetState(a, k)}
BY DEF Lists, Others, TypeInv, TypeOK, Build

LEMMA AfterCall ==
  ASSUME TypeInv, NEW a \in Action, NEW k \in Kind, NEW some \in SUBSET job[a].left,
         job[a].phase = "call", Call(a, k, some)
  PROVE  \/ Fail(a) /\ UNCHANGED instance
         \/ /\ Others(a) /\ job'[a].at = job[a].at /\ job'[a].skip_bosh = job[a].skip_bosh
            /\ job'[a].ids = job[a].ids /\ job'[a].known = job[a].known
            /\ job'[a].phase # "list"
            /\ instance' = [i \in Instance |->
                 IF i \in some /\ instance[i] = InitialState(a, k) THEN Moving(a) ELSE instance[i]]
BY DEF Call, Others, TypeInv, TypeOK, Build

\* When the wait is over every instance that was asked for has got there.
LEMMA AfterWaits ==
  ASSUME TypeInv, NEW a \in Action, NEW k \in Kind, Waits(a, k)
  PROVE  \A i \in job[a].ids : instance[i] = TargetState(a, k) /\ i \in job[a].known
<1> DEFINE there == {i \in job[a].ids \cap job[a].known : instance[i] = TargetState(a, k)}
<1>1. IsFiniteSet(job[a].ids)
  <2>1. IsFiniteSet(Instance)
    BY EnvironmentAssumption, FS_Union DEF Instance
  <2>2. job[a].ids \subseteq Instance
    BY DEF TypeInv, TypeOK, Build
  <2> QED
    BY <2>1, <2>2, FS_Subset
<1>2. there \subseteq job[a].ids /\ Cardinality(there) >= Cardinality(job[a].ids)
  BY DEF Waits
<1>3. there = job[a].ids
  BY <1>1, <1>2, FS_Subset, FS_CardinalityType
<1> QED
  BY <1>3

-------------------------------------------------------------------------------
(* The resurrector, and what a build has done of what it announces. *)

Apart == ~overlapped => ~(Active("start") /\ Active("stop"))

\* BOSH was told whatever a build had to tell it, and no zone was in the way.
Told ==
  ~unguarded =>
    /\ \A a \in Action : Active(a) => job[a].skip_bosh = "no"
    /\ Active("start") \/ resurrector => disabled = {} /\ zoneJob = "none"

Awake(v) == instance[v] \in {"running", "starting"}

\* A shutdown has turned the resurrector off before it stops a VM ...
Quiet ==
  ~overlapped /\ ~unguarded =>
    /\ Active("stop") /\ job["stop"].at >= 2 => ~resurrector
    /\ resurrector => \A v \in Vm : Awake(v)

\* ... and a startup, once it has listed the VMs that are stopped, knows that
\* all others are awake: it would not have begun while one was stopping.
Waking ==
  ~overlapped /\ Active("start") =>
    /\ \A v \in Vm : instance[v] # "stopping"
    /\ (job["start"].at = 2 /\ job["start"].phase # "list") \/ job["start"].at >= 3
         => \A v \in Vm \ job["start"].ids : Awake(v)

\* What a build has found is as it should be, or is being waited for.
Kept ==
  ~overlapped =>
    \A a \in Action : Active(a) =>
      \A k \in Kind : \A i \in Of(k) \cap job[a].known :
        i \in job[a].ids \/ instance[i] \in AsAnnounced(a, k)

IInv == TypeInv /\ Apart /\ Told /\ Quiet /\ Waking /\ Kept

LEMMA ActiveFacts ==
  /\ Active("start") <=> job["start"].at \in 1..4
  /\ Active("stop") <=> job["stop"].at \in 1..3
BY PlanFacts DEF Active

LEMMA ActiveFactsNext ==
  /\ Active("start")' <=> job'["start"].at \in 1..4
  /\ Active("stop")' <=> job'["stop"].at \in 1..3
BY PlanFacts DEF Active

LEMMA AtFacts ==
  /\ At("start", "rds") => job["start"].at = 1
  /\ At("start", "ec2") => job["start"].at = 2
  /\ At("start", "resurrector") => job["start"].at = 3
  /\ At("start", "health") => job["start"].at = 4
  /\ At("stop", "resurrector") => job["stop"].at = 1
  /\ At("stop", "ec2") => job["stop"].at = 2
  /\ At("stop", "rds") => job["stop"].at = 3
  /\ ~At("stop", "health")
<1>1. job["start"].at \in 1..4 <=> job["start"].at \in {1, 2, 3, 4}
  OBVIOUS
<1>2. job["stop"].at \in 1..3 <=> job["stop"].at \in {1, 2, 3}
  OBVIOUS
<1> QED
  BY <1>1, <1>2, ActiveFacts, PlanFacts DEF At

LEMMA InitInv == Init => IInv
<1> SUFFICES ASSUME Init PROVE IInv
  OBVIOUS
<1>1. TypeInv
  BY InitType
<1>2. \A a \in Action : ~Active(a)
  BY ActiveFacts, FreshType DEF Init
<1>3. \A v \in Vm : Awake(v)
  BY DEF Init, Instance, Awake
<1> QED
  BY <1>1, <1>2, <1>3 DEF Init, IInv, Apart, Told, Quiet, Waking, Kept

LEMMA BeginsInv == ASSUME IInv, TypeInv', NEW a \in Action, Begins(a) PROVE IInv'
<1> USE DEF IInv
<1>1. /\ Others(a) /\ job'[a].at = 1 /\ job'[a].known = {} /\ job'[a].phase = "list"
      /\ job'[a].skip_bosh = "no" \/ unguarded'
  BY AfterBegins
<1>2. /\ ~Active(a) /\ \A v \in Vm : instance[v] \notin {"stopping", "starting"}
      /\ UNCHANGED <<instance, resurrector, disabled, zoneJob>>
      /\ unguarded => unguarded'
      /\ a = "start" /\ (disabled # {} \/ zoneJob # "none") => unguarded'
      /\ overlapped => overlapped'
      /\ \A b \in Action \ {a} : Active(b) => overlapped'
  BY DEF Begins
<1>3. \A b \in Action \ {a} : Active(b)' <=> Active(b)
  BY <1>1 DEF Others, Active
<1>4. ~overlapped' => \A b \in Action \ {a} : ~Active(b)'
  BY <1>2, <1>3
<1>5. Apart'
  BY <1>4 DEF Apart
<1>6. Told'
  BY <1>1, <1>2, <1>3 DEF Told, Others
<1>7. Quiet'
  BY <1>1, <1>2, <1>4 DEF Quiet, Awake
<1>8. Waking'
  BY <1>1, <1>2, <1>4 DEF Waking, Awake
<1>9. Kept'
  BY <1>1, <1>2, <1>4 DEF Kept
<1> QED
  BY <1>5, <1>6, <1>7, <1>8, <1>9

LEMMA FailInv ==
  ASSUME IInv, TypeInv', NEW a \in Action, Fail(a),
         UNCHANGED <<instance, resurrector, disabled, zoneJob, overlapped, unguarded>>
  PROVE  IInv'
<1> USE DEF IInv
<1>1. Others(a) /\ job'[a].at = 0
  BY AfterFail
<1>2. ~Active(a)' /\ \A b \in Action \ {a} : job'[b] = job[b] /\ (Active(b)' <=> Active(b))
  BY <1>1, ActiveFactsNext DEF Others, Active
<1>5. Apart'
  BY <1>2 DEF Apart
<1>6. Told'
  BY <1>2 DEF Told
<1>7. Quiet'
  BY <1>2 DEF Quiet, Awake
<1>8. Waking'
  BY <1>2 DEF Waking, Awake
<1>9. Kept'
  BY <1>2 DEF Kept, AsAnnounced
<1> QED
  BY <1>5, <1>6, <1>7, <1>8, <1>9

LEMMA ListsInv ==
  ASSUME IInv, TypeInv', NEW a \in Action, NEW k \in Kind, Lists(a, k) PROVE IInv'
<1> USE DEF IInv
<1>1. /\ Others(a) /\ job'[a].at = job[a].at /\ job'[a].skip_bosh = job[a].skip_bosh
      /\ job'[a].ids = {i \in Of(k) : instance[i] = InitialState(a, k)}
      /\ job'[a].known = job[a].known \cup job'[a].ids
                            \cup {i \in Of(k) : instance[i] = TargetState(a, k)}
  BY AfterLists
<1>2. /\ At(a, k) /\ Active(a) /\ job[a].phase = "list"
      /\ UNCHANGED <<instance, resurrector, disabled, zoneJob, overlapped, unguarded>>
  BY DEF Lists, At
<1>3. /\ \A b \in Action : Active(b)' <=> Active(b)
      /\ \A b \in Action \ {a} : job'[b] = job[b]
  BY <1>1 DEF Others, Active
<1>4. job[a].ids = {}
  BY <1>2 DEF TypeInv, Shape
<1>5. Apart'
  BY <1>2, <1>3 DEF Apart
<1>6. Told'
  BY <1>1, <1>2, <1>3 DEF Told
<1>7. Quiet'
  <2>1. job'["stop"].at = job["stop"].at
    BY <1>1, <1>3
  <2> QED
    BY <2>1, <1>2, <1>3 DEF Quiet, Awake
<1>8. Waking'
  <2>1. CASE a = "stop"
    BY <2>1, <1>2, <1>3 DEF Waking, Awake
  <2>2. CASE a = "start" /\ k = "ec2"
    <3>1. job'["start"].ids = {v \in Vm : instance[v] = "stopped"}
      BY <2>2, <1>1 DEF Of, InitialState
    <3>2. \A v \in Vm : instance[v] \in {"starting", "running", "stopping", "stopped"}
      BY DEF TypeInv, TypeOK
    <3> QED
      BY <2>2, <3>1, <3>2, <1>2, <1>3 DEF Waking, Awake
  <2>3. CASE a = "start" /\ k = "rds"
    <3>1. job'["start"].at = 1
      BY <2>3, <1>1, <1>2, AtFacts
    <3> QED
      BY <3>1, <1>2, <1>3 DEF Waking
  <2> QED
    BY <2>1, <2>2, <2>3
<1>9. Kept'
  <2> SUFFICES ASSUME ~overlapped, NEW b \in Action, Active(b), NEW j \in Kind,
                      NEW i \in Of(j), i \in job'[b].known
               PROVE  i \in job'[b].ids \/ instance[i] \in AsAnnounced(b, j)
    BY <1>2, <1>3 DEF Kept, AsAnnounced
  <2>1. CASE b # a
    BY <2>1, <1>3 DEF Kept
  <2>2. CASE b = a /\ i \in job[a].known
    BY <2>2, <1>4 DEF Kept
  <2>3. CASE b = a /\ i \notin job[a].known
    <3>1. i \in Of(k) /\ (i \in job'[a].ids \/ instance[i] = TargetState(a, k))
      BY <2>3, <1>1
    <3>2. j = k
      BY <3>1, EnvironmentAssumption DEF Of
    <3> QED
      BY <3>1, <3>2, <2>3 DEF AsAnnounced
  <2> QED
    BY <2>1, <2>2, <2>3
<1> QED
  BY <1>5, <1>6, <1>7, <1>8, <1>9

\* Going on to the next step, if the one that is over has done what it is for.
LEMMA NextStepInv ==
  ASSUME IInv, TypeInv', NEW a \in Action, Active(a), NextStep(a),
         UNCHANGED <<instance, disabled, zoneJob, overlapped, unguarded>>,
         \A k \in Kind : \A i \in job[a].ids \cap Of(k) : instance[i] = TargetState(a, k),
         \A k \in Kind : \A i \in job[a].ids \cap Of(k) : At(a, k),
         a = "start" /\ job[a].at = 2 => job[a].phase # "list",
         resurrector' = IF At(a, "resurrector") /\ job[a].skip_bosh = "no"
                        THEN a = "start" ELSE resurrector
  PROVE  IInv'
<1> USE DEF IInv
<1>1. /\ Others(a) /\ job'[a].ids = {} /\ job'[a].phase = "list"
      /\ job'[a].at = job[a].at + 1
      /\ Active(a)' => /\ job'[a].known = job[a].known
                       /\ job'[a].skip_bosh = job[a].skip_bosh
  BY AfterNextStep
<1>2. /\ \A b \in Action \ {a} : job'[b] = job[b] /\ (Active(b)' <=> Active(b))
      /\ \A b \in Action : Active(b)' => Active(b)
  BY <1>1 DEF Others, Active
<1>5. Apart'
  BY <1>2 DEF Apart
<1>6. Told'
  <2>1. ASSUME ~unguarded PROVE \A b \in Action : Active(b)' => job'[b].skip_bosh = "no"
    BY <2>1, <1>1, <1>2 DEF Told
  <2>2. ASSUME ~unguarded, Active("start")' \/ resurrector'
        PROVE  disabled = {} /\ zoneJob = "none"
    BY <2>2, <1>2 DEF Told
  <2> QED
    BY <2>1, <2>2 DEF Told
<1>a. ASSUME ~overlapped, a = "start", job[a].at >= 2
      PROVE  \A v \in Vm : Awake(v)
  <2>1. job["start"].at \in 1..4
    BY <1>a, ActiveFacts
  <2>2. \A v \in Vm \ job["start"].ids : Awake(v)
    BY <1>a, <2>1 DEF Waking, Awake
  <2>3. \A v \in Vm \cap job["start"].ids : instance[v] = "running"
    BY <1>a DEF TargetState, Up, Of
  <2> QED
    BY <2>2, <2>3 DEF Awake
<1>7. Quiet'
  <2>1. CASE a = "start"
    <3>1. At(a, "resurrector") => job[a].at = 3
      BY <2>1, AtFacts
    <3>2. ~overlapped => ~Active("stop") /\ ~Active("stop")'
      BY <2>1, <1>2 DEF Apart
    <3>3. resurrector' => resurrector \/ job[a].at = 3
      BY <3>1
    <3> QED
      BY <3>2, <3>3, <2>1, <1>a DEF Quiet, Awake
  <2>2. CASE a = "stop"
    <3>1. ~unguarded => job[a].skip_bosh = "no"
      BY DEF Told
    <3>2. job[a].at = 1 => At(a, "resurrector")
      BY <2>2, PlanFacts DEF At
    <3>3. job[a].at \in 1..3
      BY <2>2, ActiveFacts
    <3>4. resurrector' => resurrector
      BY <2>2
    <3>5. ~overlapped /\ ~unguarded => ~resurrector'
      <4>1. CASE job[a].at = 1
        BY <2>2, <3>1, <3>2, <4>1
      <4>2. CASE job[a].at # 1
        BY <2>2, <3>3, <3>4, <4>2 DEF Quiet
      <4> QED
        BY <4>1, <4>2
    <3> QED
      BY <3>5 DEF Quiet
  <2> QED
    BY <2>1, <2>2
<1>8. Waking'
  <2>1. CASE a = "stop"
    BY <2>1, <1>2 DEF Waking, Awake
  <2>2. CASE a = "start"
    <3>1. job[a].at \in 1..4
      BY <2>2, ActiveFacts
    <3>2. job'[a].at >= 3 => job[a].at >= 2
      BY <3>1, <1>1
    <3> QED
      BY <2>2, <3>2, <1>1, <1>2, <1>a DEF Waking, Awake
  <2> QED
    BY <2>1, <2>2
<1>9. Kept'
  <2> SUFFICES ASSUME ~overlapped, NEW b \in Action, Active(b)', NEW j \in Kind,
                      NEW i \in Of(j), i \in job'[b].known
               PROVE  i \in job'[b].ids \/ instance[i] \in AsAnnounced(b, j)
    BY DEF Kept, AsAnnounced
  <2>1. CASE b # a
    BY <2>1, <1>2 DEF Kept
  <2>2. CASE b = a
    BY <2>2, <1>1, <1>2 DEF Kept, AsAnnounced
  <2> QED
    BY <2>1, <2>2
<1> QED
  BY <1>5, <1>6, <1>7, <1>8, <1>9

LEMMA WaitsInv ==
  ASSUME IInv, TypeInv', NEW a \in Action, NEW k \in Kind, Waits(a, k) PROVE IInv'
<1>1. \A i \in job[a].ids : instance[i] = TargetState(a, k)
  BY AfterWaits DEF IInv
<1>2. At(a, k) /\ Active(a) /\ NextStep(a) /\ job[a].phase = "wait"
  BY DEF Waits, At
<1>3. job[a].ids \subseteq Of(k)
  BY <1>2 DEF IInv, TypeInv, Shape, At
<1>4. ~At(a, "resurrector")
  BY <1>2 DEF At
<1>5. \A j \in Kind : \A i \in job[a].ids \cap Of(j) : j = k
  BY <1>3, EnvironmentAssumption DEF Of
<1>6. UNCHANGED <<instance, resurrector, disabled, zoneJob, overlapped, unguarded>>
  BY DEF Waits
<1> QED
  BY <1>1, <1>2, <1>4, <1>5, <1>6, NextStepInv

LEMMA TogglesInv ==
  ASSUME IInv, TypeInv', NEW a \in Action, Toggles(a) \/ HealthCheck(a) PROVE IInv'
<1>1. /\ At(a, "resurrector") \/ At(a, "health")
      /\ Active(a) /\ NextStep(a)
      /\ UNCHANGED <<instance, disabled, zoneJob, overlapped, unguarded>>
  BY DEF Toggles, HealthCheck, At
<1>2. job[a].ids = {}
  BY <1>1 DEF IInv, TypeInv, Shape, At
<1>3. ~(a = "start" /\ job[a].at = 2)
  BY <1>1, AtFacts
<1>4. resurrector' = IF At(a, "resurrector") /\ job[a].skip_bosh = "no"
                     THEN a = "start" ELSE resurrector
  <2>1. job[a].skip_bosh \in {"yes", "no"}
    BY DEF IInv, TypeInv, TypeOK, Build
  <2> QED
    BY <2>1 DEF Toggles, HealthCheck, At
<1> QED
  BY <1>1, <1>2, <1>3, <1>4, NextStepInv

LEMMA CallInv ==
  ASSUME IInv, TypeInv', NEW a \in Action, NEW k \in {"ec2", "rds"},
         NEW some \in SUBSET job[a].left,
         At(a, k), job[a].phase = "call", Call(a, k, some),
         UNCHANGED <<resurrector, disabled, zoneJob, overlapped, unguarded>>
  PROVE  IInv'
<1> USE DEF IInv
<1>1. CASE Fail(a) /\ UNCHANGED instance
  BY <1>1, FailInv
<1>2. CASE /\ Others(a) /\ job'[a].at = job[a].at /\ job'[a].skip_bosh = job[a].skip_bosh
           /\ job'[a].ids = job[a].ids /\ job'[a].known = job[a].known
           /\ job'[a].phase # "list"
           /\ instance' = [i \in Instance |->
                IF i \in some /\ instance[i] = InitialState(a, k) THEN Moving(a) ELSE instance[i]]
  <2>1. /\ \A b \in Action \ {a} : job'[b] = job[b]
        /\ \A b \in Action : Active(b)' <=> Active(b)
        /\ \A b \in Action : /\ job'[b].at = job[b].at /\ job'[b].ids = job[b].ids
                             /\ job'[b].known = job[b].known
                             /\ job'[b].skip_bosh = job[b].skip_bosh
                             /\ job'[b].phase = "list" <=> job[b].phase = "list"
    BY <1>2 DEF Others, Active
  <2>2. some \subseteq job[a].ids /\ job[a].ids \subseteq Of(k) /\ Active(a)
    BY DEF TypeInv, TypeOK, Shape, At
  <2>3. \A b \in Action : Active(b) => b = a \/ overlapped
    BY <2>2 DEF Apart
  <2>4. \A i \in Instance \ some : instance'[i] = instance[i]
    BY <1>2
  <2>5. \A i \in some : instance'[i] \in {instance[i], Moving(a)}
    BY <1>2, <2>2, KindParts
  <2>6. \A v \in Vm : v \in Instance /\ (v \in some => k = "ec2")
    BY <2>2, EnvironmentAssumption DEF Of, Instance
  <2>7. a = "start" => \A v \in Vm : instance[v] # "stopping" => instance'[v] # "stopping"
    BY <2>4, <2>5, <2>6 DEF Moving
  <2>8. a = "start" => \A v \in Vm : Awake(v) => Awake(v)'
    BY <2>4, <2>5, <2>6 DEF Moving, Awake
  <2>9. Apart'
    BY <2>1 DEF Apart
  <2>10. Told'
    BY <2>1 DEF Told
  <2>11. Quiet'
    <3>1. CASE a = "start"
      BY <3>1, <2>1, <2>8 DEF Quiet
    <3>2. CASE a = "stop"
      <4>1. k = "ec2" => job["stop"].at >= 2
        BY <3>2, AtFacts
      <4>2. k = "rds" => \A v \in Vm : instance'[v] = instance[v]
        BY <2>4, <2>6
      <4> QED
        BY <3>2, <4>1, <4>2, <2>1, <2>2 DEF Quiet, Awake
    <3> QED
      BY <3>1, <3>2
  <2>12. Waking'
    <3>1. CASE a = "stop"
      BY <3>1, <2>1, <2>3 DEF Waking
    <3>2. CASE a = "start"
      BY <3>2, <2>1, <2>7, <2>8 DEF Waking
    <3> QED
      BY <3>1, <3>2
  <2>13. Kept'
    <3> SUFFICES ASSUME ~overlapped, NEW b \in Action, Active(b), NEW j \in Kind,
                        NEW i \in Of(j), i \in job[b].known
                 PROVE  i \in job[b].ids \/ instance'[i] \in AsAnnounced(b, j)
      BY <2>1 DEF Kept, AsAnnounced
    <3>1. b = a /\ i \in Instance
      BY <2>3, KindParts
    <3>2. i \in job[a].ids \/ instance'[i] = instance[i]
      BY <3>1, <2>2, <2>4
    <3> QED
      BY <3>1, <3>2 DEF Kept
  <2> QED
    BY <2>9, <2>10, <2>11, <2>12, <2>13
<1> QED
  BY <1>1, <1>2, AfterCall

LEMMA ZonesInv ==
  ASSUME IInv, TypeInv',
         \/ \E z \in Zone : DisableResurrector(z) \/ EnableZone(z)
         \/ DisableZone
  PROVE  IInv'
<1> USE DEF IInv
<1>1. /\ UNCHANGED <<instance, job, overlapped>>
      /\ resurrector' => resurrector
      /\ unguarded => unguarded'
  BY DEF DisableResurrector, EnableZone, DisableZone, TypeInv, TypeOK
<1>2. \A b \in Action : Active(b)' <=> Active(b)
  BY <1>1 DEF Active
<1>3. Told'
  <2>1. CASE \E z \in Zone : DisableResurrector(z)
    BY <2>1, <1>1, <1>2 DEF Told, DisableResurrector
  <2>2. CASE \/ \E z \in Zone : EnableZone(z)
             \/ DisableZone
    BY <2>2, <1>1, <1>2 DEF Told, EnableZone, DisableZone
  <2> QED
    BY <2>1, <2>2
<1> QED
  BY <1>1, <1>2, <1>3 DEF Apart, Quiet, Waking, Kept, Awake, AsAnnounced

LEMMA AwsInv ==
  ASSUME IInv, TypeInv',
         \/ \E i \in Instance : Settles(i)
         \/ \E d \in Db : Maintained(d) \/ Deleted(d)
  PROVE  IInv'
<1> USE DEF IInv
<1>1. UNCHANGED <<resurrector, job, disabled, zoneJob, overlapped, unguarded>>
  BY DEF Settles, Maintained, Deleted
<1>2. \A b \in Action : Active(b)' <=> Active(b)
  BY <1>1 DEF Active
<1>3. \A v \in Vm : /\ Awake(v) => Awake(v)'
                    /\ instance[v] # "stopping" => instance'[v] # "stopping"
  BY EnvironmentAssumption DEF Settles, Maintained, Deleted, Awake, TypeInv, TypeOK, Instance
<1>4. \A a \in Action : \A k \in Kind : \A i \in Of(k) :
        instance[i] \in AsAnnounced(a, k) => instance'[i] \in AsAnnounced(a, k)
  BY KindParts, EnvironmentAssumption
     DEF Settles, Maintained, Deleted, TypeInv, TypeOK, Instance, AsAnnounced, TargetState, Up, Of
<1> QED
  BY <1>1, <1>2, <1>3, <1>4 DEF Apart, Told, Quiet, Waking, Kept, AsAnnounced

LEMMA ReplacedInv == ASSUME IInv, TypeInv', NEW v \in Vm, Replaced(v) PROVE IInv'
<1> USE DEF IInv
<1>1. UNCHANGED <<resurrector, disabled, zoneJob, overlapped, unguarded>>
  BY DEF Replaced
<1>2. \A a \in Action : /\ job'[a].at = job[a].at /\ job'[a].ids = job[a].ids
                       /\ job'[a].known = job[a].known \ {v}
                       /\ job'[a].skip_bosh = job[a].skip_bosh
                       /\ job'[a].phase = job[a].phase
  BY DEF Replaced, TypeInv, TypeOK, Build
<1>3. \A b \in Action : Active(b)' <=> Active(b)
  BY <1>2 DEF Active
<1>4. /\ Awake(v)' /\ instance'[v] # "stopping"
      /\ \A i \in Instance \ {v} : instance'[i] = instance[i]
  BY DEF Replaced, Awake, TypeInv, TypeOK, Instance
<1>5. \A u \in Vm : /\ Awake(u) => Awake(u)'
                    /\ instance[u] # "stopping" => instance'[u] # "stopping"
  BY <1>4 DEF Awake, Instance
<1>6. Kept'
  <2> SUFFICES ASSUME ~overlapped, NEW b \in Action, Active(b), NEW j \in Kind,
                      NEW i \in Of(j), i \in job[b].known \ {v}
               PROVE  i \in job[b].ids \/ instance'[i] \in AsAnnounced(b, j)
    BY <1>1, <1>2, <1>3 DEF Kept, AsAnnounced
  <2>1. instance'[i] = instance[i]
    BY <1>4, KindParts
  <2> QED
    BY <2>1 DEF Kept
<1> QED
  BY <1>1, <1>2, <1>3, <1>5, <1>6 DEF Apart, Told, Quiet, Waking

LEMMA NextInv == IInv /\ [Next]_vars => IInv'
<1> SUFFICES ASSUME IInv, [Next]_vars PROVE IInv'
  OBVIOUS
<1>1. TypeInv'
  BY NextType DEF IInv
<1>2. ASSUME NEW a \in Action, Begins(a) PROVE IInv'
  BY <1>1, <1>2, BeginsInv
<1>3. ASSUME NEW a \in Action, Step(a) PROVE IInv'
  <2>1. ASSUME NEW k \in Kind, Lists(a, k) PROVE IInv'
    BY <1>1, <2>1, ListsInv
  <2>2. ASSUME NEW k \in Kind, Waits(a, k) PROVE IInv'
    BY <1>1, <2>2, WaitsInv
  <2>3. CASE CallsEc2(a)
    BY <1>1, <2>3, CallInv DEF CallsEc2
  <2>4. CASE CallsRds(a)
    BY <1>1, <2>4, CallInv DEF CallsRds
  <2>5. CASE Forgotten(a)
    BY <1>1, <2>5, FailInv DEF Forgotten
  <2>6. CASE Toggles(a) \/ HealthCheck(a)
    BY <1>1, <2>6, TogglesInv
  <2> QED
    BY <1>3, <2>1, <2>2, <2>3, <2>4, <2>5, <2>6 DEF Step
<1>4. ASSUME NEW a \in Action, Fails(a) PROVE IInv'
  BY <1>1, <1>4, FailInv DEF Fails
<1>5. ASSUME NEW v \in Vm, Replaced(v) PROVE IInv'
  BY <1>1, <1>5, ReplacedInv
<1>6. CASE UNCHANGED vars
  BY <1>1, <1>6 DEF vars, IInv, Apart, Told, Quiet, Waking, Kept, Active, Awake, AsAnnounced
<1> QED
  BY <1>1, <1>2, <1>3, <1>4, <1>5, <1>6, ZonesInv, AwsInv DEF Next

LEMMA Invariance == Spec => []IInv
BY InitInv, NextInv, PTL DEF Spec

\* While the resurrector is on there is no VM that BOSH cannot reach: neither a
\* shutdown, a startup nor a disabled zone makes it create VMs, whichever step
\* of whichever build has failed or was aborted before.
THEOREM ResurrectorSafe == Spec => []NothingToResurrect
<1>1. IInv => NothingToResurrect
  BY DEF IInv, TypeInv, TypeOK, Told, Quiet, NothingToResurrect, Unresponsive, Awake
<1> QED
  BY <1>1, Invariance, PTL

\* A build that ends well has done what it announces: what it has found is
\* stopped, or is running.
THEOREM AnnouncementsHold == Spec => EndsAsAnnounced
<1>1. ASSUME IInv, Next, NEW a \in Action, Finishes(a), ~overlapped,
             NEW k \in Kind, NEW i \in Of(k) \cap job[a].known
      PROVE  instance[i] \in AsAnnounced(a, k)
  <2>1. i \in job[a].ids \/ instance[i] \in AsAnnounced(a, k)
    BY <1>1 DEF Kept, Finishes, IInv
  <2>2. PICK n \in 3..4 : /\ n = Len(Plan(a)) /\ job[a].at \in 1..n
                         /\ job'[a].at = n + 1
    BY <1>1, PlanBound DEF Finishes, Active, Ended
  <2>3. job'[a].at # job[a].at /\ job'[a].at # 0 /\ job'[a].at # 1
    BY <2>2
  <2>4. \A b \in Action \ {a} : ~Active(b)
    BY <1>1 DEF IInv, Apart, Finishes
  <2>5. /\ TypeInv /\ job[a].ids \subseteq Instance
    BY <1>1 DEF IInv, TypeInv, TypeOK, Build
  <2>6. CASE \E j \in Kind : Waits(a, j)
    <3>1. PICK j \in Kind : Waits(a, j)
      BY <2>6
    <3>2. \A x \in job[a].ids : instance[x] = TargetState(a, j)
      BY <3>1, <2>5, AfterWaits
    <3>3. job[a].ids \subseteq Of(j)
      BY <3>1, <2>5 DEF TypeInv, Shape, Waits, At
    <3>4. i \in job[a].ids => j = k
      BY <3>3, EnvironmentAssumption DEF Of
    <3> QED
      BY <2>1, <3>2, <3>4 DEF AsAnnounced
  <2>7. CASE Toggles(a) \/ HealthCheck(a)
    <3>1. job[a].ids = {}
      BY <2>5, <2>7 DEF TypeInv, Shape, Toggles, HealthCheck, At
    <3> QED
      BY <2>1, <3>1
  <2>8. \/ \E j \in Kind : Waits(a, j)
        \/ Toggles(a) \/ HealthCheck(a)
    <3>1. ASSUME NEW b \in Action, Begins(b) PROVE FALSE
      BY <2>3, <2>5, <3>1, AfterBegins DEF Others
    <3>2. ASSUME NEW b \in Action, Fail(b) PROVE FALSE
      BY <2>3, <2>5, <3>2, AfterFail DEF Others
    <3>3. ASSUME NEW b \in Action, NEW j \in Kind, Lists(b, j) PROVE FALSE
      BY <2>3, <2>5, <3>3, AfterLists DEF Others
    <3>4. ASSUME NEW b \in Action, CallsEc2(b) \/ CallsRds(b) PROVE FALSE
      <4>1. PICK j \in Kind, some \in SUBSET job[b].left :
               job[b].phase = "call" /\ Call(b, j, some)
        BY <3>4 DEF CallsEc2, CallsRds
      <4> QED
        BY <2>3, <2>5, <3>2, <4>1, AfterCall DEF Others
    <3>5. ASSUME NEW b \in Action \ {a},
                 (\E j \in Kind : Waits(b, j)) \/ Toggles(b) \/ HealthCheck(b)
          PROVE  FALSE
      BY <2>4, <3>5 DEF Waits, Toggles, HealthCheck, At
    <3>6. job'[a].at # job[a].at
      BY <2>3
    <3>7. ASSUME NEW v \in Vm, Replaced(v) PROVE FALSE
      BY <2>5, <3>6, <3>7 DEF Replaced, TypeInv, TypeOK, Build
    <3>8. ~UNCHANGED job
      BY <3>6
    <3> QED
      BY <1>1, <3>1, <3>2, <3>3, <3>4, <3>5, <3>7, <3>8
         DEF Next, Step, Forgotten, Fails, DisableResurrector, EnableZone, DisableZone,
             Settles, Maintained, Deleted
  <2> QED
    BY <2>6, <2>7, <2>8
<1>2. IInv /\ [Next]_vars
        => [\A a \in Action : Finishes(a) /\ ~overlapped =>
              \A k \in Kind : \A i \in Of(k) \cap job[a].known :
                instance[i] \in AsAnnounced(a, k)]_vars
  BY <1>1
<1> QED
  BY <1>2, Invariance, PTL DEF Spec, EndsAsAnnounced
===============================================================================
