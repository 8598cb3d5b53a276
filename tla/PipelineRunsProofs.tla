--------------------------- MODULE PipelineRunsProofs ---------------------------
(***************************************************************************)
(* The lock keeps runs apart for any graph of jobs that satisfies the      *)
(* assumptions of PipelineRuns: a run is over when pipeline-unlock has     *)
(* succeeded for it, and then so has everything before it.                 *)
(***************************************************************************)
EXTENDS PipelineRuns, FiniteSetTheorems, WellFoundedInduction, TLAPS

\* A run has passed all jobs before those that it is at, or has passed.
Follows(j, r) == r \in 1 .. version /\ \A k \in Before[j] : r \in done[k]

\* Of every run that is at a job, or has passed it.
InOrder ==
    \A j \in Job, r \in Nat :
        /\ r \in done[j] => Follows(j, r)
        /\ <<j, r>> \in building => Follows(j, r) /\ (Orderly => r \notin done[j])

\* Only the newest run goes on, and it has the lock.
Held ==
    /\ \A r \in 1 .. version : r # version => r \in done["pipeline-unlock"]
    /\ InProgress => lock = "claimed" /\ locking # "updating"
    /\ locking = "updating" => lock = "claimed"

\* What the run has put is in the newest version that there is, and in what a job off the
\* graph may yet put, unless that one got something older.
Newest ==
    \A k \in Job : version \in done[k] => \A res \in Writes[k] :
        /\ latest[res] \in {version, Overtaken}
        /\ \A b \in aside : res \in Writes[b[1]] => b[2][res] \in {version, Overtaken}

\* The last two parts need a lock that works as it is meant to.
IInv ==
    /\ TypeOK
    /\ InOrder
    /\ Orderly => Held /\ Newest

-------------------------------------------------------------------------------
\* What a job off the graph has got, one of the parts of TypeOK.
AsideType(b) ==
    b \in {b[1]} \X [Writes[b[1]] -> Nat \union {Overtaken}] /\ b[1] \in Aside

LEMMA PutsType ==
    ASSUME TypeOK, NEW r \in Nat, NEW some, Puts(r, some)
    PROVE  /\ latest' \in [Resource -> Nat \union {Overtaken}]
           /\ \A b \in aside' : AsideType(b)
  <1>1. latest' \in [Resource -> Nat \union {Overtaken}]
    BY DEF TypeOK, Puts
  <1>2. ASSUME NEW b \in aside' PROVE AsideType(b)
    <2>1. PICK c \in aside :
            b = <<c[1], [res \in DOMAIN c[2] |-> IF res \in some THEN Overtaken ELSE c[2][res]]>>
      BY <1>2 DEF Puts
    <2>2. c[1] \in Aside /\ c[2] \in [Writes[c[1]] -> Nat \union {Overtaken}]
      BY DEF TypeOK
    <2>3. b[1] = c[1] /\ b[2] \in [Writes[c[1]] -> Nat \union {Overtaken}]
      BY <2>1, <2>2
    <2> QED BY <2>1, <2>2, <2>3 DEF AsideType
  <1> QED BY <1>1, <1>2

LEMMA TypeStep == ASSUME TypeOK, [Next]_vars PROVE TypeOK'
  <1> USE DEF TypeOK
  <1>1. CASE LockStarts \/ Claim \/ Bump \/ LockFails \/ ReleaseByHand
    BY <1>1 DEF LockStarts, Claim, Bump, LockFails, ReleaseByHand
  <1>2. ASSUME NEW j \in Job, NEW r \in Run, Starts(j, r) PROVE TypeOK'
    BY <1>2 DEF Starts, Run
  <1>3. ASSUME NEW j \in Job, NEW r \in Run, Succeeds(j, r) PROVE TypeOK'
    <2>1. /\ latest' \in [Resource -> Nat \union {Overtaken}]
          /\ \A b \in aside' : AsideType(b)
      BY <1>3, PutsType DEF Succeeds, Run
    <2>2. done' \in [Job -> SUBSET Nat]
      BY <1>3 DEF Succeeds, Run
    <2> QED BY <1>3, <2>1, <2>2 DEF Succeeds, AsideType
  <1>4. ASSUME NEW j \in Job, NEW r \in Run, Fails(j, r) PROVE TypeOK'
    <2>1. /\ latest' \in [Resource -> Nat \union {Overtaken}]
          /\ \A b \in aside' : AsideType(b)
      BY <1>4, PutsType DEF Fails, Run
    <2> QED BY <1>4, <2>1 DEF Fails, AsideType
  <1>5. ASSUME NEW a \in Aside, AsideStarts(a) PROVE TypeOK'
    <2>1. Gets(a) \in [Writes[a] -> Nat \union {Overtaken}]
      BY ResourceAssumption DEF Gets
    <2>2. \A b \in aside' : AsideType(b)
      BY <1>5, <2>1 DEF AsideStarts, AsideType
    <2> QED BY <1>5, <2>2 DEF AsideStarts, AsideType
  <1>6. ASSUME NEW b \in aside, AsideEnds(b) PROVE TypeOK'
    <2>1. \A res \in Writes[b[1]] : b[2][res] \in Nat \union {Overtaken}
      OBVIOUS
    <2>2. latest' \in [Resource -> Nat \union {Overtaken}]
      BY <1>6, <2>1 DEF AsideEnds
    <2> QED BY <1>6, <2>2 DEF AsideEnds
  <1>7. CASE UNCHANGED vars
    BY <1>7 DEF vars
  <1> QED BY <1>1, <1>2, <1>3, <1>4, <1>5, <1>6, <1>7 DEF Next

LEMMA InOrderStep == ASSUME TypeOK, InOrder, [Next]_vars PROVE InOrder'
  <1> USE DEF TypeOK, InOrder, Follows
  <1>1. CASE LockStarts \/ Claim \/ LockFails \/ ReleaseByHand
    BY <1>1 DEF LockStarts, Claim, LockFails, ReleaseByHand
  <1>2. CASE Bump
    <2>1. version' = version + 1 /\ done' = done /\ building' = building
      BY <1>2 DEF Bump
    <2>2. \A r \in Nat : r \in 1 .. version => r \in 1 .. version'
      BY <2>1
    <2> QED BY <2>1, <2>2
  <1>3. ASSUME NEW j \in Job, NEW r \in Run, Starts(j, r) PROVE InOrder'
    <2>1. r \in 1 .. version /\ \A k \in Passed[j] : r \in done[k]
      BY <1>3 DEF Starts, Ready, Candidates
    <2>2. ASSUME NEW k \in Before[j] PROVE r \in done[k]
      <3>1. k \in Passed[j] \/ \E p \in Passed[j] : k \in Before[p]
        BY <2>2, GraphAssumption
      <3>2. \A p \in Passed[j] : p \in Job /\ r \in Nat
        BY GraphAssumption DEF Run
      <3> QED BY <2>1, <3>1, <3>2
    <2>3. done' = done /\ version' = version /\ building' = building \union {<<j, r>>}
      BY <1>3 DEF Starts
    <2>4. Follows(j, r) /\ (Orderly => r \notin done[j])
      BY <1>3, <2>1, <2>2 DEF Starts, Ready, Orderly
    <2>5. ASSUME NEW k \in Job, NEW q \in Nat
          PROVE /\ q \in done'[k] => Follows(k, q)'
                /\ <<k, q>> \in building' => Follows(k, q)' /\ (Orderly => q \notin done'[k])
      <3>1. <<k, q>> \in building \/ (k = j /\ q = r) \/ <<k, q>> \notin building'
        BY <2>3
      <3> QED BY <2>3, <2>4, <3>1
    <2> QED BY <2>5
  <1>4. ASSUME NEW j \in Job, NEW r \in Run, Succeeds(j, r) PROVE InOrder'
    <2>1. <<j, r>> \in building /\ building' = building \ {<<j, r>>} /\ version' = version
      BY <1>4 DEF Succeeds
    <2>2. done' = [done EXCEPT ![j] = @ \union {r}]
      BY <1>4 DEF Succeeds
    <2>3. \A k \in Job : done[k] \subseteq done'[k]
      BY <2>2
    <2>4. \A k \in Job : \A q \in done'[k] : q \in done[k] \/ (k = j /\ q = r)
      BY <2>2
    <2>5. \A k \in Job : Before[k] \subseteq Job
      BY GraphAssumption
    <2>6. \A k \in Job, q \in Nat : Follows(k, q) => Follows(k, q)'
      BY <2>1, <2>3, <2>5
    <2>7. \A k \in Job, q \in Nat : q \in done'[k] => Follows(k, q)'
      BY <2>1, <2>4, <2>6
    <2>8. \A k \in Job, q \in Nat :
            <<k, q>> \in building' => (Orderly => q \notin done'[k]) /\ Follows(k, q)'
      BY <2>1, <2>4, <2>6
    <2> QED BY <2>7, <2>8 DEF Orderly
  <1>5. ASSUME NEW j \in Job, NEW r \in Run, Fails(j, r) PROVE InOrder'
    BY <1>5 DEF Fails
  <1>6. CASE (\E a \in Aside : AsideStarts(a)) \/ (\E b \in aside : AsideEnds(b))
    BY <1>6 DEF AsideStarts, AsideEnds
  <1>7. CASE UNCHANGED vars
    BY <1>7 DEF vars
  <1> QED BY <1>1, <1>2, <1>3, <1>4, <1>5, <1>6, <1>7 DEF Next

\* What is not done yet on the way to pipeline-unlock is the newest run's to do.
LEMMA OnlyNewest ==
    ASSUME TypeOK, InOrder, Held, NEW j \in Gating, NEW r \in 1 .. version, r \notin done[j]
    PROVE r = version /\ InProgress
  <1>1. r \notin done["pipeline-unlock"]
    BY GraphAssumption DEF TypeOK, InOrder, Follows, Gating
  <1>2. r = version
    BY <1>1 DEF Held
  <1> QED BY <1>1, <1>2 DEF InProgress, TypeOK

\* pipeline-unlock and what is before it.
LEMMA GatingAreJobs == Gating \subseteq Job
  BY GraphAssumption DEF Gating

\* Of the jobs of runs, only the gating ones of the newest run put anything.
LEMMA PutsNewest ==
    ASSUME TypeOK, InOrder, Held, Orderly, NEW j \in Job, NEW r \in Nat, <<j, r>> \in building,
           NEW some \in SUBSET Writes[j], Puts(r, some)
    PROVE \A res \in Resource : latest'[res] = latest[res] \/ latest'[res] = version
  <1>1. CASE j \in Gating
    <2>1. r = version
      BY <1>1, OnlyNewest DEF InOrder, Follows
    <2> QED BY <2>1 DEF Puts
  <1>2. CASE j \notin Gating
    BY <1>2, ResourceAssumption DEF Puts
  <1> QED BY <1>1, <1>2

\* A job off the graph does not see what is put meanwhile.
LEMMA PutsOvertakes ==
    ASSUME TypeOK, NEW r, NEW some, Puts(r, some), NEW b \in aside', NEW res \in Writes[b[1]]
    PROVE  /\ res \in some => b[2][res] = Overtaken
           /\ \E c \in aside : c[1] = b[1] /\ b[2][res] \in {c[2][res], Overtaken}
  <1>1. PICK c \in aside :
          b = <<c[1], [x \in DOMAIN c[2] |-> IF x \in some THEN Overtaken ELSE c[2][x]]>>
    BY DEF Puts
  <1>2. c[2] \in [Writes[c[1]] -> Nat \union {Overtaken}] /\ b[1] = c[1]
    BY <1>1 DEF TypeOK
  <1>3. b[2][res] = IF res \in some THEN Overtaken ELSE c[2][res]
    BY <1>1, <1>2
  <1> QED BY <1>2, <1>3

LEMMA HeldStep ==
    ASSUME TypeOK, InOrder, Held, Orderly, [Next]_vars
    PROVE Held'
  <1> USE DEF TypeOK, Held, Orderly, InProgress
  <1>1. CASE LockStarts \/ Claim \/ LockFails \/ ReleaseByHand
    BY <1>1 DEF LockStarts, Claim, LockFails, ReleaseByHand
  <1>2. CASE Bump
    <2>1. version' = version + 1 /\ done' = done /\ locking' = "idle" /\ lock' = lock
      BY <1>2 DEF Bump
    <2>2. ~InProgress /\ lock = "claimed"
      BY <1>2 DEF Bump
    <2>3. \A r \in 1 .. version' : r # version' => r \in done'["pipeline-unlock"]
      BY <2>1, <2>2
    <2> QED BY <2>1, <2>2, <2>3
  <1>3. ASSUME NEW j \in Job, NEW r \in Run, Starts(j, r) PROVE Held'
    BY <1>3 DEF Starts
  <1>4. ASSUME NEW j \in Job, NEW r \in Run, Succeeds(j, r) PROVE Held'
    <2>1. version' = version /\ locking' = locking
      BY <1>4 DEF Succeeds
    <2>2. done["pipeline-unlock"] \subseteq done'["pipeline-unlock"]
      BY <1>4, GraphAssumption DEF Succeeds
    <2>3. CASE j = "pipeline-unlock"
      <3>1. r = version /\ InProgress
        BY <1>4, <2>3, OnlyNewest DEF Succeeds, InOrder, Follows, Gating, Run
      <3>2. version' \in done'["pipeline-unlock"]
        BY <1>4, <2>1, <2>3, <3>1 DEF Succeeds
      <3> QED BY <2>1, <2>2, <3>1, <3>2
    <2>4. CASE j # "pipeline-unlock"
      <3>1. lock' = lock
        BY <1>4, <2>4 DEF Succeeds
      <3> QED BY <2>1, <2>2, <3>1
    <2> QED BY <2>3, <2>4
  <1>5. ASSUME NEW j \in Job, NEW r \in Run, Fails(j, r) PROVE Held'
    BY <1>5 DEF Fails
  <1>6. CASE (\E a \in Aside : AsideStarts(a)) \/ (\E b \in aside : AsideEnds(b))
    BY <1>6 DEF AsideStarts, AsideEnds
  <1>7. CASE UNCHANGED vars
    BY <1>7 DEF vars
  <1> QED BY <1>1, <1>2, <1>3, <1>4, <1>5, <1>6, <1>7 DEF Next

\* A put of the newest run, some of what job j puts, keeps what is in Newest.
LEMMA PutKeepsNewest ==
    ASSUME TypeOK, InOrder, Held, Orderly, Newest, NEW j \in Job, NEW r \in Nat,
           <<j, r>> \in building, NEW some \in SUBSET Writes[j], Puts(r, some),
           NEW k \in Job, version \in done[k], NEW res \in Writes[k]
    PROVE  /\ latest'[res] \in {version, Overtaken}
           /\ \A b \in aside' : res \in Writes[b[1]] => b[2][res] \in {version, Overtaken}
  <1>1. latest[res] \in {version, Overtaken}
        /\ \A b \in aside : res \in Writes[b[1]] => b[2][res] \in {version, Overtaken}
    BY DEF Newest
  <1>2. latest'[res] \in {version, Overtaken}
    <2>1. res \in Resource
      BY DEF Resource
    <2> QED BY <1>1, <2>1, PutsNewest
  <1>3. ASSUME NEW b \in aside', res \in Writes[b[1]]
        PROVE  b[2][res] \in {version, Overtaken}
    <2>1. PICK c \in aside : c[1] = b[1] /\ b[2][res] \in {c[2][res], Overtaken}
      BY <1>3, PutsOvertakes
    <2> QED BY <1>1, <1>3, <2>1
  <1> QED BY <1>2, <1>3

LEMMA NewestStep ==
    ASSUME TypeOK, InOrder, Held, Orderly, Newest, [Next]_vars
    PROVE Newest'
  <1>1. CASE LockStarts \/ Claim \/ LockFails \/ ReleaseByHand
    BY <1>1 DEF LockStarts, Claim, LockFails, ReleaseByHand, Newest
  <1>2. CASE Bump
    <2>1. ASSUME NEW k \in Job, version + 1 \in done[k] PROVE FALSE
      <3>1. version \in Nat /\ version + 1 \in Nat
        BY DEF TypeOK
      <3>2. version + 1 \in 1 .. version
        BY <2>1, <3>1 DEF InOrder, Follows
      <3> QED BY <3>1, <3>2
    <2> QED BY <1>2, <2>1 DEF Bump, Newest
  <1>3. ASSUME NEW j \in Job, NEW r \in Run, Starts(j, r) PROVE Newest'
    BY <1>3 DEF Starts, Newest
  <1>4. ASSUME NEW j \in Job, NEW r \in Run, Succeeds(j, r) PROVE Newest'
    <2>1. version' = version /\ <<j, r>> \in building /\ Puts(r, Writes[j])
          /\ done' = [done EXCEPT ![j] = @ \union {r}]
      BY <1>4 DEF Succeeds
    <2>2. ASSUME NEW k \in Job, version \in done'[k], NEW res \in Writes[k]
          PROVE  /\ latest'[res] \in {version, Overtaken}
                 /\ \A b \in aside' : res \in Writes[b[1]] => b[2][res] \in {version, Overtaken}
      <3>1. CASE version \in done[k]
        BY <2>1, <2>2, <3>1, PutKeepsNewest DEF Run
      <3>2. CASE version \notin done[k]
        <4>1. k = j /\ r = version
          BY <2>1, <2>2, <3>2 DEF TypeOK
        <4>2. latest'[res] = version
          BY <2>1, <2>2, <4>1 DEF Puts, Resource
        <4>3. \A b \in aside' : res \in Writes[b[1]] => b[2][res] = Overtaken
          BY <2>1, <2>2, <4>1, PutsOvertakes
        <4> QED BY <4>2, <4>3
      <3> QED BY <3>1, <3>2
    <2> QED BY <2>1, <2>2 DEF Newest
  <1>5. ASSUME NEW j \in Job, NEW r \in Run, Fails(j, r) PROVE Newest'
    <2>1. <<j, r>> \in building /\ version' = version /\ done' = done
      BY <1>5 DEF Fails
    <2>2. PICK some \in SUBSET Writes[j] : Puts(r, some)
      BY <1>5 DEF Fails
    <2> QED BY <2>1, <2>2, PutKeepsNewest DEF Newest, Run
  <1>6. ASSUME NEW a \in Aside, AsideStarts(a) PROVE Newest'
    <2>1. aside' = aside \union {<<a, Gets(a)>>} /\ UNCHANGED <<version, done, latest>>
      BY <1>6 DEF AsideStarts
    <2>2. \A res \in Writes[a] : Gets(a)[res] \in {latest[res], Overtaken}
      BY DEF Gets
    <2>3. ASSUME NEW k \in Job, version \in done[k], NEW res \in Writes[k], NEW b \in aside',
                 res \in Writes[b[1]]
          PROVE  b[2][res] \in {version, Overtaken}
      <3>1. CASE b \in aside
        BY <2>3, <3>1 DEF Newest
      <3>2. CASE b = <<a, Gets(a)>>
        <4>1. latest[res] \in {version, Overtaken}
          BY <2>3 DEF Newest
        <4>2. b[1] = a /\ b[2] = Gets(a)
          BY <3>2
        <4> QED BY <2>2, <2>3, <4>1, <4>2
      <3> QED BY <2>1, <3>1, <3>2
    <2> QED BY <2>1, <2>3 DEF Newest
  <1>7. ASSUME NEW b \in aside, AsideEnds(b) PROVE Newest'
    <2>1. aside' \subseteq aside /\ UNCHANGED <<version, done>>
      BY <1>7 DEF AsideEnds
    <2>2. \A res \in Resource :
            latest'[res] = latest[res] \/ (res \in Writes[b[1]] /\ latest'[res] = b[2][res])
      BY <1>7 DEF AsideEnds
    <2>3. \A k \in Job : Writes[k] \subseteq Resource
      BY DEF Resource
    <2>4. ASSUME NEW k \in Job, version \in done[k], NEW res \in Writes[k]
          PROVE  latest'[res] \in {version, Overtaken}
      BY <2>2, <2>3, <2>4 DEF Newest
    <2> QED BY <2>1, <2>4 DEF Newest
  <1>8. CASE UNCHANGED vars
    BY <1>8 DEF vars, Newest
  <1> QED BY <1>1, <1>2, <1>3, <1>4, <1>5, <1>6, <1>7, <1>8 DEF Next

-------------------------------------------------------------------------------
LEMMA Inductive == Spec => []IInv
  <1>1. Init => IInv
    <2> SUFFICES ASSUME Init PROVE IInv
      OBVIOUS
    <2>1. TypeOK
      BY DEF Init, TypeOK
    <2>2. InOrder
      BY DEF Init, InOrder
    <2>3. Held
      BY DEF Init, Held, InProgress
    <2>4. Newest
      BY DEF Init, Newest
    <2> QED BY <2>1, <2>2, <2>3, <2>4 DEF IInv
  <1>2. IInv /\ [Next]_vars => IInv'
    <2> SUFFICES ASSUME IInv, [Next]_vars PROVE IInv'
      OBVIOUS
    <2>1. TypeOK' /\ InOrder'
      BY TypeStep, InOrderStep DEF IInv
    <2>2. ASSUME Orderly PROVE Held' /\ Newest'
      BY <2>2, HeldStep, NewestStep DEF IInv
    <2> QED BY <2>1, <2>2 DEF IInv, Orderly
  <1> QED BY <1>1, <1>2, PTL DEF Spec

\* The variables keep their types.
THEOREM TypeCorrect == Spec => []TypeOK
  <1>1. IInv => TypeOK
    BY DEF IInv
  <1> QED BY <1>1, Inductive, PTL

\* On the way from pipeline-lock to pipeline-unlock there is one run at a time, for any
\* graph of jobs, as long as the lock is claimed and released as it is meant to be.
THEOREM RunsKeptApart == Spec => []OneRunAtATime
  <1>1. IInv => OneRunAtATime
    <2> SUFFICES ASSUME IInv, Orderly, NEW b \in building, b[1] \in Gating
                 PROVE b[2] = version /\ lock = "claimed" /\ locking # "updating"
      BY DEF OneRunAtATime
    <2>1. PICK j \in Job, r \in Nat : b = <<j, r>>
      BY DEF IInv, TypeOK
    <2>2. r \in 1 .. version /\ r \notin done[j]
      BY <2>1 DEF IInv, InOrder, Follows
    <2>3. r = version /\ InProgress
      BY <2>1, <2>2, OnlyNewest DEF IInv
    <2> QED BY <2>1, <2>3 DEF IInv, Held
  <1> QED BY <1>1, Inductive, PTL

\* A job that asks for the newest version of something that a job before it puts gets
\* what its own run put, or what a job off the graph made of something older; for any
\* graph in which all that puts is on the way to pipeline-unlock, and any jobs off it.
THEOREM InputsAreOwn == Spec => OwnInputs
  <1>1. IInv /\ [Next]_vars =>
          (Orderly => \A b \in building' \ building :
              b[1] \in Gating => \A res \in Reads[b[1]] :
                  (\E k \in Before[b[1]] : res \in Writes[k]) => latest[res] \in {b[2], Overtaken})
    <2> SUFFICES ASSUME IInv, [Next]_vars, Orderly, NEW b \in building' \ building,
                        b[1] \in Gating, NEW res \in Reads[b[1]],
                        \E k \in Before[b[1]] : res \in Writes[k]
                 PROVE latest[res] \in {b[2], Overtaken}
      OBVIOUS
    <2>1. PICK j \in Job, r \in Run : Starts(j, r) /\ b = <<j, r>>
      <3>1. building' # building
        OBVIOUS
      <3>2. PICK j \in Job, r \in Run : Starts(j, r) \/ Succeeds(j, r) \/ Fails(j, r)
        BY <3>1 DEF Next, LockStarts, Claim, Bump, LockFails, ReleaseByHand, AsideStarts,
                    AsideEnds, vars
      <3>3. Starts(j, r)
        BY <3>2 DEF Succeeds, Fails
      <3>4. b = <<j, r>>
        BY <3>3 DEF Starts
      <3> QED BY <3>3, <3>4
    <2>2. r \in 1 .. version /\ r \notin done[j]
      BY <2>1 DEF Starts, Ready, Candidates, Orderly
    <2>3. r = version
      BY <2>1, <2>2, OnlyNewest DEF IInv
    <2>4. PICK k \in Before[j] : res \in Writes[k]
      BY <2>1
    <2>5. k \in Job /\ r \in done[k]
      <3>1. <<j, r>> \in building'
        BY <2>1
      <3>2. Follows(j, r)'
        BY <2>1, <3>1, InOrderStep DEF IInv, InOrder, Run
      <3>3. done' = done
        BY <2>1 DEF Starts
      <3> QED BY <2>4, <3>2, <3>3, GraphAssumption DEF Follows
    <2> QED BY <2>1, <2>3, <2>4, <2>5 DEF IInv, Newest
  <1> QED BY <1>1, Inductive, PTL DEF Spec, OwnInputs

-------------------------------------------------------------------------------
(* A run can always go on.                                                  *)

\* Among any jobs there is one that no other of them comes before.
LEMMA FirstJob ==
  ASSUME NEW some \in SUBSET Job, some # {}
  PROVE  \E j \in some : \A k \in some : k \notin Before[j]
  <1> DEFINE Behind == {Before[j] : j \in some}
             Order == StrictSubsetOrdering(Job)
  <1>1. \A j \in Job : Before[j] \in SUBSET Job
    BY GraphAssumption
  <1>2. IsWellFoundedOn(Order, SUBSET Job)
    <2>1. FiniteSubsetsOf(Job) = SUBSET Job
      BY GraphAssumption, FS_FiniteSubsetsOfFinite
    <2>2. IsWellFoundedOn(StrictSubsetOrdering(Job), FiniteSubsetsOf(Job))
      BY FS_StrictSubsetOrderingWellFounded
    <2> QED BY <2>1, <2>2
  <1>3. Behind \subseteq SUBSET Job /\ Behind # {}
    BY <1>1
  <1>4. PICK least \in Behind : \A other \in Behind : <<other, least>> \notin Order
    <2> HIDE DEF Behind, Order
    <2> QED BY <1>2, <1>3, WFMin
  <1>5. PICK j \in some : least = Before[j]
    BY <1>4
  <1>6. ASSUME NEW k \in some, k \in Before[j] PROVE FALSE
    <2>1. Before[k] \subseteq Before[j] /\ Before[k] # Before[j]
      BY <1>6, GraphAssumption
    <2>2. <<Before[k], Before[j]>> \in Order
      BY <1>1, <2>1 DEF StrictSubsetOrdering
    <2> QED BY <1>4, <1>5, <2>2
  <1> QED BY <1>6

\* The way to pipeline-unlock is closed under what its jobs wait for.
LEMMA GatingClosed ==
  ASSUME NEW j \in Gating
  PROVE  Passed[j] \subseteq Before[j] /\ Before[j] \subseteq Gating
  <1>1. j \in Job
    BY GatingAreJobs
  <1>2. Passed[j] \subseteq Before[j]
    BY <1>1, GraphAssumption
  <1>3. Before[j] \subseteq Before["pipeline-unlock"]
    BY GraphAssumption DEF Gating
  <1> QED BY <1>2, <1>3 DEF Gating

\* As long as the lock keeps runs apart, the newest run is never stuck: whatever has
\* failed, one of its jobs is being built or can be started (create-cloudfoundry.yml),
\* at once or when builds off the graph have ended, for any graph of jobs without a cycle
\* in which no job on the way to pipeline-unlock excludes one of a run that is not on it.
THEOREM RunsCanGoOn ==
  ASSUME Orderly
  PROVE  Spec => []CanGoOn
  <1>1. IInv => CanGoOn
    <2> SUFFICES ASSUME IInv, InProgress,
                        \A j \in Gating : <<j, version>> \notin building
                 PROVE  \E j \in Gating : Ready(j, version) /\ ~Excluded(j, building)
      BY DEF CanGoOn
    <2> DEFINE Undone == {j \in Gating : version \notin done[j]}
    <2>1. TypeOK /\ InOrder /\ Held
      BY DEF IInv
    <2>2. Undone \in SUBSET Job /\ Undone # {}
      BY GatingAreJobs DEF InProgress, Gating
    <2>3. PICK j \in Undone : \A k \in Undone : k \notin Before[j]
      <3> HIDE DEF Undone
      <3> QED BY <2>2, FirstJob
    <2>4. version \in Candidates(j)
      <3>1. \A k \in Passed[j] : k \in Before[j] /\ k \in Gating
        BY <2>3, GatingClosed
      <3>2. \A k \in Passed[j] : version \in done[k]
        BY <2>3, <3>1
      <3>3. version \in 1 .. version
        BY <2>1 DEF TypeOK, InProgress
      <3> QED BY <3>2, <3>3 DEF Candidates
    <2>5. \A q \in Candidates(j) : q <= version
      BY <2>1 DEF Candidates, TypeOK
    <2>6. ASSUME Excluded(j, building) PROVE FALSE
      <3> PICK b \in building : b[1] \in Excludes[j]
        BY <2>6 DEF Excluded
      <3>1. PICK k \in Job, r \in Nat : b = <<k, r>>
        BY <2>1 DEF TypeOK
      <3>2. k \in Gating
        BY <2>3, <3>1, GroupAssumption
      <3>3. r \in 1 .. version /\ r \notin done[k]
        BY <2>1, <3>1 DEF InOrder, Follows
      <3>4. r = version
        BY <2>1, <3>2, <3>3, OnlyNewest
      <3> QED BY <3>1, <3>2, <3>4
    <2> QED BY <2>3, <2>4, <2>5, <2>6 DEF Ready
  <1> QED BY <1>1, Inductive, PTL

-------------------------------------------------------------------------------
(* Of the jobs of a run, one after the other.                               *)

\* A job on the way to pipeline-unlock is never built while one that it waits for,
\* directly or not, is being built again, nor the other way round, for whichever runs:
\* post-cf-deploy and rotate-certs find no cf-deploy under way.
BuildsInTurn ==
    Orderly => \A b \in building, c \in building :
        b[1] \in Gating => c[1] \notin Before[b[1]]

\* CertRotation and KeyRotation take from the pipeline that what follows a deploy does
\* not run beside one; that is so for any graph of jobs, whatever has failed and been
\* started again, and needs no serial group.
THEOREM DeploysAreAlone == Spec => []BuildsInTurn
  <1>1. IInv => BuildsInTurn
    <2> SUFFICES ASSUME IInv, Orderly, NEW b \in building, NEW c \in building,
                        b[1] \in Gating, c[1] \in Before[b[1]]
                 PROVE  FALSE
      BY DEF BuildsInTurn
    <2>1. PICK j \in Job, r \in Nat : b = <<j, r>>
      BY DEF IInv, TypeOK
    <2>2. PICK k \in Job, q \in Nat : c = <<k, q>>
      BY DEF IInv, TypeOK
    <2>3. /\ r \in 1 .. version /\ r \notin done[j] /\ r \in done[k]
          /\ q \in 1 .. version /\ q \notin done[k]
      BY <2>1, <2>2 DEF IInv, InOrder, Follows
    <2>4. j \in Gating /\ k \in Gating
      BY <2>1, <2>2, GatingClosed
    <2>5. r = version /\ q = version
      BY <2>3, <2>4, OnlyNewest DEF IInv
    <2> QED BY <2>3, <2>5
  <1> QED BY <1>1, Inductive, PTL

================================================================================
