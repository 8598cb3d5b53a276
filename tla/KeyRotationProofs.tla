--------------------------- MODULE KeyRotationProofs ---------------------------
(***************************************************************************)
(* What is stored stays readable for any number of VMs and rotations, if   *)
(* no rotation begins before the errand has caught up with the last one.   *)
(*                                                                         *)
(* Then the state is always in one of three phases: everything is written  *)
(* with the current key; a new key has no id of its own yet, and nobody    *)
(* has it; or a deploy hands the new key and the old one out together.     *)
(***************************************************************************)
EXTENDS KeyRotation, TLAPS

AllWrite(pair) ==
    /\ target.writes = pair
    /\ \A i \in Instance : config[i].writes = pair
    /\ rows \subseteq {pair}

\* CredHub holds nothing that is newer than what is in use.
Settled ==
    /\ encrypted.writes = Current
    /\ AllWrite(Current)
    /\ job # "generate_id"
    /\ job = "set_old_id" => oldKey = key
    /\ job = "generate_key" => oldKey = key /\ oldId = id

\* The new key has the id of the old one: to deploy it now would be careless.
HalfRotated ==
    /\ encrypted.writes = Old
    /\ AllWrite(Old)
    /\ job \in {"off", "generate_id"}
    /\ id = oldId /\ key # oldKey

Both == [ring |-> {Current, Old}, writes |-> Current]

\* The new key has an id, and the deploys hand both keys out.
Rotated ==
    /\ encrypted.writes = Old
    /\ job = "off"
    /\ id # oldId
    /\ \/ AllWrite(Old)
       \/ /\ target = Both
          /\ \A i \in Instance : config[i] = target \/ config[i].writes = Old
          /\ rows \subseteq {Current, Old}

\* After a deploy that worked every VM has what it handed out.
HandedOut ==
    pipeline \in {"deployed", "encrypting", "unlocked"} =>
        \A i \in Instance : config[i] = target

IInv ==
    /\ TypeOK
    /\ HandedOut
    /\ ~careless => Settled \/ HalfRotated \/ Rotated

-------------------------------------------------------------------------------
\* What a deploy hands out is a configuration.
LEMMA ConfigsAreConfigs == ASSUME TypeOK PROVE Configs \subseteq Config
  <1>1. Current \in Pair /\ Old \in Pair
    BY DEF TypeOK, Current, Old, Pair
  <1>2. \A ring \in SUBSET Pair : \A pair \in ring : [ring |-> ring, writes |-> pair] \in Config
    BY DEF Config
  <1>3. ASSUME NEW c \in Configs PROVE c \in Config
    <2>1. CASE id = oldId
      <3>1. PICK pair \in {Current, Old} : c = [ring |-> {pair}, writes |-> pair]
        BY <1>3, <2>1 DEF Configs
      <3> QED BY <1>1, <1>2, <3>1
    <2>2. CASE id # oldId
      <3>1. c = [ring |-> {Current, Old}, writes |-> Current]
        BY <1>3, <2>2 DEF Configs
      <3> QED BY <1>1, <1>2, <3>1
    <2> QED BY <2>1, <2>2
  <1> QED BY <1>3

LEMMA TypeStep == ASSUME TypeOK, [Next]_vars PROVE TypeOK'
  <1> USE DEF TypeOK
  <1>1. CASE Rotation
    <2> USE DEF credhub, deployed
    <2>1. CASE StartRotation
      BY <2>1 DEF StartRotation
    <2>2. CASE SetOldKey
      BY <2>2 DEF SetOldKey
    <2>3. CASE SetOldId
      BY <2>3 DEF SetOldId
    <2>4. CASE GenerateKey
      BY <2>4 DEF GenerateKey
    <2>5. CASE GenerateId
      BY <2>5 DEF GenerateId
    <2>6. CASE JobDies
      BY <2>6 DEF JobDies
    <2> QED BY <1>1, <2>1, <2>2, <2>3, <2>4, <2>5, <2>6 DEF Rotation
  <1>2. CASE StartDeploy
    <2>1. target' \in Config
      BY <1>2, ConfigsAreConfigs DEF StartDeploy
    <2> QED BY <1>2, <2>1 DEF StartDeploy, credhub
  <1>3. CASE DeployDone \/ StartErrand \/ ErrandDone \/ RunFails \/ RestartPostDeploy
    BY <1>3 DEF DeployDone, StartErrand, ErrandDone, RunFails, RestartPostDeploy, credhub
  <1>4. ASSUME NEW i \in Instance, UpdateInstance(i) PROVE TypeOK'
    <2>1. config' \in [Instance -> Config]
      BY <1>4 DEF UpdateInstance
    <2> QED BY <1>4, <2>1 DEF UpdateInstance, credhub
  <1>5. ASSUME NEW row \in rows, Encrypt(row) PROVE TypeOK'
    <2>1. target.writes \in Pair
      BY DEF Config
    <2> QED BY <1>5, <2>1 DEF Encrypt, credhub, deployed
  <1>6. ASSUME NEW i \in Instance, Write(i) PROVE TypeOK'
    <2>1. config[i].writes \in Pair
      BY DEF Config
    <2> QED BY <1>6, <2>1 DEF Write, credhub, deployed
  <1>7. CASE UNCHANGED vars
    BY <1>7 DEF vars, credhub, deployed
  <1> QED BY <1>1, <1>2, <1>3, <1>4, <1>5, <1>6, <1>7 DEF Next, Pipeline

LEMMA HandedOutStep == ASSUME TypeOK, HandedOut, [Next]_vars PROVE HandedOut'
  <1> USE DEF HandedOut
  <1>1. CASE Rotation \/ \E i \in Instance : Write(i)
    BY <1>1 DEF Rotation, StartRotation, SetOldKey, SetOldId, GenerateKey, GenerateId,
                JobDies, Write, deployed
  <1>2. CASE RunFails \/ RestartPostDeploy
    BY <1>2 DEF RunFails, RestartPostDeploy
  <1>3. CASE StartDeploy \/ DeployDone \/ StartErrand \/ ErrandDone
    BY <1>3 DEF StartDeploy, DeployDone, StartErrand, ErrandDone
  <1>4. ASSUME NEW i \in Instance, UpdateInstance(i) PROVE HandedOut'
    BY <1>4 DEF UpdateInstance
  <1>5. ASSUME NEW row \in rows, Encrypt(row) PROVE HandedOut'
    BY <1>5 DEF Encrypt, deployed
  <1>6. CASE UNCHANGED vars
    BY <1>6 DEF vars, deployed
  <1> QED BY <1>1, <1>2, <1>3, <1>4, <1>5, <1>6 DEF Next, Pipeline

-------------------------------------------------------------------------------
\* The history variable is never taken back.
LEMMA CarelessStays == ASSUME [Next]_vars, ~careless' PROVE ~careless
  BY DEF Next, Rotation, Pipeline, StartRotation, SetOldKey, SetOldId, GenerateKey,
         GenerateId, JobDies, StartDeploy, UpdateInstance, DeployDone, StartErrand, Encrypt,
         ErrandDone, RunFails, RestartPostDeploy, Write, vars, deployed

\* As long as all write the same pair, so do they after a step of the pipeline other
\* than a new deploy.
LEMMA AllWriteStep ==
    ASSUME TypeOK, NEW pair, AllWrite(pair), [Next]_vars, ~StartDeploy
    PROVE AllWrite(pair)'
  <1> USE DEF AllWrite, TypeOK
  <1>1. CASE Rotation
    BY <1>1 DEF Rotation, StartRotation, SetOldKey, SetOldId, GenerateKey, GenerateId,
                JobDies, deployed
  <1>2. CASE DeployDone \/ StartErrand \/ ErrandDone \/ RunFails \/ RestartPostDeploy
    BY <1>2 DEF DeployDone, StartErrand, ErrandDone, RunFails, RestartPostDeploy
  <1>3. ASSUME NEW i \in Instance, UpdateInstance(i) PROVE AllWrite(pair)'
    BY <1>3 DEF UpdateInstance
  <1>4. ASSUME NEW row \in rows, Encrypt(row) PROVE AllWrite(pair)'
    BY <1>4 DEF Encrypt, deployed
  <1>5. ASSUME NEW i \in Instance, Write(i) PROVE AllWrite(pair)'
    BY <1>5 DEF Write, deployed
  <1>6. CASE UNCHANGED vars
    BY <1>6 DEF vars, deployed
  <1> QED BY <1>1, <1>2, <1>3, <1>4, <1>5, <1>6 DEF Next, Pipeline

LEMMA SettledStep ==
    ASSUME TypeOK, Settled, [Next]_vars, ~careless'
    PROVE Settled' \/ HalfRotated'
  <1> USE DEF Settled
  <1>1. CASE StartDeploy
    <2>1. target'.writes = Current
      <3>1. CASE id = oldId
        <4>1. Old = Current
          BY <1>1, <3>1 DEF StartDeploy, Old, Current
        <4> QED BY <1>1, <3>1, <4>1 DEF StartDeploy, Configs
      <3>2. CASE id # oldId
        BY <1>1, <3>2 DEF StartDeploy, Configs
      <3> QED BY <3>1, <3>2
    <2>2. Current' = Current /\ encrypted' = encrypted /\ config' = config /\ rows' = rows
      BY <1>1 DEF StartDeploy, credhub, Current
    <2>3. AllWrite(Current)'
      BY <2>1, <2>2 DEF AllWrite
    <2>4. key' = key /\ id' = id /\ oldKey' = oldKey /\ oldId' = oldId /\ job' = job
      BY <1>1 DEF StartDeploy, credhub
    <2> QED BY <2>2, <2>3, <2>4
  <1>2. CASE Rotation
    <2> AllWrite(Current)
      OBVIOUS
    <2> config' = config /\ target' = target /\ rows' = rows /\ encrypted' = encrypted
      BY <1>2 DEF Rotation, StartRotation, SetOldKey, SetOldId, GenerateKey, GenerateId,
                  JobDies, deployed
    <2>1. CASE StartRotation \/ SetOldKey \/ SetOldId \/ JobDies
      <3>1. Current' = Current
        BY <2>1 DEF StartRotation, SetOldKey, SetOldId, JobDies, credhub, Current
      <3>2. AllWrite(Current)'
        BY <3>1 DEF AllWrite
      <3> QED BY <2>1, <3>1, <3>2 DEF StartRotation, SetOldKey, SetOldId, JobDies, credhub
    <2>2. CASE GenerateKey
      <3>1. Old' = Current
        BY <2>2 DEF GenerateKey, Old, Current
      <3>2. AllWrite(Old)'
        BY <3>1 DEF AllWrite
      <3>3. key' # oldKey' /\ id' = oldId'
        BY <2>2 DEF GenerateKey, TypeOK
      <3> QED BY <2>2, <3>1, <3>2, <3>3 DEF GenerateKey, HalfRotated
    <2>3. ~GenerateId
      BY DEF GenerateId
    <2> QED BY <1>2, <2>1, <2>2, <2>3 DEF Rotation
  <1>3. CASE ~StartDeploy /\ ~Rotation
    <2>1. Current' = Current /\ key' = key /\ id' = id /\ oldKey' = oldKey /\ oldId' = oldId
          /\ job' = job
      BY <1>3 DEF Next, Pipeline, UpdateInstance, DeployDone, StartErrand, Encrypt, ErrandDone,
                  RunFails, RestartPostDeploy, Write, vars, credhub, Current
    <2>2. AllWrite(Current)'
      BY <1>3, <2>1, AllWriteStep DEF AllWrite
    <2>3. encrypted'.writes = Current
      <3>1. encrypted' \in {encrypted, target}
        BY <1>3 DEF Next, Pipeline, UpdateInstance, DeployDone, StartErrand, Encrypt, ErrandDone,
                    RunFails, RestartPostDeploy, Write, vars, deployed
      <3> QED BY <3>1 DEF AllWrite
    <2> QED BY <2>1, <2>2, <2>3
  <1> QED BY <1>1, <1>2, <1>3

LEMMA HalfRotatedStep ==
    ASSUME TypeOK, HalfRotated, [Next]_vars, ~careless'
    PROVE HalfRotated' \/ Rotated'
  <1> USE DEF HalfRotated
  <1>1. ~StartDeploy
    BY DEF StartDeploy
  <1>2. CASE Rotation
    <2> config' = config /\ target' = target /\ rows' = rows /\ encrypted' = encrypted
      BY <1>2 DEF Rotation, StartRotation, SetOldKey, SetOldId, GenerateKey, GenerateId,
                  JobDies, deployed
    <2>1. ~StartRotation
      <3>1. encrypted.writes # Current
        BY DEF Current, Old
      <3> QED BY <3>1 DEF StartRotation, Completed
    <2>2. GenerateId \/ JobDies
      BY <1>2, <2>1 DEF Rotation, SetOldKey, SetOldId, GenerateKey
    <2>3. Old' = Old
      BY <2>2 DEF GenerateId, JobDies, credhub, Old
    <2>4. AllWrite(Old)'
      BY <2>3 DEF AllWrite
    <2>5. CASE GenerateId
      BY <2>3, <2>4, <2>5 DEF GenerateId, Rotated, TypeOK
    <2>6. CASE JobDies
      BY <2>3, <2>4, <2>6 DEF JobDies, credhub
    <2> QED BY <2>2, <2>5, <2>6
  <1>3. CASE ~Rotation
    <2>1. Old' = Old /\ key' = key /\ id' = id /\ oldKey' = oldKey /\ oldId' = oldId
          /\ job' = job
      BY <1>1, <1>3 DEF Next, Pipeline, UpdateInstance, DeployDone, StartErrand, Encrypt,
                  ErrandDone, RunFails, RestartPostDeploy, Write, vars, credhub, Old
    <2>2. AllWrite(Old)'
      BY <1>1, <2>1, AllWriteStep DEF AllWrite
    <2>3. encrypted'.writes = Old
      <3>1. encrypted' \in {encrypted, target}
        BY <1>1, <1>3 DEF Next, Pipeline, UpdateInstance, DeployDone, StartErrand, Encrypt,
                    ErrandDone, RunFails, RestartPostDeploy, Write, vars, deployed
      <3> QED BY <3>1 DEF AllWrite
    <2> QED BY <2>1, <2>2, <2>3
  <1> QED BY <1>2, <1>3

LEMMA RotatedStep ==
    ASSUME TypeOK, HandedOut, Rotated, [Next]_vars, ~careless'
    PROVE Rotated' \/ Settled'
  <1> USE DEF Rotated
  <1>1. ~Rotation
    <2>1. Current # Old
      BY DEF Current, Old
    <2> QED BY <2>1 DEF Rotation, StartRotation, SetOldKey, SetOldId, GenerateKey, GenerateId,
                        JobDies, Completed
  <1>2. /\ id' = id /\ oldId' = oldId /\ job' = job
        /\ Current' = Current /\ Old' = Old /\ Both' = Both
    BY <1>1 DEF Next, Pipeline, StartDeploy, UpdateInstance, DeployDone, StartErrand, Encrypt,
                ErrandDone, RunFails, RestartPostDeploy, Write, vars, credhub, Current, Old, Both
  <1>3. CASE AllWrite(Old) /\ ~StartDeploy
    <2>1. AllWrite(Old)'
      BY <1>2, <1>3, AllWriteStep DEF AllWrite
    <2>2. encrypted' \in {encrypted, target}
      BY <1>1, <1>3 DEF Next, Pipeline, UpdateInstance, DeployDone, StartErrand, Encrypt,
                  ErrandDone, RunFails, RestartPostDeploy, Write, vars, deployed
    <2> QED BY <1>2, <1>3, <2>1, <2>2 DEF AllWrite
  <1>4. CASE StartDeploy
    <2>1. target' = Both
      BY <1>4 DEF StartDeploy, Configs, Both
    <2>2. config' = config /\ rows' = rows /\ encrypted' = encrypted
      BY <1>4 DEF StartDeploy
    <2>3. \A i \in Instance : config[i] = Both \/ config[i].writes = Old
      BY DEF AllWrite
    <2>4. rows \subseteq {Current, Old}
      BY DEF AllWrite
    <2> QED BY <1>2, <2>1, <2>2, <2>3, <2>4
  <1>5. CASE /\ target = Both
             /\ \A i \in Instance : config[i] = target \/ config[i].writes = Old
             /\ rows \subseteq {Current, Old}
             /\ ~StartDeploy
    <2>1. target.writes = Current
      BY <1>5 DEF Both
    <2>2. target' = target
      BY <1>1, <1>5 DEF Next, Pipeline, UpdateInstance, DeployDone, StartErrand, Encrypt,
                  ErrandDone, RunFails, RestartPostDeploy, Write, vars, deployed
    <2>3. \A i \in Instance : config'[i] = target \/ config'[i].writes = Old
      <3>1. ASSUME NEW j \in Instance, UpdateInstance(j), NEW i \in Instance
            PROVE config'[i] = target \/ config'[i].writes = Old
        BY <1>5, <3>1 DEF UpdateInstance, TypeOK
      <3>2. CASE \A j \in Instance : ~UpdateInstance(j)
        <4>1. config' = config
          BY <1>1, <1>5, <3>2 DEF Next, Pipeline, DeployDone, StartErrand, Encrypt,
                  ErrandDone, RunFails, RestartPostDeploy, Write, vars, deployed
        <4> QED BY <1>5, <4>1
      <3> QED BY <3>1, <3>2
    <2>4. rows' \subseteq {Current, Old}
      <3>1. ASSUME NEW row \in rows, Encrypt(row) PROVE rows' \subseteq {Current, Old}
        BY <1>5, <2>1, <3>1 DEF Encrypt
      <3>2. ASSUME NEW i \in Instance, Write(i) PROVE rows' \subseteq {Current, Old}
        BY <1>5, <2>1, <3>2 DEF Write
      <3>3. CASE rows' = rows
        BY <1>5, <3>3
      <3> QED BY <1>1, <1>5, <3>1, <3>2, <3>3 DEF Next, Pipeline, UpdateInstance, DeployDone,
                  StartErrand, ErrandDone, RunFails, RestartPostDeploy, vars, deployed
    <2>5. CASE ErrandDone
      <3>1. encrypted'.writes = Current /\ rows' \subseteq {Current} /\ config' = config
        BY <2>1, <2>5 DEF ErrandDone
      <3>2. \A i \in Instance : config[i].writes = Current
        BY <2>1, <2>5 DEF ErrandDone, HandedOut
      <3>3. AllWrite(Current)'
        BY <1>2, <2>1, <2>2, <3>1, <3>2 DEF AllWrite
      <3> QED BY <1>2, <3>1, <3>3 DEF Settled
    <2>6. CASE ~ErrandDone
      <3>1. encrypted' = encrypted
        BY <1>1, <1>5, <2>6 DEF Next, Pipeline, UpdateInstance, DeployDone, StartErrand, Encrypt,
                  RunFails, RestartPostDeploy, Write, vars, deployed
      <3> QED BY <1>2, <1>5, <2>2, <2>3, <2>4, <3>1
    <2> QED BY <2>5, <2>6
  <1> QED BY <1>3, <1>4, <1>5

-------------------------------------------------------------------------------
LEMMA InitIInv == ASSUME Init PROVE IInv
  <1>1. TypeOK
    <2>1. <<1, 1>> \in Pair /\ <<0, 0>> \in Pair
      BY DEF Pair
    <2>2. target \in Config
      BY <2>1 DEF Init, Config
    <2>3. config \in [Instance -> Config] /\ encrypted = target
      BY <2>2 DEF Init
    <2>4. {key, id, oldKey, oldId} \subseteq Nat /\ rows \subseteq Pair
      BY DEF Init
    <2>5. /\ job \in {"off", "set_old_key", "set_old_id", "generate_key", "generate_id"}
          /\ pipeline \in {"unlocked", "deploying", "deployed", "encrypting", "failed"}
          /\ careless \in BOOLEAN
      BY DEF Init
    <2> QED BY <2>2, <2>3, <2>4, <2>5 DEF TypeOK
  <1>2. Settled
    BY DEF Init, Settled, AllWrite, Current
  <1>3. HandedOut
    BY DEF Init, HandedOut
  <1> QED BY <1>1, <1>2, <1>3 DEF IInv

LEMMA Inductive == Spec => []IInv
  <1>1. Init => IInv
    BY InitIInv
  <1>2. IInv /\ [Next]_vars => IInv'
    BY TypeStep, HandedOutStep, CarelessStays, SettledStep, HalfRotatedStep, RotatedStep DEF IInv
  <1> QED BY <1>1, <1>2, PTL DEF Spec

\* The variables keep their types, and a VM can read what it writes.
THEOREM TypeCorrect == Spec => []TypeOK
  <1>1. IInv => TypeOK
    BY DEF IInv
  <1> QED BY <1>1, Inductive, PTL

\* Keeping one old key is enough: what is stored can be read with what the last deploy
\* hands out, unless the operator is careless.
THEOREM RowsStayReadable == Spec => []Readable
  <1>1. IInv => Readable
    <2> SUFFICES ASSUME IInv, ~careless PROVE rows \subseteq target.ring
      BY DEF Readable
    <2>1. target.writes \in target.ring
      BY DEF IInv, TypeOK, Config
    <2>2. CASE Settled \/ HalfRotated
      BY <2>1, <2>2 DEF Settled, HalfRotated, AllWrite
    <2>3. CASE Rotated
      <3>1. CASE AllWrite(Old)
        BY <2>1, <3>1 DEF AllWrite
      <3>2. CASE target = Both /\ rows \subseteq {Current, Old}
        BY <3>2 DEF Both
      <3> QED BY <2>3, <3>1, <3>2 DEF Rotated
    <2> QED BY <2>2, <2>3 DEF IInv
  <1> QED BY <1>1, Inductive, PTL

\* While a deploy is under way a VM may be unable to read what was written with the
\* new key, and only that; when it is done every VM reads everything.
THEOREM OnlyNewIsUnread == Spec => []OnlyNewRowsUnread
  <1>1. IInv => OnlyNewRowsUnread
    <2> SUFFICES ASSUME IInv, ~careless, NEW i \in Instance
                 PROVE /\ rows \ config[i].ring \subseteq {target.writes}
                       /\ pipeline \in {"deployed", "encrypting", "unlocked"} =>
                              rows \subseteq config[i].ring
      BY DEF OnlyNewRowsUnread
    <2>1. config[i].writes \in config[i].ring
      BY DEF IInv, TypeOK, Config
    <2>2. ASSUME NEW pair, AllWrite(pair) PROVE rows \subseteq config[i].ring
      BY <2>1, <2>2 DEF AllWrite
    <2>3. CASE /\ target = Both /\ rows \subseteq {Current, Old}
               /\ config[i] = target \/ config[i].writes = Old
      <3>1. CASE config[i] = target
        BY <2>3, <3>1 DEF Both
      <3>2. CASE config[i] # target
        <4>1. ~(pipeline \in {"deployed", "encrypting", "unlocked"})
          BY <3>2 DEF IInv, HandedOut
        <4>2. rows \ config[i].ring \subseteq {Current}
          BY <2>1, <2>3, <3>2
        <4> QED BY <2>3, <4>1, <4>2 DEF Both
      <3> QED BY <3>1, <3>2
    <2>4. \/ AllWrite(Current) \/ AllWrite(Old)
          \/ /\ target = Both /\ rows \subseteq {Current, Old}
             /\ config[i] = target \/ config[i].writes = Old
      BY DEF IInv, Settled, HalfRotated, Rotated
    <2>5. CASE AllWrite(Current) \/ AllWrite(Old)
      <3>1. rows \subseteq config[i].ring
        BY <2>2, <2>5
      <3> QED BY <3>1
    <2> QED BY <2>3, <2>4, <2>5
  <1> QED BY <1>1, Inductive, PTL

================================================================================
