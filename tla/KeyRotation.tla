------------------------------ MODULE KeyRotation ------------------------------
(***************************************************************************)
(* The rotation of the key that the Cloud Controller encrypts its database *)
(* with.  CredHub holds the current key and one old key, each with the id  *)
(* that labels it; a deploy hands both to the VMs one by one, and after it *)
(* an errand encrypts every row again with the current key.  An operator   *)
(* may start the rotation at any time.                                     *)
(*                                                                         *)
(* Keys and ids are numbered in the order CredHub generates them.  A row   *)
(* is known by the pair <<id, key>> it is encrypted with.                  *)
(***************************************************************************)
EXTENDS Integers

CONSTANTS
    Instance,  \* the VMs of the Cloud Controller
    MaxKey     \* BOUND: keys that CredHub generates

ASSUME KeyAssumption == Instance # {} /\ MaxKey \in Nat \ {0}

VARIABLES
    key, id,        \* CredHub: cc_db_encryption_key, cc_db_encryption_key_id
    oldKey, oldId,  \* CredHub: the same, _old
    job,            \* rotate-database-encryption-keys: the call it comes to, or "off"
    config,         \* per VM, what it was deployed with last
    target,         \* what the last deploy hands out
    pipeline,       \* "unlocked", "deploying", "deployed", "encrypting", "failed"
    encrypted,      \* what the errand last succeeded with
    rows,           \* the pairs that rows of the database are encrypted with
    careless        \* history: a rotation began before the last one was completed,
                    \* or a deploy found a new key under an old id

credhub == <<key, id, oldKey, oldId>>
deployed == <<config, target, pipeline, encrypted>>
vars == <<credhub, job, deployed, rows, careless>>

Current == <<id, key>>
Old == <<oldId, oldKey>>

\* Deviation: the current id is handed out with the old keys.
X_Configs == {[ring |-> {Old}, writes |-> Current]}

\* What a VM may be deployed with: a map from ids to keys, the ring, and the pair
\* it writes with.  If a new key goes by the id of the old one, the map has room
\* for one of them, and the VM uses the one that is found there.
Configs ==
    IF id = oldId
    THEN {[ring |-> {pair}, writes |-> pair] : pair \in {Current, Old}}
    ELSE {[ring |-> {Current, Old}, writes |-> Current]}

Init ==
    /\ key = 1 /\ id = 1
    /\ oldKey = 0 /\ oldId = 0
    /\ job = "off"
    /\ target = [ring |-> {<<1, 1>>, <<0, 0>>}, writes |-> <<1, 1>>]
    /\ config = [i \in Instance |-> target]
    /\ pipeline = "unlocked"
    /\ encrypted = target
    /\ rows = {}
    /\ careless = FALSE

-------------------------------------------------------------------------------
(* The job rotate-database-encryption-keys, a call to CredHub at a time.    *)

\* A run of the pipeline has encrypted everything with the current key.
Completed == encrypted.writes = Current

\* The job reads the key and the id.  It is serial: nobody else changes them.
StartRotation ==
    /\ job = "off"
    /\ key < MaxKey
    /\ job' = "set_old_key"
    /\ careless' = (careless \/ ~Completed)
    /\ UNCHANGED <<credhub, deployed, rows>>

SetOldKey ==
    /\ job = "set_old_key"
    /\ oldKey' = key
    /\ job' = "set_old_id"
    /\ UNCHANGED <<key, id, oldId, deployed, rows, careless>>

\* Deviation: the old id is not saved.
X_SetOldId ==
    /\ job = "set_old_id"
    /\ job' = "generate_key"
    /\ UNCHANGED <<credhub, deployed, rows, careless>>

SetOldId ==
    /\ job = "set_old_id"
    /\ oldId' = id
    /\ job' = "generate_key"
    /\ UNCHANGED <<key, id, oldKey, deployed, rows, careless>>

GenerateKey ==
    /\ job = "generate_key"
    /\ key' = key + 1
    /\ job' = "generate_id"
    /\ UNCHANGED <<id, oldKey, oldId, deployed, rows, careless>>

GenerateId ==
    /\ job = "generate_id"
    /\ id' = id + 1
    /\ job' = "off"
    /\ UNCHANGED <<key, oldKey, oldId, deployed, rows, careless>>

\* A call fails and "sh -e" stops the job.  A get that fails does not, because of
\* the pipe behind it, but CredHub refuses the empty value that is set then.
JobDies ==
    /\ job # "off"
    /\ job' = "off"
    /\ UNCHANGED <<credhub, deployed, rows, careless>>

-------------------------------------------------------------------------------
(* The pipeline, under its lock: cf-deploy, then post-cf-deploy with the    *)
(* errand.                                                                  *)

\* BOSH resolves the variables when the deploy starts.
StartDeploy ==
    /\ pipeline \in {"unlocked", "failed"}
    /\ pipeline' = "deploying"
    /\ target' \in Configs
    /\ careless' = (careless \/ (id = oldId /\ key # oldKey))
    /\ UNCHANGED <<credhub, job, config, encrypted, rows>>

UpdateInstance(i) ==
    /\ pipeline = "deploying"
    /\ config[i] # target
    /\ config' = [config EXCEPT ![i] = target]
    /\ UNCHANGED <<credhub, job, target, pipeline, encrypted, rows, careless>>

\* Deviation: the deploy does not wait for all VMs.
X_DeployDone ==
    /\ pipeline = "deploying"
    /\ pipeline' = "deployed"
    /\ UNCHANGED <<credhub, job, config, target, encrypted, rows, careless>>

DeployDone ==
    /\ pipeline = "deploying"
    /\ \A i \in Instance : config[i] = target
    /\ pipeline' = "deployed"
    /\ UNCHANGED <<credhub, job, config, target, encrypted, rows, careless>>

\* bosh run-errand rotate-cc-database-key --when-changed
StartErrand ==
    /\ pipeline = "deployed"
    /\ pipeline' = IF encrypted = target THEN "unlocked" ELSE "encrypting"
    /\ UNCHANGED <<credhub, job, config, target, encrypted, rows, careless>>

\* Rows that are encrypted with something else are read and written again.
Encrypt(row) ==
    /\ pipeline = "encrypting"
    /\ row \in rows \intersect target.ring
    /\ row # target.writes
    /\ rows' = (rows \ {row}) \union {target.writes}
    /\ UNCHANGED <<credhub, job, deployed, careless>>

ErrandDone ==
    /\ pipeline = "encrypting"
    /\ rows \subseteq {target.writes}
    /\ encrypted' = target
    /\ pipeline' = "unlocked"
    /\ UNCHANGED <<credhub, job, config, target, rows, careless>>

\* Deviation: the errand is not run again after a run that failed.
X_RunFails ==
    /\ pipeline \in {"deploying", "deployed", "encrypting"}
    /\ pipeline' = "failed"
    /\ encrypted' = IF pipeline = "encrypting" THEN target ELSE encrypted
    /\ UNCHANGED <<credhub, job, config, target, rows, careless>>

\* The deploy stops half way, a job after it fails, or the errand does.
RunFails ==
    /\ pipeline \in {"deploying", "deployed", "encrypting"}
    /\ pipeline' = "failed"
    /\ UNCHANGED <<credhub, job, config, target, encrypted, rows, careless>>

\* post-cf-deploy is started again after a deploy that worked.
RestartPostDeploy ==
    /\ pipeline = "failed"
    /\ \A i \in Instance : config[i] = target
    /\ pipeline' = "deployed"
    /\ UNCHANGED <<credhub, job, config, target, encrypted, rows, careless>>

\* The Cloud Controller on a VM writes to the database, at any time.
Write(i) ==
    /\ rows' = rows \union {config[i].writes}
    /\ UNCHANGED <<credhub, job, deployed, careless>>

-------------------------------------------------------------------------------
Rotation == StartRotation \/ SetOldKey \/ SetOldId \/ GenerateKey \/ GenerateId \/ JobDies

Pipeline ==
    \/ StartDeploy \/ DeployDone \/ StartErrand \/ ErrandDone
    \/ (\E i \in Instance : UpdateInstance(i))
    \/ (\E row \in rows : Encrypt(row))

Next ==
    \/ Rotation \/ Pipeline \/ RunFails \/ RestartPostDeploy
    \/ \E i \in Instance : Write(i)

\* The pipeline is run again and again, its jobs make progress, and from some time
\* on they stop failing.  Nothing is assumed of the operator who rotates.
Spec ==
    /\ Init /\ [][Next]_vars
    /\ WF_vars(Pipeline)
    /\ <>[][~RunFails]_vars

-------------------------------------------------------------------------------
(* Properties.                                                              *)

Pair == Nat \X Nat
Config == {c \in [ring : SUBSET Pair, writes : Pair] : c.writes \in c.ring}

\* The types of the variables; a VM can read what it writes.
TypeOK ==
    /\ {key, id, oldKey, oldId} \subseteq Nat
    /\ job \in {"off", "set_old_key", "set_old_id", "generate_key", "generate_id"}
    /\ target \in Config /\ encrypted \in Config
    /\ config \in [Instance -> Config]
    /\ pipeline \in {"unlocked", "deploying", "deployed", "encrypting", "failed"}
    /\ rows \subseteq Pair
    /\ careless \in BOOLEAN

\* Whatever is stored can be read with what the last deploy hands out, if the
\* operator waits for the errand between two rotations and does not deploy a key
\* without its id.  "Keeps the _old key as key" is for this.
Readable == ~careless => rows \subseteq target.ring

\* A VM that the deploy has not come to yet cannot read what others write with the
\* new key, and nothing else is beyond it; once a deploy is done nothing is.
OnlyNewRowsUnread ==
    ~careless =>
        \A i \in Instance :
            /\ rows \ config[i].ring \subseteq {target.writes}
            /\ pipeline \in {"deployed", "encrypting", "unlocked"} => rows \subseteq config[i].ring

\* No row stays encrypted with a key that was rotated out: the next runs of the
\* pipeline encrypt it again, although jobs fail and VMs go on writing.
KeyRetired ==
    [](~careless) =>
        \A k \in 1 .. MaxKey :
            (key > k /\ id > k) ~> [](\A row \in rows : row[2] > k)
================================================================================
