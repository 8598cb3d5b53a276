---------------------------- MODULE CertRotation ----------------------------
(***************************************************************************)
(* The rotation of the certificates that the VMs of the platform use with  *)
(* each other: what CredHub holds, one pass of the three ca-rotation       *)
(* scripts per pipeline run, and the BOSH deploys that hand CredHub's      *)
(* values to the instances one by one.                                     *)
(*                                                                         *)
(* Versions of a certificate are numbered in the order they were made,     *)
(* which is also the order in which they expire.  A credential is modelled *)
(* by what rotation depends on: who signed it, which version of the signer *)
(* it was signed with, and which versions CredHub calls current.           *)
(***************************************************************************)
EXTENDS Integers, FiniteSets

CONSTANTS
    Cert,                    \* the certificates CredHub lists, _old ones excepted
    SignedBy,                \* the signed_by field: a root signs itself
    Instance,                \* the VMs that talk to each other
    MaxAged,                 \* BOUND: how many versions of a certificate grow old
    CrashWhileRegenerating   \* may the job die after it moved a flag and before
                             \* it regenerated every certificate of that CA?

Root == {c \in Cert : SignedBy[c] = c}
Signed == Cert \ Root
Signs(c) == {l \in Signed : SignedBy[l] = c}
Intermediate == {c \in Signed : Signs(c) # {}}

ASSUME RotationAssumption ==
    /\ SignedBy \in [Cert -> Cert]
    /\ MaxAged \in Nat
    /\ CrashWhileRegenerating \in BOOLEAN

VARIABLES
    versions,    \* CredHub: how many versions of each certificate exist
    flag,        \* CredHub: the version that is flagged transitional, 0 for none
    signer,      \* CredHub: which version of its CA signed a certificate's current version
    aged,        \* versions 1..aged[c] of c expire within EXPIRY_DAYS
    config,      \* per instance, the CredHub values of its last deploy
    target,      \* the values the running deploy hands out
    pipeline,    \* "unlocked", "deploying", "deployed", "rotating", "failed"
    stage,       \* the running script: "remove", "move", "leaves", "set", "check", "off"
    todo,        \* certificates the running loop has not reached
    pending,     \* certificates of the CA just moved, still to be regenerated
    regenerated, \* regenerated_certificate_names of the move script
    hasty        \* history: since the last complete deploy, has a pass begun on
                 \* VMs that do not have what CredHub holds?

credhub == <<versions, flag, signer>>
job == <<stage, todo, pending, regenerated>>
vars == <<credhub, aged, config, target, pipeline, job, hasty>>

-------------------------------------------------------------------------------
(* CredHub.                                                                 *)

\* The current version is the newest that is not transitional; a lookup with
\* current=true returns it and the transitional one.
Current(c) == IF flag[c] = versions[c] THEN versions[c] - 1 ELSE versions[c]
Active(c) == {Current(c)} \union ({flag[c]} \ {0})
NewestIsTransitional(c) == flag[c] = versions[c]
Expiring(c) == Current(c) <= aged[c]

\* What an instance deployed now gets: for each certificate it presents, the
\* version of the CA that signed it; for each CA, the versions it trusts (the
\* .ca of a certificate is all active versions of its signer).
View == [signedWith |-> signer, trusts |-> [c \in Cert |-> Active(c)]]

\* `credhub regenerate`: a new version, signed with the CA's current version.
Regenerate(l) ==
    /\ versions' = [versions EXCEPT ![l] = @ + 1]
    /\ signer' = [signer EXCEPT ![l] = Current(SignedBy[l])]
    /\ UNCHANGED flag

Init ==
    /\ versions = [c \in Cert |-> 1]
    /\ flag = [c \in Cert |-> 0]
    /\ signer = [l \in Signed |-> 1]
    /\ aged = [c \in Cert |-> 0]
    /\ config = [i \in Instance |-> View]
    /\ target = View
    /\ pipeline = "unlocked"
    /\ stage = "off" /\ todo = {} /\ pending = {} /\ regenerated = {}
    /\ hasty = FALSE

\* Time passes: the oldest version that is not yet within EXPIRY_DAYS gets there.
Age(c) ==
    /\ aged[c] < versions[c]
    /\ aged[c] < MaxAged
    /\ aged' = [aged EXCEPT ![c] = @ + 1]
    /\ UNCHANGED <<credhub, config, target, pipeline, job, hasty>>

-------------------------------------------------------------------------------
(* The pipeline: deploy, test, rotate; a failed run is started again from   *)
(* the beginning after an operator has released its lock.                   *)

\* Deviation: no pipeline lock, so a run can start while the last one rotates.
X_StartDeploy ==
    /\ pipeline # "deploying"
    /\ pipeline' = "deploying"
    /\ target' = View
    /\ UNCHANGED <<credhub, aged, config, job, hasty>>

\* BOSH resolves the variables of the manifest when the deploy starts.  The
\* pipeline lock keeps a new run out until the last one has rotated or failed.
StartDeploy ==
    /\ pipeline \in {"unlocked", "failed"}
    /\ pipeline' = "deploying"
    /\ target' = View
    /\ UNCHANGED <<credhub, aged, config, job, hasty>>

UpdateInstance(i) ==
    /\ pipeline = "deploying"
    /\ config[i] # target
    /\ config' = [config EXCEPT ![i] = target]
    /\ UNCHANGED <<credhub, aged, target, pipeline, job, hasty>>

DeployDone ==
    /\ pipeline = "deploying"
    /\ \A i \in Instance : config[i] = target
    /\ pipeline' = "deployed"
    /\ hasty' = FALSE
    /\ UNCHANGED <<credhub, aged, config, target, job>>

\* A deploy that stops half way, or tests that fail after it.
DeployFails ==
    /\ pipeline \in {"deploying", "deployed"}
    /\ pipeline' = "failed"
    /\ UNCHANGED <<credhub, aged, config, target, job, hasty>>

\* No VM presents a certificate CredHub has replaced, and every VM trusts all the
\* versions CredHub calls current.
Handed ==
    \A i \in Instance :
        /\ config[i].signedWith = signer
        /\ \A c \in Root : Active(c) \subseteq config[i].trusts[c]

BeginPass ==
    /\ pipeline' = "rotating"
    /\ stage' = "remove" /\ todo' = Root
    /\ hasty' = (hasty \/ ~Handed)
    /\ UNCHANGED <<credhub, aged, config, target, pending, regenerated>>

\* rotate-certs, triggered by the run whose tests have all passed.
StartRotation == pipeline = "deployed" /\ BeginPass

\* rotate-certs is an ordinary job: an operator can start it again, for the last run
\* that passed the tests, after it failed or succeeded, with no deploy in between.
StartRotationAgain == pipeline \in {"unlocked", "failed"} /\ BeginPass

-------------------------------------------------------------------------------
(* The scripts.  Each loop takes the certificates in CredHub's order, which *)
(* is any order here.                                                       *)

Visit(s, c) == stage = s /\ c \in todo /\ pending = {} /\ todo' = todo \ {c}

\* Deviation: the flag is removed in whatever step of the rotation the CA is.
X_RemoveTransitional(c) ==
    /\ Visit("remove", c)
    /\ flag' = [flag EXCEPT ![c] = 0]
    /\ UNCHANGED <<versions, signer, aged, config, target, pipeline, stage,
                   pending, regenerated, hasty>>

\* ca-rotation-remove-transitional.rb
RemoveTransitional(c) ==
    /\ Visit("remove", c)
    /\ IF flag[c] # 0 /\ ~NewestIsTransitional(c)
       THEN flag' = [flag EXCEPT ![c] = 0]
       ELSE UNCHANGED flag
    /\ UNCHANGED <<versions, signer, aged, config, target, pipeline, stage,
                   pending, regenerated, hasty>>

\* Deviation: the flag goes one version too far back.
X_MoveTransitional(c) ==
    /\ Visit("move", c)
    /\ IF flag[c] # 0 /\ NewestIsTransitional(c)
       THEN /\ flag' = [flag EXCEPT ![c] = Current(c) - 1]
            /\ pending' = Signs(c)
       ELSE UNCHANGED <<flag, pending>>
    /\ UNCHANGED <<versions, signer, aged, config, target, pipeline, stage, regenerated, hasty>>

\* Deviation: only the certificates that expire are regenerated.
X_MoveForExpiring(c) ==
    /\ Visit("move", c)
    /\ IF flag[c] # 0 /\ NewestIsTransitional(c)
       THEN /\ flag' = [flag EXCEPT ![c] = Current(c)]
            /\ pending' = {l \in Signs(c) : Expiring(l)}
       ELSE UNCHANGED <<flag, pending>>
    /\ UNCHANGED <<versions, signer, aged, config, target, pipeline, stage, regenerated, hasty>>

\* ca-rotation-move-transitional.rb, the loop over CAs: the flag goes to the
\* older version, and everything the CA signs is regenerated after that.
MoveTransitional(c) ==
    /\ Visit("move", c)
    /\ IF flag[c] # 0 /\ NewestIsTransitional(c)
       THEN /\ flag' = [flag EXCEPT ![c] = Current(c)]
            /\ pending' = Signs(c)
       ELSE UNCHANGED <<flag, pending>>
    /\ UNCHANGED <<versions, signer, aged, config, target, pipeline, stage, regenerated, hasty>>

\* One of the certificates the moved CA signs.  cert["signs"] lists names, so
\* the test for leaf["signs"] finds nothing and intermediate CAs are not spared.
RegenerateSigned(l) ==
    /\ l \in pending
    /\ Regenerate(l)
    /\ pending' = pending \ {l}
    /\ regenerated' = regenerated \union {l}
    /\ UNCHANGED <<aged, config, target, pipeline, stage, todo, hasty>>

\* ca-rotation-move-transitional.rb, the loop over the others.
RegenerateExpiring(l) ==
    /\ Visit("leaves", l)
    /\ IF flag[l] = 0 /\ Expiring(l) /\ l \notin regenerated
       THEN Regenerate(l) /\ regenerated' = regenerated \union {l}
       ELSE UNCHANGED <<credhub, regenerated>>
    /\ UNCHANGED <<aged, config, target, pipeline, stage, pending, hasty>>

\* Deviation: counts all the versions a CA ever had, not the active ones.
X_SetTransitional(c) ==
    /\ Visit("set", c)
    /\ IF versions[c] = 1 /\ Expiring(c)
       THEN /\ versions' = [versions EXCEPT ![c] = @ + 1]
            /\ flag' = [flag EXCEPT ![c] = versions[c] + 1]
       ELSE UNCHANGED <<versions, flag>>
    /\ UNCHANGED <<signer, aged, config, target, pipeline, stage, pending, regenerated, hasty>>

\* ca-rotation-set-transitional.rb
SetTransitional(c) ==
    /\ Visit("set", c)
    /\ IF flag[c] = 0 /\ Expiring(c)
       THEN /\ versions' = [versions EXCEPT ![c] = @ + 1]
            /\ flag' = [flag EXCEPT ![c] = versions[c] + 1]
       ELSE UNCHANGED <<versions, flag>>
    /\ UNCHANGED <<signer, aged, config, target, pipeline, stage, pending, regenerated, hasty>>

\* Deviation: the three tasks run in another order, and a CA is put to use in the
\* pass that made it.
X_NextLoop(s) ==
    [remove |-> "set", set |-> "move", move |-> "leaves", leaves |-> "check"][s]

\* A loop is done and the next one starts.
NextLoop(s) ==
    [remove |-> "move", move |-> "leaves", leaves |-> "set", set |-> "check"][s]

LoopOver(s) == IF s = "check" THEN {} ELSE IF s = "leaves" THEN Signed ELSE Root

LoopDone ==
    /\ stage \in {"remove", "move", "leaves", "set"}
    /\ todo = {} /\ pending = {}
    /\ stage' = NextLoop(stage)
    /\ todo' = LoopOver(NextLoop(stage))
    /\ regenerated' = IF stage = "leaves" THEN {} ELSE regenerated
    /\ UNCHANGED <<credhub, aged, config, target, pipeline, pending, hasty>>

\* check-certificates-after-rotation: check-certificates.rb fails for a live
\* certificate that expires within 15 days, and for one that the first CA in its
\* .ca does not verify (which of the active versions CredHub puts first decides
\* that for an orphan); check-certificate-hierarchy.rb fails unless the depth is 2.
Orphaned == {l \in Signed : signer[l] # Current(SignedBy[l])}

CheckCertificates ==
    /\ stage = "check"
    /\ stage' = "off"
    /\ pipeline' \in {"unlocked", "failed"}
    /\ Intermediate # {} => pipeline' = "failed"
    /\ pipeline' = "failed" =>
          \/ Intermediate # {} \/ Orphaned # {}
          \/ \E c \in Cert : \E v \in Active(c) : v <= aged[c]
    /\ UNCHANGED <<credhub, aged, config, target, todo, pending, regenerated, hasty>>

\* A call to CredHub fails, or the job dies: the scripts raise and nothing is undone.
JobDies ==
    /\ pipeline = "rotating"
    /\ pending # {} => CrashWhileRegenerating
    /\ pipeline' = "failed"
    /\ stage' = "off" /\ todo' = {} /\ pending' = {} /\ regenerated' = {}
    /\ UNCHANGED <<credhub, aged, config, target, hasty>>

-------------------------------------------------------------------------------
Deploy ==
    \/ StartDeploy \/ DeployDone \/ StartRotation
    \/ \E i \in Instance : UpdateInstance(i)

Script ==
    \/ \E c \in Cert :
          \/ RemoveTransitional(c) \/ MoveTransitional(c) \/ SetTransitional(c)
          \/ RegenerateSigned(c) \/ RegenerateExpiring(c)
    \/ LoopDone \/ CheckCertificates

PipelineStep ==
    \/ Deploy \/ Script \/ DeployFails \/ JobDies
    \/ \E c \in Cert : Age(c)

Next == PipelineStep \/ StartRotationAgain

Spec == Init /\ [][Next]_vars

\* The pipeline is run again and again (a failed run is started again, as
\* check-certificates.rb tells operators to), its jobs make progress, and from
\* some time on they stop failing and nobody starts rotate-certs alone.
Fairness ==
    /\ WF_vars(Deploy) /\ WF_vars(Script)
    /\ <>[][~(DeployFails \/ JobDies \/ StartRotationAgain)]_vars

FairSpec == Spec /\ Fairness

\* The same where operators only ever run the whole pipeline again.
PipelineSpec == Init /\ [][PipelineStep]_vars /\ Fairness

-------------------------------------------------------------------------------
(* Properties.                                                              *)

\* The types of the variables; a CA has at most one transitional version, the
\* newest or the one before it.
TypeOK ==
    /\ versions \in [Cert -> Nat \ {0}]
    /\ flag \in [Cert -> Nat]
    /\ \A c \in Cert : flag[c] \in {0, versions[c] - 1, versions[c]} /\ Current(c) >= 1
    /\ \A l \in Signed : flag[l] = 0
    /\ signer \in [Signed -> Nat]
    /\ aged \in [Cert -> Nat]
    /\ config \in [Instance -> [signedWith : [Signed -> Nat], trusts : [Cert -> SUBSET Nat]]]
    /\ target \in [signedWith : [Signed -> Nat], trusts : [Cert -> SUBSET Nat]]
    /\ pipeline \in {"unlocked", "deploying", "deployed", "rotating", "failed"}
    /\ stage \in {"off", "remove", "move", "leaves", "set", "check"}
    /\ todo \in SUBSET LoopOver(stage)
    /\ pending \in SUBSET Signed
    /\ regenerated \in SUBSET Signed
    /\ hasty \in BOOLEAN

\* Every VM accepts the certificates of every other, at every moment of every
\* deploy, also of one that stopped half way: no rolling update ever mixes a
\* certificate with a VM that does not trust its CA version.  A pass of rotate-certs
\* that begins before the VMs have what the last one made voids that, until a deploy
\* has reached every VM again; repeating a pass that only removed flags does not.
Trust ==
    ~hasty => \A i, j \in Instance : \A l \in Signed :
                  config[i].signedWith[l] \in config[j].trusts[SignedBy[l]]

\* Nothing is left behind signed with a version of its CA that is no longer
\* current, except what the running job is about to regenerate: the move script
\* regenerates all that the CA signs, and check-certificates.rb:36-55 looks for it.
NoOrphans == Orphaned \subseteq pending

\* A CA version signs nothing before every VM trusts it, unless a hasty pass does it.
TrustedBeforeUse ==
    [][~hasty => \A l \in Signed : signer'[l] # signer[l] =>
          \A i \in Instance : signer'[l] \in config[i].trusts[SignedBy[l]]]_vars

\* CredHub keeps handing out a CA version as trusted as long as any VM still
\* presents a certificate signed with it, unless a hasty pass retires it.
RetiredAfterUse ==
    [][~hasty => \A c \in Root : \A v \in Active(c) \ Active(c)' :
          \A i \in Instance : \A l \in Signs(c) : config[i].signedWith[l] # v]_vars

\* A CA that is about to expire is eventually trusted by no VM, and a
\* certificate that is about to expire is eventually replaced: the pipeline,
\* run often enough, completes every rotation.
RotationCompletes ==
    /\ \A c \in Root, v \in 1..MaxAged :
          (v <= aged[c]) ~> (\A i \in Instance : v \notin config[i].trusts[c])
    /\ \A l \in Signed, v \in 1..MaxAged : (v <= aged[l]) ~> (versions[l] > v)

\* Running the pipeline again from the beginning completes a rotation that a
\* failed run left unfinished (check-certificates.rb:77-81): no certificate stays
\* signed with a retired version of its CA.
RerunCompletes == (pipeline = "failed") ~> (Orphaned = {})
===============================================================================
