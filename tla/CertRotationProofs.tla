-------------------------- MODULE CertRotationProofs --------------------------
(***************************************************************************)
(* What CertRotation promises, for any number of CAs, certificates, VMs    *)
(* and generations: with a hierarchy of two levels, as long as no job dies  *)
(* between the move of a flag and the regenerations that follow it and no   *)
(* pass begins on VMs that lack what the last one made, no deploy ever      *)
(* mixes VMs that do not trust each other.                                  *)
(***************************************************************************)
EXTENDS CertRotation, TLAPS

-------------------------------------------------------------------------------
(* Types.                                                                   *)

Config == [signedWith : [Signed -> Nat], trusts : [Cert -> SUBSET Nat]]

LEMMA ConfigType == ASSUME TypeOK PROVE View \in Config
  <1>1. ASSUME NEW c \in Cert PROVE Active(c) \in SUBSET Nat
    BY DEF TypeOK, Active, Current
  <1>2. [c \in Cert |-> Active(c)] \in [Cert -> SUBSET Nat]
    BY <1>1
  <1>3. signer \in [Signed -> Nat]
    BY DEF TypeOK
  <1> QED BY <1>2, <1>3 DEF View, Config

\* A regeneration keeps the types of what CredHub holds.
LEMMA RegenerateTypes ==
  ASSUME TypeOK, NEW l \in Signed, Regenerate(l)
  PROVE  /\ versions' \in [Cert -> Nat \ {0}]
         /\ flag' \in [Cert -> Nat]
         /\ \A c \in Cert : flag'[c] \in {0, versions'[c] - 1, versions'[c]} /\ Current(c)' >= 1
         /\ \A m \in Signed : flag'[m] = 0
         /\ signer' \in [Signed -> Nat]
  <1>1. l \in Cert /\ SignedBy[l] \in Cert
    BY RotationAssumption DEF Signed
  <1>2. Current(SignedBy[l]) \in Nat
    BY <1>1 DEF TypeOK, Current
  <1>3. flag[l] = 0
    BY DEF TypeOK
  <1>4. versions' \in [Cert -> Nat \ {0}]
    BY <1>1 DEF TypeOK, Regenerate
  <1>5. ASSUME NEW c \in Cert
        PROVE  flag'[c] \in {0, versions'[c] - 1, versions'[c]} /\ Current(c)' >= 1
    <2>1. CASE c = l
      BY <1>1, <1>3, <2>1 DEF TypeOK, Regenerate, Current
    <2>2. CASE c # l
      BY <1>1, <2>2 DEF TypeOK, Regenerate, Current
    <2> QED BY <2>1, <2>2
  <1> QED BY <1>1, <1>2, <1>4, <1>5 DEF TypeOK, Regenerate

LEMMA TypeStep == ASSUME TypeOK, [Next]_vars PROVE TypeOK'
  <1> USE RotationAssumption
  <1>1. ASSUME StartDeploy PROVE TypeOK'
    <2>1. target' \in Config
      BY <1>1, ConfigType DEF StartDeploy
    <2> QED BY <1>1, <2>1 DEF TypeOK, StartDeploy, Config, Current, credhub, job
  <1>2. ASSUME DeployDone \/ DeployFails \/ (\E c \in Cert : Age(c)) \/ JobDies PROVE TypeOK'
    <2>1. aged' \in [Cert -> Nat]
      BY <1>2 DEF TypeOK, DeployDone, DeployFails, Age, JobDies
    <2>2. hasty' \in BOOLEAN
      BY <1>2 DEF TypeOK, DeployDone, DeployFails, Age, JobDies
    <2> QED BY <1>2, <2>1, <2>2
            DEF TypeOK, DeployDone, DeployFails, Age, JobDies, Current, credhub, job
  <1>3. ASSUME StartRotation \/ StartRotationAgain PROVE TypeOK'
    <2> USE DEF StartRotation, StartRotationAgain, BeginPass
    <2>1. todo' \in SUBSET LoopOver(stage')
      BY <1>3 DEF LoopOver
    <2>2. hasty' \in BOOLEAN
      BY <1>3 DEF TypeOK
    <2> QED BY <1>3, <2>1, <2>2 DEF TypeOK, Current, credhub
  <1>4. ASSUME NEW i \in Instance, UpdateInstance(i) PROVE TypeOK'
    <2>1. config' \in [Instance -> Config]
      BY <1>4 DEF TypeOK, UpdateInstance, Config
    <2> QED BY <1>4, <2>1 DEF TypeOK, UpdateInstance, Config, Current, credhub, job
  <1>5. ASSUME NEW c \in Cert, RemoveTransitional(c) \/ MoveTransitional(c) \/ SetTransitional(c)
        PROVE  TypeOK'
    <2>1. c \in Root /\ c \notin Signed
      BY <1>5 DEF TypeOK, RemoveTransitional, MoveTransitional, SetTransitional, Visit,
                  LoopOver, Signed
    <2>2. /\ versions' \in [Cert -> Nat \ {0}]
          /\ flag' \in [Cert -> Nat]
      <3>1. CASE RemoveTransitional(c)
        BY <3>1 DEF TypeOK, RemoveTransitional
      <3>2. CASE MoveTransitional(c)
        BY <3>2 DEF TypeOK, MoveTransitional, Current
      <3>3. CASE SetTransitional(c)
        <4>1. CASE flag[c] = 0 /\ Expiring(c)
          BY <3>3, <4>1 DEF TypeOK, SetTransitional
        <4>2. CASE ~(flag[c] = 0 /\ Expiring(c))
          BY <3>3, <4>2 DEF TypeOK, SetTransitional
        <4> QED BY <4>1, <4>2
      <3> QED BY <1>5, <3>1, <3>2, <3>3
    <2>5. ASSUME NEW d \in Cert
          PROVE  flag'[d] \in {0, versions'[d] - 1, versions'[d]} /\ Current(d)' >= 1
      <3>1. CASE d # c
        <4>1. versions'[d] = versions[d] /\ flag'[d] = flag[d]
          BY <1>5, <3>1 DEF TypeOK, RemoveTransitional, MoveTransitional, SetTransitional
        <4> QED BY <4>1 DEF TypeOK, Current
      <3>2. CASE d = c /\ versions'[c] = versions[c] /\ flag'[c] = flag[c]
        BY <3>2 DEF TypeOK, Current
      <3>3. CASE d = c /\ versions'[c] = versions[c] /\ flag'[c] = 0
        BY <3>3 DEF TypeOK, Current
      <3>4. CASE /\ d = c /\ versions'[c] = versions[c]
                 /\ flag[c] = versions[c] /\ flag'[c] = Current(c)
        BY <3>4 DEF TypeOK, Current
      <3>5. CASE /\ d = c /\ versions'[c] = versions[c] + 1
                 /\ flag[c] = 0 /\ flag'[c] = versions[c] + 1
        BY <3>5 DEF TypeOK, Current
      <3>6. \/ versions'[c] = versions[c] /\ flag'[c] = flag[c]
            \/ versions'[c] = versions[c] /\ flag'[c] = 0
            \/ versions'[c] = versions[c] /\ flag[c] = versions[c] /\ flag'[c] = Current(c)
            \/ versions'[c] = versions[c] + 1 /\ flag[c] = 0 /\ flag'[c] = versions[c] + 1
        BY <1>5 DEF TypeOK, RemoveTransitional, MoveTransitional, SetTransitional,
                    NewestIsTransitional
      <3> QED BY <3>1, <3>2, <3>3, <3>4, <3>5, <3>6
    <2>3. \A l \in Signed : flag'[l] = 0
      BY <1>5, <2>1 DEF TypeOK, RemoveTransitional, MoveTransitional, SetTransitional, Signed
    <2>4. /\ todo' \in SUBSET LoopOver(stage')
          /\ pending' \in SUBSET Signed
      BY <1>5 DEF TypeOK, RemoveTransitional, MoveTransitional, SetTransitional, Visit, Signs
    <2> QED BY <1>5, <2>2, <2>3, <2>4, <2>5
            DEF TypeOK, RemoveTransitional, MoveTransitional, SetTransitional
  <1>6. ASSUME NEW l \in Cert, RegenerateSigned(l) PROVE TypeOK'
    <2>1. l \in Signed
      BY <1>6 DEF TypeOK, RegenerateSigned
    <2>2. Regenerate(l)
      BY <1>6 DEF RegenerateSigned
    <2> QED BY <1>6, <2>1, <2>2, RegenerateTypes DEF TypeOK, RegenerateSigned
  <1>7. ASSUME NEW l \in Cert, RegenerateExpiring(l) PROVE TypeOK'
    <2>1. l \in Signed
      BY <1>7 DEF TypeOK, RegenerateExpiring, Visit, LoopOver
    <2>2. CASE Regenerate(l)
      BY <1>7, <2>1, <2>2, RegenerateTypes DEF TypeOK, RegenerateExpiring, Visit
    <2>3. CASE UNCHANGED <<credhub, regenerated>>
      BY <1>7, <2>1, <2>3 DEF TypeOK, RegenerateExpiring, Visit, Current, credhub
    <2> QED BY <1>7, <2>2, <2>3 DEF RegenerateExpiring
  <1>8. ASSUME LoopDone PROVE TypeOK'
    <2>1. stage' \in {"move", "leaves", "set", "check"}
      BY <1>8 DEF LoopDone, NextLoop
    <2>2. todo' = LoopOver(stage')
      BY <1>8 DEF LoopDone
    <2> QED BY <1>8, <2>1, <2>2 DEF TypeOK, LoopDone, Current, credhub
  <1>9. ASSUME CheckCertificates PROVE TypeOK'
    <2>1. todo' = {}
      BY <1>9 DEF TypeOK, CheckCertificates, LoopOver
    <2> QED BY <1>9, <2>1 DEF TypeOK, CheckCertificates, Current, credhub
  <1>10. ASSUME UNCHANGED vars PROVE TypeOK'
    BY <1>10 DEF TypeOK, vars, Current, credhub, job
  <1> QED BY <1>1, <1>2, <1>3, <1>4, <1>5, <1>6, <1>7, <1>8, <1>9, <1>10 DEF Next, PipelineStep, Deploy, Script

LEMMA TypeInit == ASSUME Init PROVE TypeOK
  <1> USE RotationAssumption
  <1>1. /\ versions = [c \in Cert |-> 1] /\ flag = [c \in Cert |-> 0]
        /\ signer \in [Signed -> Nat] /\ aged \in [Cert -> Nat]
    BY DEF Init
  <1>2. \A c \in Cert : Current(c) = 1 /\ Active(c) = {1}
    BY <1>1 DEF Current, Active
  <1>3. View \in Config
    BY <1>1, <1>2 DEF View, Config
  <1>4. \A l \in Signed : l \in Cert
    BY DEF Signed
  <1>5. hasty \in BOOLEAN
    BY DEF Init
  <1>6. config \in [Instance -> Config] /\ target \in Config
    BY <1>3 DEF Init
  <1>7. todo \in SUBSET LoopOver(stage)
    BY DEF Init
  <1> QED BY <1>1, <1>2, <1>4, <1>5, <1>6, <1>7 DEF Init, TypeOK, Config

\* The variables keep their types, and every CA has at most one transitional
\* version, which is the newest or the one before it.
THEOREM TypeCorrect == Spec => []TypeOK
  <1> QED BY TypeInit, TypeStep, PTL DEF Spec

-------------------------------------------------------------------------------
(* The inductive invariant.                                                 *)

\* Scripts run in a rotating pipeline only; what is pending is the move loop's.
StagesMatch ==
    /\ pipeline = "rotating" <=> stage # "off"
    /\ pending # {} => stage = "move"

\* VMs trust each other, and would also trust and be trusted by a VM that is
\* deployed with what CredHub holds now.
Compatible ==
    \A l \in Signed :
        /\ \A i, j \in Instance : config[i].signedWith[l] \in config[j].trusts[SignedBy[l]]
        /\ \A i \in Instance : /\ signer[l] \in config[i].trusts[SignedBy[l]]
                               /\ config[i].signedWith[l] \in Active(SignedBy[l])
        /\ signer[l] \in Active(SignedBy[l])

\* A deploy hands out what CredHub holds, and a deployed platform has it.
DeployIsCurrent ==
    /\ pipeline = "deploying" => target = View
    /\ pipeline = "deployed" => ~hasty /\ \A i \in Instance : config[i] = View

\* Until a pass makes a new CA version, every VM trusts all there are.
AllTrusted ==
    stage \in {"remove", "move", "leaves"} =>
        \A i \in Instance : \A c \in Root : Active(c) \subseteq config[i].trusts[c]

\* Until a pass regenerates something, every VM presents what CredHub holds.
AllPresented ==
    stage = "remove" => \A i \in Instance : config[i].signedWith = signer

Careful == Compatible /\ AllTrusted /\ AllPresented

\* A hasty pass costs everything but what the scripts and the deploys guarantee by
\* themselves, and that suffices for the next complete deploy to bring it back.
IInv == /\ TypeOK /\ StagesMatch /\ NoOrphans /\ DeployIsCurrent
        /\ ~hasty => Careful

\* The assumptions of the proofs: no intermediate CAs, and a job that has moved a
\* flag gets to regenerate what the CA signs.
Orderly == Intermediate = {} /\ ~CrashWhileRegenerating

LEMMA SignerIsRoot == ASSUME Orderly, NEW l \in Signed PROVE SignedBy[l] \in Root
  BY RotationAssumption DEF Orderly, Intermediate, Signs, Signed

-------------------------------------------------------------------------------
(* Steps that leave CredHub alone.                                          *)

LEMMA SameCredHub ==
  ASSUME UNCHANGED credhub
  PROVE  /\ View' = View
         /\ \A c \in Cert : Active(c)' = Active(c) /\ Current(c)' = Current(c)
         /\ Orphaned' = Orphaned
  <1>1. versions' = versions /\ flag' = flag /\ signer' = signer
    BY DEF credhub
  <1> QED BY <1>1 DEF View, Active, Current, Orphaned

\* VMs that all have what CredHub holds trust each other.
LEMMA DeployedIsCareful ==
  ASSUME Orderly, IInv, pipeline = "deploying", \A i \in Instance : config[i] = View
  PROVE  Careful
  <1>1. stage = "off" /\ pending = {}
    BY DEF IInv, StagesMatch
  <1>2. ASSUME NEW l \in Signed
        PROVE  /\ signer[l] \in Active(SignedBy[l])
               /\ \A i \in Instance : /\ config[i].signedWith[l] = signer[l]
                                      /\ config[i].trusts[SignedBy[l]] = Active(SignedBy[l])
    <2>1. signer[l] \in Active(SignedBy[l])
      BY <1>1, <1>2 DEF IInv, NoOrphans, Orphaned, Active
    <2>2. SignedBy[l] \in Cert
      BY RotationAssumption, <1>2 DEF Signed
    <2>3. View.signedWith = signer /\ View.trusts[SignedBy[l]] = Active(SignedBy[l])
      BY <2>2 DEF View
    <2> QED BY <2>1, <2>3
  <1>3. Compatible
    BY <1>2 DEF Compatible
  <1> QED BY <1>1, <1>3 DEF Careful, AllTrusted, AllPresented

\* A deploy that reaches one more VM mixes the old with the new.
LEMMA UpdateIsCareful ==
  ASSUME Orderly, IInv, ~hasty, NEW k \in Instance, UpdateInstance(k)
  PROVE  Careful'
  <1>1. /\ pipeline = "deploying" /\ stage' = stage /\ target = View
        /\ config' = [config EXCEPT ![k] = View]
    BY DEF UpdateInstance, IInv, DeployIsCurrent, job
  <1>2. stage' = "off"
    BY <1>1 DEF IInv, StagesMatch
  <1>3. /\ signer' = signer
        /\ \A c \in Cert : Active(c)' = Active(c)
    BY SameCredHub DEF UpdateInstance, credhub
  <1>4. Compatible'
    <2> SUFFICES ASSUME NEW l \in Signed
                 PROVE  /\ \A i, j \in Instance :
                              config'[i].signedWith[l] \in config'[j].trusts[SignedBy[l]]
                        /\ \A i \in Instance :
                              /\ signer'[l] \in config'[i].trusts[SignedBy[l]]
                              /\ config'[i].signedWith[l] \in Active(SignedBy[l])'
                        /\ signer'[l] \in Active(SignedBy[l])'
      BY DEF Compatible
    <2>1. SignedBy[l] \in Cert
      BY RotationAssumption DEF Signed
    <2>2. View.signedWith[l] = signer[l] /\ View.trusts[SignedBy[l]] = Active(SignedBy[l])
      BY <2>1 DEF View
    <2>3. \A i \in Instance : config'[i] = config[i] \/ config'[i] = View
      BY <1>1 DEF IInv, TypeOK
    <2>4. \A i \in Instance :
             /\ config'[i].signedWith[l] \in {config[i].signedWith[l], signer[l]}
             /\ config'[i].trusts[SignedBy[l]] \in
                   {config[i].trusts[SignedBy[l]], Active(SignedBy[l])}
      BY <2>2, <2>3
    <2>5. \A i, j \in Instance :
             config'[i].signedWith[l] \in config'[j].trusts[SignedBy[l]]
      BY <2>4 DEF IInv, Careful, Compatible
    <2>6. \A i \in Instance : /\ signer[l] \in config'[i].trusts[SignedBy[l]]
                              /\ config'[i].signedWith[l] \in Active(SignedBy[l])
      BY <2>4 DEF IInv, Careful, Compatible
    <2> QED BY <1>3, <2>1, <2>5, <2>6 DEF IInv, Careful, Compatible
  <1> QED BY <1>2, <1>4 DEF Careful, AllTrusted, AllPresented

\* A step that changes neither CredHub nor a VM and begins no pass.
LEMMA SameIsCareful ==
  ASSUME Orderly, Careful, UNCHANGED <<credhub, config>>,
         stage' = "remove" => stage = "remove",
         stage' \in {"remove", "move", "leaves"} => stage \in {"remove", "move", "leaves"}
  PROVE  Careful'
  <1>1. /\ signer' = signer /\ config' = config
        /\ \A c \in Cert : Active(c)' = Active(c)
    BY SameCredHub DEF credhub
  <1>2. Compatible'
    <2> SUFFICES ASSUME NEW l \in Signed
                 PROVE  /\ \A i, j \in Instance :
                              config'[i].signedWith[l] \in config'[j].trusts[SignedBy[l]]
                        /\ \A i \in Instance :
                              /\ signer'[l] \in config'[i].trusts[SignedBy[l]]
                              /\ config'[i].signedWith[l] \in Active(SignedBy[l])'
                        /\ signer'[l] \in Active(SignedBy[l])'
      BY DEF Compatible
    <2>1. SignedBy[l] \in Cert
      BY RotationAssumption DEF Signed
    <2> QED BY <1>1, <2>1 DEF Careful, Compatible
  <1>3. AllTrusted' /\ AllPresented'
    BY <1>1 DEF Careful, AllTrusted, AllPresented, Root
  <1> QED BY <1>2, <1>3 DEF Careful

\* A pass begins with care where the VMs have what CredHub holds.
LEMMA BeginsWithCare ==
  ASSUME Orderly, Compatible, Handed, UNCHANGED <<credhub, config>>
  PROVE  Careful'
  <1>1. /\ signer' = signer /\ config' = config
        /\ \A c \in Cert : Active(c)' = Active(c)
    BY SameCredHub DEF credhub
  <1>2. Compatible'
    <2> SUFFICES ASSUME NEW l \in Signed
                 PROVE  /\ \A i, j \in Instance :
                              config'[i].signedWith[l] \in config'[j].trusts[SignedBy[l]]
                        /\ \A i \in Instance :
                              /\ signer'[l] \in config'[i].trusts[SignedBy[l]]
                              /\ config'[i].signedWith[l] \in Active(SignedBy[l])'
                        /\ signer'[l] \in Active(SignedBy[l])'
      BY DEF Compatible
    <2>1. SignedBy[l] \in Cert
      BY RotationAssumption DEF Signed
    <2> QED BY <1>1, <2>1 DEF Compatible
  <1>3. AllTrusted' /\ AllPresented'
    BY <1>1 DEF Handed, AllTrusted, AllPresented, Root
  <1> QED BY <1>2, <1>3 DEF Careful

LEMMA DeployStep ==
  ASSUME Orderly, IInv, TypeOK',
         \/ StartDeploy \/ DeployDone \/ DeployFails \/ StartRotation \/ StartRotationAgain
         \/ \E i \in Instance : UpdateInstance(i)
         \/ LoopDone \/ CheckCertificates \/ JobDies
         \/ \E c \in Cert : Age(c)
         \/ UNCHANGED vars
  PROVE  IInv'
  <1> USE DEF StartRotation, StartRotationAgain, BeginPass
  <1>1. UNCHANGED credhub
    BY DEF StartDeploy, DeployDone, DeployFails, UpdateInstance, LoopDone,
           CheckCertificates, JobDies, Age, vars
  <1>2. View' = View /\ Orphaned' = Orphaned
    BY <1>1, SameCredHub
  <1>3. StagesMatch'
    BY DEF IInv, TypeOK, StagesMatch, StartDeploy, DeployDone, DeployFails,
           UpdateInstance, LoopDone, NextLoop, CheckCertificates, JobDies, Age, vars, job
  <1>4. NoOrphans'
    <2>1. pending' = pending \/ pending = {}
      BY DEF Orderly, StartDeploy, DeployDone, DeployFails, UpdateInstance,
             LoopDone, CheckCertificates, JobDies, Age, vars, job
    <2> QED BY <1>2, <2>1 DEF IInv, NoOrphans
  <1>5. DeployIsCurrent'
    <2>1. CASE \E i \in Instance : UpdateInstance(i)
      BY <1>2, <2>1 DEF IInv, DeployIsCurrent, UpdateInstance
    <2>2. CASE ~\E i \in Instance : UpdateInstance(i)
      <3>1. config' = config
        BY <2>2 DEF StartDeploy, DeployDone, DeployFails, LoopDone, CheckCertificates,
                    JobDies, Age, vars
      <3> QED BY <1>2, <2>2, <3>1 DEF IInv, DeployIsCurrent, StartDeploy, DeployDone,
              DeployFails, LoopDone, CheckCertificates, JobDies, Age, vars, job
    <2> QED BY <2>1, <2>2
  <1>6. ~hasty' => Careful'
    <2>1. CASE DeployDone
      <3>1. pipeline = "deploying" /\ (\A i \in Instance : config[i] = View)
        BY <2>1 DEF DeployDone, IInv, DeployIsCurrent
      <3>2. Careful
        BY <3>1, DeployedIsCareful
      <3>3. UNCHANGED <<credhub, config>> /\ stage' = stage
        BY <2>1 DEF DeployDone, job
      <3> QED BY <3>2, <3>3, SameIsCareful
    <2>2. CASE StartRotation \/ StartRotationAgain
      <3>1. ~hasty' => Handed /\ Compatible /\ UNCHANGED <<credhub, config>>
        BY <2>2 DEF IInv, Careful
      <3> QED BY <3>1, BeginsWithCare
    <2>3. CASE \E i \in Instance : UpdateInstance(i)
      <3>1. hasty' = hasty
        BY <2>3 DEF UpdateInstance
      <3> QED BY <2>3, <3>1, UpdateIsCareful
    <2>4. CASE /\ ~DeployDone /\ ~StartRotation /\ ~StartRotationAgain
               /\ ~\E i \in Instance : UpdateInstance(i)
      <3>1. hasty' = hasty /\ config' = config
        BY <2>4 DEF StartDeploy, DeployFails, LoopDone, CheckCertificates, JobDies, Age, vars
      <3>2. /\ stage' = "remove" => stage = "remove"
            /\ stage' \in {"remove", "move", "leaves"} => stage \in {"remove", "move", "leaves"}
        BY <2>4 DEF IInv, TypeOK, StartDeploy, DeployFails, LoopDone, NextLoop,
                    CheckCertificates, JobDies, Age, vars, job
      <3> QED BY <1>1, <3>1, <3>2, SameIsCareful DEF IInv
    <2> QED BY <2>1, <2>2, <2>3, <2>4
  <1> QED BY <1>3, <1>4, <1>5, <1>6 DEF IInv

-------------------------------------------------------------------------------
(* The scripts.                                                             *)

\* A regenerated certificate is signed with a version that every VM trusts.
LEMMA RegenerateCompatible ==
  ASSUME Orderly, IInv, NEW l \in Signed, Regenerate(l), UNCHANGED config,
         stage \in {"move", "leaves"}
  PROVE  /\ ~hasty => Compatible'
         /\ \A c \in Root : Active(c)' = Active(c)
         /\ Orphaned' \subseteq Orphaned \ {l}
  <1>1. SignedBy[l] \in Root /\ SignedBy[l] \in Cert /\ l \in Cert
    BY SignerIsRoot DEF Root, Signed
  <1>2. \A c \in Root : c # l /\ c \in Cert
    BY DEF Root, Signed
  <1>3. /\ versions' = [versions EXCEPT ![l] = @ + 1]
        /\ signer' = [signer EXCEPT ![l] = Current(SignedBy[l])]
        /\ flag' = flag
    BY DEF Regenerate
  <1>4. \A c \in Root : versions'[c] = versions[c]
    BY <1>2, <1>3 DEF IInv, TypeOK
  <1>5. \A c \in Root : Active(c)' = Active(c) /\ Current(c)' = Current(c)
    BY <1>3, <1>4 DEF Active, Current
  <1>6. Current(SignedBy[l]) \in Active(SignedBy[l])
    BY DEF Active
  <1>7. ~hasty => \A i \in Instance : Current(SignedBy[l]) \in config[i].trusts[SignedBy[l]]
    BY <1>1, <1>6 DEF IInv, Careful, AllTrusted
  <1>8. signer'[l] = Current(SignedBy[l]) /\ \A m \in Signed \ {l} : signer'[m] = signer[m]
    BY <1>3 DEF IInv, TypeOK
  <1>9. ~hasty => Compatible'
    <2> SUFFICES ASSUME ~hasty, NEW m \in Signed
                 PROVE  /\ \A i, j \in Instance :
                              config'[i].signedWith[m] \in config'[j].trusts[SignedBy[m]]
                        /\ \A i \in Instance :
                              /\ signer'[m] \in config'[i].trusts[SignedBy[m]]
                              /\ config'[i].signedWith[m] \in Active(SignedBy[m])'
                        /\ signer'[m] \in Active(SignedBy[m])'
      BY DEF Compatible
    <2>1. Active(SignedBy[m])' = Active(SignedBy[m])
      BY <1>5, SignerIsRoot
    <2>2. CASE m = l
      BY <1>6, <1>7, <1>8, <2>1, <2>2 DEF IInv, Careful, Compatible
    <2>3. CASE m # l
      BY <1>8, <2>1, <2>3 DEF IInv, Careful, Compatible
    <2> QED BY <2>2, <2>3
  <1>10. Orphaned' \subseteq Orphaned \ {l}
    <2> SUFFICES ASSUME NEW m \in Signed, signer'[m] # Current(SignedBy[m])'
                 PROVE  m # l /\ signer[m] # Current(SignedBy[m])
      BY DEF Orphaned
    <2>1. Current(SignedBy[m])' = Current(SignedBy[m])
      BY <1>5, SignerIsRoot
    <2> QED BY <1>8, <2>1
  <1> QED BY <1>5, <1>9, <1>10

LEMMA RegenerateStep ==
  ASSUME Orderly, IInv, TypeOK', NEW l \in Cert, RegenerateSigned(l) \/ RegenerateExpiring(l)
  PROVE  IInv'
  <1>1. /\ l \in Signed /\ stage \in {"move", "leaves"} /\ stage' = stage
        /\ pipeline' = pipeline /\ config' = config /\ pipeline = "rotating"
        /\ RegenerateSigned(l) \/ pending = {}
        /\ pending' = pending \ {l} /\ hasty' = hasty
    BY DEF IInv, TypeOK, StagesMatch, RegenerateSigned, RegenerateExpiring, Visit, LoopOver
  <1>2. StagesMatch' /\ DeployIsCurrent' /\ AllPresented'
    BY <1>1 DEF IInv, StagesMatch, DeployIsCurrent, AllPresented
  <1>3. CASE Regenerate(l)
    <2>1. /\ ~hasty => Compatible'
          /\ \A c \in Root : Active(c)' = Active(c)
          /\ Orphaned' \subseteq Orphaned \ {l}
      BY <1>1, <1>3, RegenerateCompatible
    <2>2. NoOrphans'
      BY <1>1, <2>1 DEF IInv, NoOrphans
    <2>3. ~hasty => AllTrusted'
      BY <1>1, <2>1 DEF IInv, Careful, AllTrusted
    <2> QED BY <1>1, <1>2, <2>1, <2>2, <2>3 DEF IInv, Careful
  <1>4. CASE ~Regenerate(l)
    <2>1. UNCHANGED <<credhub, config, stage, pending>>
      BY <1>1, <1>4 DEF RegenerateSigned, RegenerateExpiring
    <2>2. NoOrphans'
      BY <2>1, SameCredHub DEF IInv, NoOrphans
    <2>3. ~hasty => Careful'
      BY <2>1, SameIsCareful DEF IInv
    <2> QED BY <1>1, <1>2, <2>2, <2>3 DEF IInv
  <1> QED BY <1>3, <1>4

\* What the three scripts do to a CA: they retire the old version, put the new one
\* to use, or make another, and leave every other CA alone.
LEMMA FlagSteps ==
  ASSUME IInv, NEW c \in Cert,
         RemoveTransitional(c) \/ MoveTransitional(c) \/ SetTransitional(c)
  PROVE  /\ c \in Root /\ pending = {} /\ stage' = stage /\ config' = config
         /\ signer' = signer /\ pipeline' = pipeline /\ pipeline = "rotating"
         /\ hasty' = hasty
         /\ \A d \in Root \ {c} : Active(d)' = Active(d) /\ Current(d)' = Current(d)
         /\ \/ /\ Active(c)' = Active(c) /\ Current(c)' = Current(c)
               /\ pending' = {}
            \/ /\ stage = "remove" /\ pending' = {}
               /\ Active(c)' = {Current(c)} /\ Current(c)' = Current(c)
            \/ /\ stage = "move" /\ pending' = Signs(c)
               /\ Active(c)' = Active(c)
            \/ /\ stage = "set" /\ pending' = {}
               /\ Active(c) \subseteq Active(c)' /\ Current(c)' = Current(c)
  <1>1. /\ c \in Root /\ pending = {} /\ stage' = stage /\ config' = config
        /\ signer' = signer /\ pipeline' = pipeline /\ pipeline = "rotating"
        /\ hasty' = hasty
    BY DEF IInv, TypeOK, StagesMatch, RemoveTransitional, MoveTransitional, SetTransitional,
           Visit, LoopOver
  <1>2. \A d \in Root \ {c} : versions'[d] = versions[d] /\ flag'[d] = flag[d]
    BY DEF IInv, TypeOK, RemoveTransitional, MoveTransitional, SetTransitional, Root
  <1>3. \A d \in Root \ {c} : Active(d)' = Active(d) /\ Current(d)' = Current(d)
    BY <1>2 DEF Active, Current
  <1>4. /\ versions[c] \in Nat \ {0} /\ flag[c] \in {0, versions[c] - 1, versions[c]}
        /\ Current(c) >= 1
    BY DEF IInv, TypeOK
  <1>5. CASE versions'[c] = versions[c] /\ flag'[c] = flag[c] /\ pending' = {}
    <2>1. Active(c)' = Active(c) /\ Current(c)' = Current(c)
      BY <1>5 DEF Active, Current
    <2> QED BY <1>1, <1>3, <1>5, <2>1
  <1>6. CASE /\ RemoveTransitional(c) /\ versions'[c] = versions[c]
             /\ flag[c] # versions[c] /\ flag'[c] = 0
    <2>1. Current(c)' = Current(c) /\ Active(c)' = {Current(c)}
      BY <1>4, <1>6 DEF Active, Current
    <2>2. stage = "remove" /\ pending' = {}
      BY <1>1, <1>6 DEF RemoveTransitional, Visit
    <2> QED BY <1>1, <1>3, <2>1, <2>2
  <1>7. CASE /\ MoveTransitional(c) /\ versions'[c] = versions[c] /\ pending' = Signs(c)
             /\ flag[c] = versions[c] /\ flag'[c] = Current(c)
    <2>1. Active(c) = {versions[c] - 1, versions[c]}
      BY <1>4, <1>7 DEF Active, Current
    <2>2. Active(c)' = {versions[c], versions[c] - 1}
      BY <1>4, <1>7 DEF Active, Current
    <2>3. stage = "move"
      BY <1>7 DEF MoveTransitional, Visit
    <2> QED BY <1>1, <1>3, <1>7, <2>1, <2>2, <2>3
  <1>8. CASE /\ SetTransitional(c) /\ versions'[c] = versions[c] + 1
             /\ flag[c] = 0 /\ flag'[c] = versions[c] + 1
    <2>1. Current(c) = versions[c] /\ Current(c)' = versions[c]
      BY <1>4, <1>8 DEF Current
    <2>2. Active(c) \subseteq Active(c)'
      BY <1>8, <2>1 DEF Active
    <2>3. stage = "set" /\ pending' = {}
      BY <1>1, <1>8 DEF SetTransitional, Visit
    <2> QED BY <1>1, <1>3, <2>1, <2>2, <2>3
  <1>9. \/ versions'[c] = versions[c] /\ flag'[c] = flag[c] /\ pending' = {}
        \/ /\ RemoveTransitional(c) /\ versions'[c] = versions[c]
           /\ flag[c] # versions[c] /\ flag'[c] = 0
        \/ /\ MoveTransitional(c) /\ versions'[c] = versions[c] /\ pending' = Signs(c)
           /\ flag[c] = versions[c] /\ flag'[c] = Current(c)
        \/ /\ SetTransitional(c) /\ versions'[c] = versions[c] + 1
           /\ flag[c] = 0 /\ flag'[c] = versions[c] + 1
    BY <1>1 DEF IInv, TypeOK, RemoveTransitional, MoveTransitional, SetTransitional,
                NewestIsTransitional
  <1> QED BY <1>5, <1>6, <1>7, <1>8, <1>9

\* An old version is retired after the last VM has stopped using it.
LEMMA RetireIsSafe ==
  ASSUME IInv, ~hasty, NEW c \in Root, stage = "remove", pending = {}
  PROVE  \A l \in Signs(c) : /\ signer[l] = Current(c)
                             /\ \A i \in Instance : config[i].signedWith[l] = Current(c)
  <1> SUFFICES ASSUME NEW l \in Signs(c)
               PROVE  /\ signer[l] = Current(c)
                      /\ \A i \in Instance : config[i].signedWith[l] = Current(c)
    OBVIOUS
  <1>1. l \in Signed /\ SignedBy[l] = c
    BY DEF Signs
  <1>2. signer[l] = Current(c)
    BY <1>1 DEF IInv, NoOrphans, Orphaned
  <1>3. \A i \in Instance : config[i].signedWith = signer
    BY DEF IInv, Careful, AllPresented
  <1> QED BY <1>2, <1>3

LEMMA FlagStep ==
  ASSUME Orderly, IInv, TypeOK', NEW c \in Cert,
         RemoveTransitional(c) \/ MoveTransitional(c) \/ SetTransitional(c)
  PROVE  IInv'
  <1>1. /\ c \in Root /\ pending = {} /\ stage' = stage /\ config' = config
        /\ signer' = signer /\ pipeline' = pipeline /\ pipeline = "rotating"
        /\ hasty' = hasty
        /\ \A d \in Root \ {c} : Active(d)' = Active(d) /\ Current(d)' = Current(d)
    BY FlagSteps
  <1>2. \/ /\ Active(c)' = Active(c) /\ Current(c)' = Current(c)
           /\ pending' = {}
        \/ /\ stage = "remove" /\ pending' = {}
           /\ Active(c)' = {Current(c)} /\ Current(c)' = Current(c)
        \/ /\ stage = "move" /\ pending' = Signs(c)
           /\ Active(c)' = Active(c)
        \/ /\ stage = "set" /\ pending' = {}
           /\ Active(c) \subseteq Active(c)' /\ Current(c)' = Current(c)
    BY FlagSteps
  <1>3. StagesMatch' /\ DeployIsCurrent' /\ (~hasty => AllPresented')
    BY <1>1, <1>2 DEF IInv, StagesMatch, DeployIsCurrent, Careful, AllPresented
  <1>4. NoOrphans'
    <2> SUFFICES ASSUME NEW l \in Signed, signer'[l] # Current(SignedBy[l])'
                 PROVE  l \in pending'
      BY DEF NoOrphans, Orphaned
    <2>1. signer[l] = Current(SignedBy[l])
      BY <1>1 DEF IInv, NoOrphans, Orphaned
    <2>2. SignedBy[l] = c /\ Current(c)' # Current(c)
      BY <1>1, <2>1, SignerIsRoot
    <2>3. pending' = Signs(c)
      BY <1>2, <2>2
    <2> QED BY <2>2, <2>3 DEF Signs
  <1>5. ~hasty => Compatible'
    <2> SUFFICES ASSUME ~hasty, NEW l \in Signed
                 PROVE  /\ \A i, j \in Instance :
                              config'[i].signedWith[l] \in config'[j].trusts[SignedBy[l]]
                        /\ \A i \in Instance :
                              /\ signer'[l] \in config'[i].trusts[SignedBy[l]]
                              /\ config'[i].signedWith[l] \in Active(SignedBy[l])'
                        /\ signer'[l] \in Active(SignedBy[l])'
      BY DEF Compatible
    <2>1. CASE SignedBy[l] # c
      <3>1. Active(SignedBy[l])' = Active(SignedBy[l])
        BY <1>1, <2>1, SignerIsRoot
      <3> QED BY <1>1, <3>1 DEF IInv, Careful, Compatible
    <2>2. CASE SignedBy[l] = c /\ Active(c) \subseteq Active(c)'
      BY <1>1, <2>2 DEF IInv, Careful, Compatible
    <2>3. CASE SignedBy[l] = c /\ stage = "remove" /\ Active(c)' = {Current(c)}
      <3>1. l \in Signs(c)
        BY <2>3 DEF Signs
      <3>2. signer[l] = Current(c) /\ \A i \in Instance : config[i].signedWith[l] = Current(c)
        BY <1>1, <2>3, <3>1, RetireIsSafe
      <3> QED BY <1>1, <2>3, <3>2 DEF IInv, Careful, Compatible
    <2> QED BY <1>2, <2>1, <2>2, <2>3
  <1>6. ~hasty => AllTrusted'
    <2> SUFFICES ASSUME ~hasty, stage \in {"remove", "move", "leaves"}, NEW i \in Instance, NEW d \in Root
                 PROVE  Active(d)' \subseteq config[i].trusts[d]
      BY <1>1 DEF AllTrusted
    <2>1. Active(d)' \subseteq Active(d)
      BY <1>1, <1>2 DEF Active
    <2> QED BY <2>1 DEF IInv, Careful, AllTrusted
  <1> QED BY <1>1, <1>3, <1>4, <1>5, <1>6 DEF IInv, Careful

-------------------------------------------------------------------------------
(* The theorems.                                                            *)

LEMMA IInit == ASSUME Orderly, Init PROVE IInv
  <1>1. TypeOK
    BY TypeInit
  <1>2. \A c \in Cert : Current(c) = 1 /\ Active(c) = {1}
    BY DEF Init, Current, Active
  <1>3. \A l \in Signed : SignedBy[l] \in Cert /\ signer[l] = 1
    BY RotationAssumption DEF Init, Signed
  <1>4. NoOrphans
    BY <1>2, <1>3 DEF NoOrphans, Orphaned
  <1>5. Compatible
    <2> SUFFICES ASSUME NEW l \in Signed
                 PROVE  /\ \A i, j \in Instance :
                              config[i].signedWith[l] \in config[j].trusts[SignedBy[l]]
                        /\ \A i \in Instance :
                              /\ signer[l] \in config[i].trusts[SignedBy[l]]
                              /\ config[i].signedWith[l] \in Active(SignedBy[l])
                        /\ signer[l] \in Active(SignedBy[l])
      BY DEF Compatible
    <2>1. View.signedWith = signer /\ View.trusts[SignedBy[l]] = Active(SignedBy[l])
      BY <1>3 DEF View
    <2>2. \A i \in Instance : config[i] = View
      BY DEF Init
    <2>3. \A i \in Instance : /\ config[i].signedWith = signer
                              /\ config[i].trusts[SignedBy[l]] = Active(SignedBy[l])
      BY <2>1, <2>2
    <2> QED BY <1>2, <1>3, <2>3
  <1> QED BY <1>1, <1>4, <1>5
          DEF Init, IInv, StagesMatch, DeployIsCurrent, Careful, AllTrusted, AllPresented

LEMMA IStep == ASSUME Orderly, IInv, [Next]_vars PROVE IInv'
  <1>1. TypeOK'
    BY TypeStep DEF IInv
  <1>2. ASSUME NEW c \in Cert, RemoveTransitional(c) \/ MoveTransitional(c) \/ SetTransitional(c)
        PROVE  IInv'
    BY <1>1, <1>2, FlagStep
  <1>3. ASSUME NEW l \in Cert, RegenerateSigned(l) \/ RegenerateExpiring(l)
        PROVE  IInv'
    BY <1>1, <1>3, RegenerateStep
  <1>4. ASSUME \/ StartDeploy \/ DeployDone \/ DeployFails
               \/ StartRotation \/ StartRotationAgain
               \/ \E i \in Instance : UpdateInstance(i)
               \/ LoopDone \/ CheckCertificates \/ JobDies
               \/ \E c \in Cert : Age(c)
               \/ UNCHANGED vars
        PROVE  IInv'
    BY <1>1, <1>4, DeployStep
  <1> QED BY <1>2, <1>3, <1>4 DEF Next, PipelineStep, Deploy, Script

\* The inductive invariant holds, so long as no job dies in the middle of a regeneration
\* (ca-rotation-move-transitional.rb:52).
THEOREM Invariance == Orderly => (Spec => []IInv)
  <1>1. Orderly /\ Init => IInv
    BY IInit
  <1>2. Orderly /\ IInv /\ [Next]_vars => IInv'
    BY IStep
  <1>3. Orderly => []Orderly
    OBVIOUS
  <1> QED BY <1>1, <1>2, <1>3, PTL DEF Spec

\* Every VM accepts the certificates of every other at every moment of every
\* deploy, with any number of CAs, certificates, VMs and rotations, except after a
\* pass that began before the VMs had what the last one made, and then until a
\* deploy has reached every VM again.
THEOREM TrustKept == Orderly => (Spec => []Trust)
  <1>1. IInv => Trust
    BY DEF IInv, Careful, Compatible, Trust
  <1> QED BY <1>1, Invariance, PTL

\* Nothing stays signed with a version of its CA that is no longer current.
THEOREM NothingOrphaned == Orderly => (Spec => []NoOrphans)
  <1>1. IInv => NoOrphans
    BY DEF IInv
  <1> QED BY <1>1, Invariance, PTL

\* Only a script changes what CredHub holds.
LEMMA OthersKeepCredHub ==
  ASSUME [Next]_vars,
         ~\E c \in Cert : \/ RemoveTransitional(c) \/ MoveTransitional(c) \/ SetTransitional(c)
                          \/ RegenerateSigned(c) \/ RegenerateExpiring(c)
  PROVE  UNCHANGED credhub
  BY DEF Next, PipelineStep, Deploy, Script, StartDeploy, DeployDone, DeployFails, StartRotation,
         StartRotationAgain, BeginPass, UpdateInstance, LoopDone, CheckCertificates, JobDies,
         Age, vars

\* A regeneration signs with a version of the CA that every VM already trusts.
LEMMA SignsTrusted ==
  ASSUME Orderly, IInv, ~hasty, NEW c \in Cert, RegenerateSigned(c) \/ RegenerateExpiring(c),
         NEW l \in Signed, signer'[l] # signer[l], NEW i \in Instance
  PROVE  signer'[l] \in config[i].trusts[SignedBy[l]]
  <1>1. stage \in {"move", "leaves"}
    BY DEF IInv, StagesMatch, RegenerateSigned, RegenerateExpiring, Visit
  <1>2. Regenerate(c)
    BY DEF RegenerateSigned, RegenerateExpiring, credhub
  <1>3. l = c /\ signer'[l] = Current(SignedBy[l])
    BY <1>2 DEF IInv, TypeOK, Regenerate
  <1>4. SignedBy[l] \in Root /\ Current(SignedBy[l]) \in Active(SignedBy[l])
    BY SignerIsRoot DEF Active
  <1> QED BY <1>1, <1>3, <1>4 DEF IInv, Careful, AllTrusted

\* A new version of a CA signs nothing before every VM trusts it, unless a pass that
\* began too early does it.
THEOREM NewIsTrustedFirst == Orderly => (Spec => TrustedBeforeUse)
  <1>1. ASSUME Orderly, IInv, [Next]_vars, ~hasty, NEW l \in Signed, signer'[l] # signer[l],
               NEW i \in Instance
        PROVE  signer'[l] \in config[i].trusts[SignedBy[l]]
    <2>1. PICK c \in Cert : \/ RemoveTransitional(c) \/ MoveTransitional(c) \/ SetTransitional(c)
                            \/ RegenerateSigned(c) \/ RegenerateExpiring(c)
      BY <1>1, OthersKeepCredHub DEF credhub
    <2>2. RegenerateSigned(c) \/ RegenerateExpiring(c)
      BY <1>1, <2>1 DEF RemoveTransitional, MoveTransitional, SetTransitional
    <2> QED BY <1>1, <2>2, SignsTrusted
  <1>2. Orderly /\ IInv /\ [Next]_vars =>
           [~hasty => \A l \in Signed : signer'[l] # signer[l] =>
               \A i \in Instance : signer'[l] \in config[i].trusts[SignedBy[l]]]_vars
    BY <1>1
  <1>3. Orderly => []Orderly
    OBVIOUS
  <1> QED BY <1>2, <1>3, Invariance, PTL DEF Spec, TrustedBeforeUse

\* An old version of a CA stays trusted while any VM still uses it, unless a pass that
\* began too early retires it.
THEOREM OldIsRetiredLast == Orderly => (Spec => RetiredAfterUse)
  <1>1. ASSUME Orderly, IInv, [Next]_vars, ~hasty, NEW c \in Root, NEW v \in Active(c) \ Active(c)',
               NEW i \in Instance, NEW l \in Signs(c)
        PROVE  config[i].signedWith[l] # v
    <2>1. PICK d \in Cert : \/ RemoveTransitional(d) \/ MoveTransitional(d) \/ SetTransitional(d)
                            \/ RegenerateSigned(d) \/ RegenerateExpiring(d)
      BY <1>1, OthersKeepCredHub, SameCredHub DEF Root
    <2>2. CASE RemoveTransitional(d) \/ MoveTransitional(d) \/ SetTransitional(d)
      <3>1. c = d /\ pending = {}
        BY <1>1, <2>2, FlagSteps
      <3>2. stage = "remove" /\ Active(c)' = {Current(c)}
        BY <1>1, <2>2, <3>1, FlagSteps
      <3>3. config[i].signedWith[l] = Current(c)
        BY <1>1, <3>1, <3>2, RetireIsSafe
      <3> QED BY <1>1, <3>2, <3>3
    <2>3. CASE RegenerateSigned(d) \/ RegenerateExpiring(d)
      <3>1. d \in Signed /\ stage \in {"move", "leaves"} /\ config' = config
        BY <1>1, <2>3 DEF IInv, TypeOK, StagesMatch, RegenerateSigned, RegenerateExpiring, Visit,
                          LoopOver
      <3>2. Regenerate(d)
        BY <1>1, <2>3, SameCredHub DEF RegenerateSigned, RegenerateExpiring, credhub, Root
      <3>3. Active(c)' = Active(c)
        BY <1>1, <3>1, <3>2, RegenerateCompatible
      <3> QED BY <1>1, <3>3
    <2> QED BY <2>1, <2>2, <2>3
  <1>2. Orderly /\ IInv /\ [Next]_vars =>
           [~hasty => \A c \in Root : \A v \in Active(c) \ Active(c)' :
               \A i \in Instance : \A l \in Signs(c) : config[i].signedWith[l] # v]_vars
    BY <1>1
  <1>3. Orderly => []Orderly
    OBVIOUS
  <1> QED BY <1>2, <1>3, Invariance, PTL DEF Spec, RetiredAfterUse

\* The passes the pipeline itself begins are never hasty: only an operator who starts
\* rotate-certs again can begin one before the VMs have what the last one made.
THEOREM PipelineIsNotHasty == Orderly => (Spec => [][StartRotation => hasty' = FALSE]_vars)
  <1>1. ASSUME Orderly, IInv, StartRotation PROVE hasty' = FALSE
    <2>1. ~hasty /\ \A i \in Instance : config[i] = View
      BY <1>1 DEF IInv, DeployIsCurrent, StartRotation
    <2>2. View.signedWith = signer /\ \A c \in Root : View.trusts[c] = Active(c)
      BY DEF View, Root
    <2>3. Handed
      BY <2>1, <2>2 DEF Handed
    <2> QED BY <1>1, <2>1, <2>3 DEF StartRotation, BeginPass, IInv, TypeOK
  <1>2. Orderly /\ IInv /\ [Next]_vars => [StartRotation => hasty' = FALSE]_vars
    BY <1>1
  <1>3. Orderly => []Orderly
    OBVIOUS
  <1> QED BY <1>2, <1>3, Invariance, PTL DEF Spec

=============================================================================
