---------------------------- MODULE DeviceProofs ----------------------------
(***************************************************************************)
(* Proofs about what a device keeps and runs: its keystore (Keystore), and *)
(* its node and delivery worker (NodeControl), for every set of algorithms *)
(* and passwords and any number of crashes, refused writes, identities and *)
(* nodes.                                                                  *)
(***************************************************************************)
EXTENDS Keystore, NodeControl, TLAPS

-----------------------------------------------------------------------------
(* The keystore: the identity of a device is not lost.                     *)

\* A keystore made from a secret that its algorithm accepts opens with its
\* password, and holds the identity of that secret.
LEMMA CreatedOpens ==
    ASSUME NEW p \in Password, NEW alg \in Algorithm, NEW s \in Secret
    PROVE  /\ CreateFromSecret(p, alg, s) \in Store
           /\ ParseSecret(alg, s) => Unlocks(p, CreateFromSecret(p, alg, s))
           /\ Decrypted(CreateFromSecret(p, alg, s)) = PublicKey(alg, s)
<1>1. Encrypt(p, alg, s) \in Sealed
  BY DEF Encrypt, MasterKey, Sealed
<1>2. PublicKey(alg, s) \in Identity
  BY DEF PublicKey, Identity
<1> QED BY <1>1, <1>2 DEF CreateFromSecret, Store, Unlocks, Decrypted, Encrypt

\* What a keystore opens to is an identity.
LEMMA DecryptedIsIdentity == \A ks \in Store : Decrypted(ks) \in Identity
  BY DEF Decrypted, PublicKey, Store, Sealed, Identity

LEMMA EditedIsStore == \A b \in Store : Edited(b) \subseteq Store
  BY DEF Edited, Store

\* A new keystore under another password holds the same identity.
LEMMA NewPasswordSameIdentity ==
    ASSUME NEW old \in Password, NEW new \in Password, NEW ks \in Store, Unlocks(old, ks)
    PROVE  LET renewed == CreateFromSecret(new, ks.algorithm, ks.sealed.secret) IN
           renewed \in Store /\ Unlocks(new, renewed) /\ Decrypted(renewed) = Decrypted(ks)
<1>1. ks.algorithm \in Algorithm /\ ks.sealed.secret \in Secret
  BY DEF Store, Sealed
<1> QED BY <1>1, CreatedOpens DEF Unlocks, Decrypted

LEMMA StartedJob ==
    ASSUME NEW kind \in {"setup", "password", "delete"}, NEW at \in FileStep,
           NEW ks \in Store, NEW p \in Password, Starts(kind, at, ks, p)
    PROVE  /\ job' \in FileJob /\ job' # Idle
           /\ job'.kind = kind /\ job'.at = at /\ job'.store = ks /\ job'.password = p
<1>1. job' = [kind |-> kind, at |-> at, store |-> ks, password |-> p]
  BY DEF Starts
<1>2. job' \in FileJob
  BY <1>1 DEF FileJob
<1> QED BY <1>1, <1>2, KeystoreNulls

\* The operation goes on: only its place changes.
LEMMA NextStepOfJob ==
    ASSUME job \in FileJob \cup {Idle}, job # Idle, NEW at \in FileStep,
           job' = [job EXCEPT !.at = at]
    PROVE  /\ job' \in FileJob /\ job' # Idle
           /\ job'.kind = job.kind /\ job'.at = at
           /\ job'.store = job.store /\ job'.password = job.password
<1>1. job \in FileJob
  OBVIOUS
<1>2. job' \in FileJob
  BY <1>1 DEF FileJob
<1> QED BY <1>1, <1>2, KeystoreNulls DEF FileJob

-----------------------------------------------------------------------------
(* The invariant.                                                          *)

Writing == job # Idle /\ job.at \in {"open", "fill", "rename"}

\* What is being written may become the keystore: it opens with the password
\* the user gave, and to the identity the device has, if it has one. A keystore
\* that is only made to be deleted is made where there is none.
JobIsSafe ==
    /\ Writing /\ job.kind # "delete" =>
          /\ Unlocks(job.password, job.store)
          /\ owner \in {NoOne, Decrypted(job.store)}
    /\ Writing /\ job.kind = "delete" => owner = NoOne
    /\ job # Idle /\ job.at = "rename" => tmp = job.store

KeyInv == KeyTypeOK /\ KeyIsKept /\ JobIsSafe

LEMMA NoFileNoOwner == KeyInv /\ ~FileExists => owner = NoOne
  BY DEF KeyInv, KeyIsKept, FileExists

LEMMA KeyInvOfStart ==
    ASSUME KeyInv, KeyNext, job = Idle, ~Crash PROVE KeyInv'
<1> USE DEF KeyInv, KeyTypeOK
<1>1. ASSUME NEW p \in Password, UnlockIdentity(p) PROVE KeyInv'
  BY <1>1, DecryptedIsIdentity DEF UnlockIdentity, Installed, KeyIsKept, JobIsSafe, Writing
<1>2. ASSUME NEW p \in Password, StartDelete(p) PROVE KeyInv'
  <2>1. PICK ks \in Store : /\ Installed(Decrypted(ks))
                            /\ Starts("delete", "remove", ks, p)
    BY <1>2 DEF StartDelete
  <2>2. job' \in FileJob /\ job' # Idle /\ job'.at = "remove"
    BY <2>1, StartedJob DEF FileStep
  <2> QED BY <1>2, <2>1, <2>2, DecryptedIsIdentity DEF StartDelete, Installed, KeyIsKept, JobIsSafe, Writing
<1>3. ASSUME NEW p \in Password, NEW alg \in Algorithm, NEW s \in Secret, CreateIdentity(p, alg, s)
      PROVE  KeyInv'
  <2>1. owner = NoOne
    BY <1>3, NoFileNoOwner DEF CreateIdentity
  <2>2. /\ CreateFromSecret(p, alg, s) \in Store /\ Unlocks(p, CreateFromSecret(p, alg, s))
    BY <1>3, CreatedOpens DEF CreateIdentity
  <2>3. job' \in FileJob /\ job'.kind = "setup" /\ job'.at = "open"
        /\ job'.store = CreateFromSecret(p, alg, s) /\ job'.password = p
    BY <1>3, <2>2, StartedJob DEF CreateIdentity, FileStep
  <2> QED BY <1>3, <2>1, <2>2, <2>3 DEF CreateIdentity, KeyIsKept, JobIsSafe, Writing
<1>4. ASSUME NEW p \in Password, NEW s \in Secret, StartDeleteAgain(p, s) PROVE KeyInv'
  <2>1. owner = NoOne
    BY <1>4, NoFileNoOwner DEF StartDeleteAgain
  <2>2. CreateFromSecret(p, "secp256k1", s) \in Store
    BY CreatedOpens, KeystoreAssumption
  <2>3. job' \in FileJob /\ job'.kind = "delete" /\ job'.at = "open"
    BY <1>4, <2>2, StartedJob DEF StartDeleteAgain, FileStep
  <2> QED BY <1>4, <2>1, <2>3 DEF StartDeleteAgain, KeyIsKept, JobIsSafe, Writing
<1>5. ASSUME NEW p \in Password, NEW b \in backups, NEW ks \in Edited(b), ImportJson(p, ks)
      PROVE  KeyInv'
  <2>1. owner = NoOne
    BY <1>5, NoFileNoOwner DEF ImportJson
  <2>2. ks \in Store
    BY EditedIsStore
  <2>3. job' \in FileJob /\ job'.kind = "setup" /\ job'.at = "open" /\ job'.store = ks /\ job'.password = p
    BY <1>5, <2>2, StartedJob DEF ImportJson, FileStep
  <2> QED BY <1>5, <2>1, <2>3 DEF ImportJson, KeyIsKept, JobIsSafe, Writing
<1>6. ASSUME NEW p \in Password, NEW new \in Password, ChangePassword(p, new) PROVE KeyInv'
  <2>1. PICK ks \in Store :
           /\ Loaded(ks) /\ Unlocks(p, ks)
           /\ Starts("password", "open", CreateFromSecret(new, ks.algorithm, ks.sealed.secret), new)
    BY <1>6 DEF ChangePassword
  <2> DEFINE renewed == CreateFromSecret(new, ks.algorithm, ks.sealed.secret)
  <2>2. renewed \in Store /\ Unlocks(new, renewed) /\ Decrypted(renewed) = Decrypted(ks)
    BY <2>1, NewPasswordSameIdentity
  <2>3. main = ks /\ owner \in {NoOne, Decrypted(ks)}
    BY <2>1 DEF Loaded, KeyIsKept
  <2> HIDE DEF renewed
  <2>4. job' \in FileJob /\ job'.kind = "password" /\ job'.at = "open"
        /\ job'.store = renewed /\ job'.password = new
    BY <2>1, <2>2, StartedJob DEF FileStep, renewed
  <2>5. JobIsSafe'
    BY <1>6, <2>2, <2>3, <2>4 DEF ChangePassword, JobIsSafe, Writing
  <2> QED BY <1>6, <2>4, <2>5 DEF ChangePassword, KeyIsKept
<1>7. CASE LockIdentity \/ Export \/ SavePreferences
  BY <1>7 DEF LockIdentity, Export, SavePreferences, Saved, KeyIsKept, JobIsSafe, Writing
<1> QED BY <1>1, <1>2, <1>3, <1>4, <1>5, <1>6, <1>7
      DEF KeyNext, OpenTmp, FillTmp, RenameTmp, InstallUnlocked, RemoveMain, CleanTmp, CleanPreferences, Refused

LEMMA KeyInvOfFileStep ==
    ASSUME KeyInv, KeyNext, job # Idle, ~Crash PROVE KeyInv'
<1>0. job \in FileJob /\ job.store \in Store /\ job.password \in Password
  BY DEF KeyInv, KeyTypeOK, FileJob
<1> USE DEF KeyInv, KeyTypeOK
<1>1. CASE OpenTmp
  BY <1>1, <1>0, NextStepOfJob DEF OpenTmp, FileStep, KeyIsKept, JobIsSafe, Writing
<1>2. CASE FillTmp
  BY <1>2, <1>0, NextStepOfJob DEF FillTmp, FileStep, KeyIsKept, JobIsSafe, Writing
<1>3. CASE RenameTmp
  <2>1. main' = job.store /\ tmp' = NoFile
    BY <1>3 DEF RenameTmp, JobIsSafe
  <2>2. job' \in FileJob /\ job' # Idle /\ job'.at = "install"
    BY <1>3, NextStepOfJob DEF RenameTmp, FileStep
  <2>3. KeyTypeOK'
    BY <1>0, <1>3, <2>1, <2>2, DecryptedIsIdentity DEF RenameTmp
  <2>4. JobIsSafe'
    BY <2>2 DEF JobIsSafe, Writing
  <2>5. KeyIsKept'
    <3>1. CASE job.kind = "delete"
      BY <1>3, <3>1 DEF RenameTmp, JobIsSafe, Writing, KeyIsKept
    <3>2. CASE job.kind # "delete"
      <4>1. Unlocks(job.password, job.store) /\ owner' = Decrypted(job.store) /\ known' = {job.password}
        BY <1>3, <3>2 DEF RenameTmp, JobIsSafe, Writing
      <4>2. main' \notin {NoFile, Torn}
        BY <1>0, <2>1, KeystoreNulls
      <4> QED BY <2>1, <4>1, <4>2 DEF KeyIsKept, Unlocks, Decrypted
    <3> QED BY <3>1, <3>2
  <2> QED BY <2>3, <2>4, <2>5
<1>4. CASE InstallUnlocked
  <2>1. CASE job.kind = "delete"
    BY <1>0, <1>4, <2>1, NextStepOfJob, DecryptedIsIdentity
      DEF InstallUnlocked, Installed, FileStep, KeyIsKept, JobIsSafe, Writing
  <2>2. CASE job.kind # "delete"
    BY <1>0, <1>4, <2>2, DecryptedIsIdentity
      DEF InstallUnlocked, Installed, KeyIsKept, JobIsSafe, Writing
  <2> QED BY <2>1, <2>2
<1>5. CASE RemoveMain
  BY <1>0, <1>5, NextStepOfJob DEF RemoveMain, FileStep, KeyIsKept, JobIsSafe, Writing
<1>6. CASE CleanTmp
  BY <1>0, <1>6, NextStepOfJob DEF CleanTmp, FileStep, KeyIsKept, JobIsSafe, Writing
<1>7. CASE CleanPreferences
  BY <1>7 DEF CleanPreferences, KeyIsKept, JobIsSafe, Writing
<1>8. CASE Refused
  BY <1>8, KeystoreAssumption DEF Refused, KeyIsKept, JobIsSafe, Writing
<1> QED BY <1>1, <1>2, <1>3, <1>4, <1>5, <1>6, <1>7, <1>8
      DEF KeyNext, UnlockIdentity, StartDelete, CreateIdentity, StartDeleteAgain, ImportJson,
          ChangePassword, LockIdentity, Export, SavePreferences

LEMMA KeyInvStep == KeyInv /\ [KeyNext]_keyVars => KeyInv'
<1>1. ASSUME KeyInv, Crash PROVE KeyInv'
  BY <1>1, KeystoreAssumption DEF Crash, KeyInv, KeyTypeOK, KeyIsKept, JobIsSafe, Writing
<1>2. ASSUME KeyInv, UNCHANGED keyVars PROVE KeyInv'
  BY <1>2 DEF keyVars, KeyInv, KeyTypeOK, KeyIsKept, JobIsSafe, Writing
<1> QED BY <1>1, <1>2, KeyInvOfStart, KeyInvOfFileStep

LEMMA KeyInvInit == KeyInit => KeyInv
<1> SUFFICES ASSUME KeyInit PROVE KeyInv
  OBVIOUS
<1>1. backups \subseteq Store
  <2>1. PICK id \in ValidSecret, p \in Password :
           backups = {[algorithm |-> id[1], public |-> id,
                       sealed |-> [algorithm |-> id[1], secret |-> id[2], password |-> p]]}
    BY DEF KeyInit
  <2>2. id \in Identity /\ id[1] \in Algorithm /\ id[2] \in Secret
    BY KeystoreAssumption DEF Identity
  <2> QED BY <2>1, <2>2 DEF Store, Sealed
<1> QED BY <1>1, KeystoreAssumption DEF KeyInit, KeyInv, KeyTypeOK, KeyIsKept, JobIsSafe, Writing

\* The files hold keystores or what is left of one.
THEOREM KeyTypeCorrect == KeySpec => []KeyTypeOK
<1>1. KeyInv => KeyTypeOK
  BY DEF KeyInv
<1> QED BY <1>1, KeyInvInit, KeyInvStep, PTL DEF KeySpec

\* The identity of a device survives every crash and every refused write of a
\* set-up, an import and a change of the password; only its deletion ends it.
THEOREM IdentityIsKept == KeySpec => []KeyIsKept
<1>1. KeyInv => KeyIsKept
  BY DEF KeyInv
<1> QED BY <1>1, KeyInvInit, KeyInvStep, PTL DEF KeySpec

-----------------------------------------------------------------------------
(* The node: which one the table holds, and whom the threads serve.        *)

\* No identity, and what a new worker and a new node are.
LEMMA FirstValues ==
    /\ 0 \in 0 .. Ids /\ 1 .. Ids \subseteq 0 .. Ids
    /\ [phase |-> "looking", id |-> 0] \in [phase : {"none", "looking", "serving", "over"}, id : 0 .. Ids]
    /\ [phase |-> "none", id |-> 0] \in [phase : {"none", "looking", "serving", "over"}, id : 0 .. Ids]
    /\ [phase |-> "over", id |-> 0] \in [phase : {"none", "looking", "serving", "over"}, id : 0 .. Ids]
    /\ [phase |-> "none", id |-> 0, told |-> FALSE] \in [phase : NodePhase, id : 0 .. Ids, told : BOOLEAN]
<1>1. 0 \in 0 .. Ids /\ 1 .. Ids \subseteq 0 .. Ids
  BY NodeControlAssumption
<1> QED BY <1>1 DEF NodePhase

-----------------------------------------------------------------------------
(* The node: types.                                                        *)

\* What Install and DeliveryStart leave of the worker.
LEMMA WorkerStarted ==
    ASSUME NodeControlTypeOK, DeliveryStart
    PROVE  /\ worker' \in [phase : {"none", "looking", "serving", "over"}, id : 0 .. Ids]
           /\ workerStop' \in BOOLEAN
           /\ worker' = worker \/ worker'.phase = "looking"
  BY FirstValues DEF NodeControlTypeOK, DeliveryStart

LEMMA TypeOfUser ==
    ASSUME NodeControlTypeOK, UserNext PROVE NodeControlTypeOK'
<1> USE DEF NodeControlTypeOK, NodeId, Step
<1>1. CASE SubmitUnlock
  BY <1>1, WorkerStarted DEF SubmitUnlock, Install
<1>2. CASE UnlockWithOptions \/ ImportKeystore
  BY <1>2, WorkerStarted, FirstValues DEF UnlockWithOptions, ImportKeystore, Install, FreshId
<1>3. CASE FinishBackup \/ SubmitLogout
  BY <1>3 DEF FinishBackup, SubmitLogout
<1>4. CASE DeleteIdentity \/ DeleteFails
  BY <1>4, WorkerStarted, FirstValues DEF DeleteIdentity, DeleteFails, Install
<1>5. CASE StartNode
  <2>1. made' \in {0} \cup NodeId /\ ui' \in Step /\ sidecar' \in {"none", "running", "told", "over"}
    BY <1>5 DEF StartNode, FreshNode, ConnectStart
  <2>2. nodes' \in [NodeId -> [phase : NodePhase, id : 0 .. Ids, told : BOOLEAN]]
    <3>1. [phase |-> "running", id |-> session, told |-> FALSE] \in
            [phase : NodePhase, id : 0 .. Ids, told : BOOLEAN]
      BY DEF NodePhase
    <3> QED BY <1>5, <3>1 DEF StartNode, FreshNode
  <2> QED BY <1>5, <2>1, <2>2, WorkerStarted DEF StartNode
<1>6. CASE StoreHolder
  <2>1. nodes' \in [NodeId -> [phase : NodePhase, id : 0 .. Ids, told : BOOLEAN]]
    BY <1>6 DEF StoreHolder
  <2> QED BY <1>6, <2>1 DEF StoreHolder
<1>7. CASE TellSidecar \/ SidecarJoined \/ WorkerJoined
  BY <1>7, FirstValues DEF TellSidecar, SidecarJoined, WorkerJoined
<1>8. CASE TakeHolder
  BY <1>8 DEF TakeHolder
<1>9. CASE NoHolder \/ Locked
  BY <1>9, FirstValues DEF NoHolder, Locked
<1> QED BY <1>1, <1>2, <1>3, <1>4, <1>5, <1>6, <1>7, <1>8, <1>9 DEF UserNext

LEMMA NodeTypeStep == NodeControlTypeOK /\ [NodeControlNext]_nodeVars => NodeControlTypeOK'
<1> SUFFICES ASSUME NodeControlTypeOK, [NodeControlNext]_nodeVars PROVE NodeControlTypeOK'
  OBVIOUS
<1>1. ASSUME NEW n \in NodeId, NodeFails(n) \/ NodeSeesStop(n) \/ NodeClears(n) \/ NodeEnds(n)
      PROVE  NodeControlTypeOK'
  BY <1>1 DEF NodeFails, NodeSeesStop, NodeClears, NodeEnds, NodeControlTypeOK, NodePhase
<1>2. CASE SidecarEnds \/ WorkerConnects \/ WorkerLosesConnection \/ WorkerEnds
  BY <1>2, FirstValues DEF SidecarEnds, WorkerConnects, WorkerLosesConnection, WorkerEnds, NodeControlTypeOK
<1>3. CASE UNCHANGED nodeVars
  BY <1>3 DEF nodeVars, NodeControlTypeOK
<1> QED BY <1>1, <1>2, <1>3, TypeOfUser DEF NodeControlNext

LEMMA NodeTypeInit == NodeControlInit => NodeControlTypeOK
  BY FirstValues DEF NodeControlInit, NodeControlTypeOK, Step

\* Every thread is at a known place, for a known identity or none.
THEOREM NodeControlTypeCorrect == NodeControlSpec => []NodeControlTypeOK
  BY NodeTypeInit, NodeTypeStep, PTL DEF NodeControlSpec

-----------------------------------------------------------------------------
(* Which node the table holds.                                             *)

\* A node that has not given the table back is the one in it, the one about to
\* be put there or the one a logout waits for; and a node that a logout waits
\* for is told to stop.  An earlier node that was not awaited breaks this.
OneNodeAtATime ==
    \A n \in NodeId : nodes[n].phase \in {"running", "returned"} =>
        n = held \/ (n = made /\ ui \in {"store", "await"})

TableOfNodes ==
    /\ overran \/ OneNodeAtATime
    /\ ui \in {"store", "await"} => made \in NodeId
    /\ ui = "store" => ~HolderAlive
    /\ ui = "await" => held = 0 /\ nodes[made].told

LEMMA TableOfNodesStep ==
    NodeControlTypeOK /\ TableOfNodes /\ [NodeControlNext]_nodeVars => TableOfNodes'
<1> SUFFICES ASSUME NodeControlTypeOK, TableOfNodes, [NodeControlNext]_nodeVars PROVE TableOfNodes'
  OBVIOUS
<1>0. nodes \in [NodeId -> [phase : NodePhase, id : 0 .. Ids, told : BOOLEAN]]
      /\ held \in {0} \cup NodeId /\ 0 \notin NodeId
  BY DEF NodeControlTypeOK, NodeId
<1> USE DEF TableOfNodes, OneNodeAtATime, HolderAlive
<1>1. CASE SubmitUnlock \/ UnlockWithOptions \/ ImportKeystore \/ FinishBackup \/ SubmitLogout
           \/ DeleteIdentity \/ DeleteFails
  BY <1>1 DEF SubmitUnlock, UnlockWithOptions, ImportKeystore, FinishBackup, SubmitLogout,
        DeleteIdentity, DeleteFails
<1>2. CASE StartNode
  <2>1. CASE HolderAlive /\ ui' = "idle" /\ UNCHANGED <<made, nodes, sidecar>>
    BY <1>2, <2>1 DEF StartNode
  <2>2. ASSUME ~HolderAlive, NEW n \in FreshNode, made' = n, ui' = "store",
               nodes' = [nodes EXCEPT ![n] = [phase |-> "running", id |-> session, told |-> FALSE]]
        PROVE  TableOfNodes'
    BY <1>0, <1>2, <2>2 DEF StartNode, FreshNode
  <2> QED BY <1>2, <2>1, <2>2 DEF StartNode
<1>3. CASE StoreHolder
  BY <1>0, <1>3 DEF StoreHolder
<1>4. CASE TellSidecar \/ SidecarJoined \/ WorkerJoined
  BY <1>4 DEF TellSidecar, SidecarJoined, WorkerJoined
<1>5. CASE TakeHolder
  BY <1>0, <1>5 DEF TakeHolder
<1>6. CASE NoHolder \/ Locked
  BY <1>0, <1>6 DEF NoHolder, Locked, NodePhase
<1>7. ASSUME NEW n \in NodeId, NodeFails(n) \/ NodeSeesStop(n) \/ NodeClears(n) \/ NodeEnds(n)
      PROVE  TableOfNodes'
  BY <1>0, <1>7 DEF NodeFails, NodeSeesStop, NodeClears, NodeEnds
<1>8. CASE SidecarEnds \/ WorkerConnects \/ WorkerLosesConnection \/ WorkerEnds
  BY <1>8 DEF SidecarEnds, WorkerConnects, WorkerLosesConnection, WorkerEnds
<1>9. CASE UNCHANGED nodeVars
  BY <1>9 DEF nodeVars
<1> QED BY <1>1, <1>2, <1>3, <1>4, <1>5, <1>6, <1>7, <1>8, <1>9 DEF NodeControlNext, UserNext

LEMMA TableOfNodesHolds == NodeControlSpec => [](NodeControlTypeOK /\ TableOfNodes)
<1>1. NodeControlInit => TableOfNodes
  BY DEF NodeControlInit, TableOfNodes, OneNodeAtATime
<1> QED BY <1>1, NodeTypeInit, NodeTypeStep, TableOfNodesStep, PTL DEF NodeControlSpec

\* As long as every logout waits for its node to end, no node runs that
\* commands do not reach and a logout does not end.
THEOREM TableHoldsRunningNode == NodeControlSpec => []RunningNodeIsHeld
<1>1. TableOfNodes => RunningNodeIsHeld
  BY DEF TableOfNodes, OneNodeAtATime, RunningNodeIsHeld, AtWork
<1> QED BY <1>1, TableOfNodesHolds, PTL

-----------------------------------------------------------------------------
(* Whom the threads serve.                                                 *)

\* At every step of the user's thread, not only between its operations.
Serving ==
    /\ \A n \in AtWork : session # 0 /\ nodes[n].id = session
    /\ worker.phase = "serving" => worker.id = session
    /\ session = 0 => ui = "idle" /\ sidecar = "none" /\ worker.phase = "none"
    /\ ui \in {"worker", "node", "await"} => sidecar = "none"
    /\ ui \in {"node", "await"} => worker.phase = "none"
    /\ ui = "idle" => (onHub <=> session # 0)
    /\ ui \in {"backup", "start", "store"} => onHub
    /\ ui \in {"sidecar", "worker", "node", "await"} => ~onHub
    /\ ui \in {"idle", "backup", "start", "store"} => session \in {0, keystore}

Orderly == overran \/ halfDeleted \/ Serving

\* An overrun and a failed delete are not forgotten.
LEMMA ScarsStay ==
    ASSUME NodeControlTypeOK, [NodeControlNext]_nodeVars
    PROVE  (overran => overran') /\ (halfDeleted => halfDeleted')
<1>1. CASE UserNext
  BY <1>1 DEF UserNext, NodeControlTypeOK, SubmitUnlock, UnlockWithOptions, ImportKeystore,
        FinishBackup, SubmitLogout, DeleteIdentity, DeleteFails, StartNode, StoreHolder, TellSidecar,
        SidecarJoined, WorkerJoined, TakeHolder, NoHolder, Locked
<1>2. ASSUME NEW n \in NodeId, NodeFails(n) \/ NodeSeesStop(n) \/ NodeClears(n) \/ NodeEnds(n)
      PROVE  (overran => overran') /\ (halfDeleted => halfDeleted')
  BY <1>2 DEF NodeFails, NodeSeesStop, NodeClears, NodeEnds
<1>3. CASE SidecarEnds \/ WorkerConnects \/ WorkerLosesConnection \/ WorkerEnds
  BY <1>3 DEF SidecarEnds, WorkerConnects, WorkerLosesConnection, WorkerEnds
<1>4. CASE UNCHANGED nodeVars
  BY <1>4 DEF nodeVars
<1> QED BY <1>1, <1>2, <1>3, <1>4 DEF NodeControlNext

LEMMA OrderlyStep ==
    NodeControlTypeOK /\ TableOfNodes /\ Orderly /\ [NodeControlNext]_nodeVars => Orderly'
<1> SUFFICES ASSUME NodeControlTypeOK, TableOfNodes, Orderly, [NodeControlNext]_nodeVars,
                    ~overran', ~halfDeleted'
             PROVE  Serving'
  BY DEF Orderly
<1>0. Serving /\ OneNodeAtATime
  <2>1. ~overran /\ ~halfDeleted
    BY ScarsStay
  <2> QED BY <2>1 DEF Orderly, TableOfNodes
<1>00. nodes \in [NodeId -> [phase : NodePhase, id : 0 .. Ids, told : BOOLEAN]]
       /\ held \in {0} \cup NodeId /\ 0 \notin NodeId
  BY DEF NodeControlTypeOK, NodeId
<1> USE DEF Serving, AtWork
<1>1. CASE SubmitUnlock
  BY <1>0, <1>1, WorkerStarted DEF SubmitUnlock, Install
<1>2. CASE UnlockWithOptions \/ ImportKeystore
  BY <1>0, <1>2, WorkerStarted DEF UnlockWithOptions, ImportKeystore, Install, FreshId
<1>3. CASE FinishBackup \/ SubmitLogout
  BY <1>0, <1>3 DEF FinishBackup, SubmitLogout
<1>4. CASE DeleteIdentity
  BY <1>0, <1>4, WorkerStarted DEF DeleteIdentity, Install
<1>5. CASE StartNode
  <2>1. session # 0
    BY <1>0, <1>5 DEF StartNode
  <2>2. worker' = worker \/ worker'.phase = "looking"
    BY <1>5, WorkerStarted DEF StartNode
  <2>3. CASE HolderAlive /\ ui' = "idle" /\ UNCHANGED <<made, nodes, sidecar>>
    BY <1>0, <1>5, <2>1, <2>2, <2>3 DEF StartNode
  <2>4. ASSUME NEW n \in FreshNode, ui' = "store",
               nodes' = [nodes EXCEPT ![n] = [phase |-> "running", id |-> session, told |-> FALSE]]
        PROVE  Serving'
    BY <1>0, <1>00, <1>5, <2>1, <2>2, <2>4 DEF StartNode, FreshNode
  <2> QED BY <1>5, <2>3, <2>4 DEF StartNode
<1>6. CASE StoreHolder
  BY <1>0, <1>00, <1>6 DEF StoreHolder
<1>7. CASE TellSidecar \/ SidecarJoined \/ WorkerJoined
  BY <1>0, <1>7 DEF TellSidecar, SidecarJoined, WorkerJoined
<1>8. CASE TakeHolder
  BY <1>0, <1>00, <1>8 DEF TakeHolder
<1>9. CASE NoHolder \/ Locked
  <2>1. AtWork = {}
    <3>1. CASE NoHolder
      BY <1>0, <1>00, <3>1 DEF NoHolder, OneNodeAtATime
    <3>2. CASE Locked
      BY <1>0, <1>00, <3>2 DEF Locked, OneNodeAtATime, TableOfNodes
    <3> QED BY <1>9, <3>1, <3>2
  <2>2. UNCHANGED <<nodes, sidecar, worker, onHub>> /\ session' = 0 /\ ui' = "idle" /\ ui \in {"node", "await"}
    BY <1>9 DEF NoHolder, Locked
  <2> QED BY <1>0, <2>1, <2>2
<1>10. CASE DeleteFails
  BY <1>10 DEF DeleteFails
<1>11. ASSUME NEW n \in NodeId, NodeFails(n) \/ NodeSeesStop(n) \/ NodeClears(n) \/ NodeEnds(n)
       PROVE  Serving'
  BY <1>0, <1>00, <1>11 DEF NodeFails, NodeSeesStop, NodeClears, NodeEnds
<1>12. CASE SidecarEnds \/ WorkerConnects \/ WorkerLosesConnection \/ WorkerEnds
  BY <1>0, <1>12 DEF SidecarEnds, WorkerConnects, WorkerLosesConnection, WorkerEnds
<1>13. CASE UNCHANGED nodeVars
  BY <1>0, <1>13 DEF nodeVars
<1> QED BY <1>1, <1>2, <1>3, <1>4, <1>5, <1>6, <1>7, <1>8, <1>9, <1>10, <1>11, <1>12, <1>13
      DEF NodeControlNext, UserNext

\* Nothing that was started for one user goes on for the next, or after a
\* logout, unless a logout gave up waiting or a delete failed half-way.
THEOREM NobodyIsServedForAnother == NodeControlSpec => []ThreadsServeSession
<1>1. NodeControlInit => Orderly
  BY DEF NodeControlInit, Orderly, Serving, AtWork
<1>2. Orderly => ThreadsServeSession
  BY DEF Orderly, Serving, ThreadsServeSession
<1> QED BY <1>1, <1>2, TableOfNodesHolds, OrderlyStep, PTL DEF NodeControlSpec
=============================================================================
