---------------------------- MODULE NodeControl ----------------------------
(***************************************************************************)
(* Who runs for whom: the threads that a login starts and a logout ends.   *)
(*                                                                         *)
(* The user's thread runs unlock, create, import, logout and delete from   *)
(* start to end, so `ui' is its program counter inside start_network       *)
(* (host.rs:1107, p2p_start) and lock (host.rs:105, p2p_stop).  Beside it  *)
(* run the connect nodes, the LAN sidecar and the mailbox worker.  There   *)
(* is a place for one node in a table (p2p_mx).  A node is asked to stop   *)
(* and awaited for three seconds only, and it empties the table when it    *)
(* ends, whoever stands there by then.                                     *)
(*                                                                         *)
(* Left out: what the node does while it runs (the other modules), the     *)
(* coordination threads (CoordPresence), the event queue, configuration.   *)
(* Bounds: Ids identities and Nodes nodes in the life of the process.      *)
(***************************************************************************)
EXTENDS Naturals, FiniteSets

CONSTANTS Ids, Nodes

ASSUME NodeControlAssumption == Ids \in Nat \ {0} /\ Nodes \in Nat \ {0}

VARIABLES
    keystore,   \* the identity on disk, 0 for none (keystore_v1.json)
    session,    \* the identity in memory, 0 for none (session_mx)
    ui,         \* where the user's thread is
    made,       \* the node the user's thread has spawned and not stored, or awaits
    nodes,      \* the nodes: how far, for whom, told to stop
    held,       \* the node in p2p_mx, 0 for none
    sidecar,    \* the LAN sidecar: "none", "running", "told", "over"
    worker,     \* the mailbox worker, and the identity of its connection
    workerStop, \* the stop flag of the mailbox worker
    onHub,      \* the app has a session of its own and shows the hub, or is
                \* locked over it (App.session)
    overran,    \* history: a node was not awaited to its end
    halfDeleted \* history: a delete failed after it had unlocked

nodeVars == <<keystore, session, ui, made, nodes, held, sidecar, worker,
              workerStop, onHub, overran, halfDeleted>>

NodeId == 1 .. Nodes
NodePhase == {"none", "running", "returned", "dropping", "done"}
Step == {"idle", "backup", "start", "store", "sidecar", "worker", "node", "await"}

NodeControlTypeOK ==
    /\ keystore \in 0 .. Ids /\ session \in 0 .. Ids
    /\ ui \in Step
    /\ made \in {0} \cup NodeId /\ held \in {0} \cup NodeId
    /\ nodes \in [NodeId -> [phase : NodePhase, id : 0 .. Ids, told : BOOLEAN]]
    /\ sidecar \in {"none", "running", "told", "over"}
    /\ worker \in [phase : {"none", "looking", "serving", "over"}, id : 0 .. Ids]
    /\ workerStop \in BOOLEAN /\ onHub \in BOOLEAN
    /\ overran \in BOOLEAN /\ halfDeleted \in BOOLEAN

NodeControlInit ==
    /\ keystore = 0 /\ session = 0 /\ ui = "idle" /\ made = 0 /\ held = 0
    /\ nodes = [n \in NodeId |-> [phase |-> "none", id |-> 0, told |-> FALSE]]
    /\ sidecar = "none"
    /\ worker = [phase |-> "none", id |-> 0] /\ workerStop = FALSE
    /\ onHub = FALSE /\ overran = FALSE /\ halfDeleted = FALSE

(***************************************************************************)
(* What the operations are built from.                                     *)
(***************************************************************************)

\* p2p_holder_alive: the thread of the node in the table has not ended.
HolderAlive == held # 0 /\ nodes[held].phase # "done"

\* delivery_start: a worker that still runs is kept, an ended one replaced.
DeliveryStart ==
    IF worker.phase \in {"looking", "serving"}
    THEN UNCHANGED <<worker, workerStop>>
    ELSE worker' = [phase |-> "looking", id |-> 0] /\ workerStop' = FALSE

\* connect_start: the sidecar is kept as long as it stands in its table, even
\* when its thread has ended.
ConnectStart == sidecar' = IF sidecar = "none" THEN "running" ELSE sidecar

FreshNode == {n \in NodeId : nodes[n].phase = "none"}
FreshId == {i \in 1 .. Ids : i > keystore /\ i > session /\ \A n \in NodeId : i > nodes[n].id}

\* unlock_identity, install_unlocked: the identity goes into the session and
\* the mailbox worker is started.
Install(id) == session' = id /\ DeliveryStart

(***************************************************************************)
(* The user's thread, from the identity screen.                            *)
(***************************************************************************)

\* submit_unlock with a keystore on disk.
SubmitUnlock ==
    /\ ui = "idle" /\ keystore # 0 /\ ~onHub
    /\ Install(keystore)
    /\ onHub' = TRUE /\ ui' = "start"
    /\ UNCHANGED <<keystore, made, nodes, held, sidecar, overran, halfDeleted>>

\* unlock_with_options without one: the identity is made, and its backup is
\* asked for before the network starts.
UnlockWithOptions ==
    /\ ui = "idle" /\ keystore = 0 /\ ~onHub
    /\ \E id \in FreshId : keystore' = id /\ Install(id)
    /\ onHub' = TRUE /\ ui' = "backup"
    /\ UNCHANGED <<made, nodes, held, sidecar, overran, halfDeleted>>

FinishBackup ==
    /\ ui = "backup"
    /\ ui' = "start"
    /\ UNCHANGED <<keystore, session, made, nodes, held, sidecar, worker,
                   workerStop, onHub, overran, halfDeleted>>

\* import_keystore refuses to replace a keystore; the network starts at once.
ImportKeystore ==
    /\ ui = "idle" /\ keystore = 0 /\ ~onHub
    /\ \E id \in FreshId : keystore' = id /\ Install(id)
    /\ onHub' = TRUE /\ ui' = "start"
    /\ UNCHANGED <<made, nodes, held, sidecar, overran, halfDeleted>>

\* delete_identity: it unlocks first (the password is checked that way),
\* deletes the files and locks.
DeleteIdentity ==
    /\ ui = "idle" /\ keystore # 0
    /\ Install(keystore)
    /\ keystore' = 0
    /\ onHub' = FALSE /\ ui' = "sidecar"
    /\ UNCHANGED <<made, nodes, held, sidecar, overran, halfDeleted>>

\* delete_stored_identity_v1 fails on the first file or on the second: the
\* error returns before lock, and the identity stays unlocked.
DeleteFails ==
    /\ ui = "idle" /\ keystore # 0
    /\ Install(keystore)
    /\ keystore' \in {0, keystore}
    /\ halfDeleted' = TRUE
    /\ UNCHANGED <<ui, made, nodes, held, sidecar, onHub, overran>>

LogoutAtNode ==  \* mutant: the sidecar and the worker are not stopped
    /\ ui = "idle" /\ onHub
    /\ onHub' = FALSE /\ ui' = "node"
    /\ UNCHANGED <<keystore, session, made, nodes, held, sidecar, worker,
                   workerStop, overran, halfDeleted>>

\* submit_logout.
SubmitLogout ==
    /\ ui = "idle" /\ onHub
    /\ onHub' = FALSE /\ ui' = "sidecar"
    /\ UNCHANGED <<keystore, session, made, nodes, held, sidecar, worker,
                   workerStop, overran, halfDeleted>>

(***************************************************************************)
(* p2p_start.                                                              *)
(***************************************************************************)

\* The mailbox worker is started whatever follows (apply_delivery_from_p2p_config).
\* A node that is there already is kept, for whomever it runs; else the sidecar is
\* started and a node spawned for the identity of now.  The app has no second
\* start without a logout, so that the first case does not occur.
StartNode ==
    /\ ui = "start"
    /\ DeliveryStart
    /\ \/ HolderAlive /\ ui' = "idle" /\ UNCHANGED <<made, nodes, sidecar>>
       \/ /\ ~HolderAlive /\ ConnectStart
          /\ \E n \in FreshNode :
               /\ \A k \in FreshNode : n <= k
               /\ nodes' = [nodes EXCEPT ![n] = [phase |-> "running", id |-> session, told |-> FALSE]]
               /\ made' = n
          /\ ui' = "store"
    /\ UNCHANGED <<keystore, session, held, onHub, overran, halfDeleted>>

\* Only now is it put into the table: it may have ended already, and then the
\* table keeps a dead node.  One found there would be told to stop.
StoreHolder ==
    /\ ui = "store"
    /\ nodes' = [n \in NodeId |-> [nodes[n] EXCEPT !.told = @ \/ n = held]]
    /\ held' = made /\ made' = 0 /\ ui' = "idle"
    /\ UNCHANGED <<keystore, session, sidecar, worker, workerStop, onHub, overran, halfDeleted>>

(***************************************************************************)
(* p2p_stop and lock_identity.                                             *)
(***************************************************************************)

\* connect_stop: told, and joined.
TellSidecar ==
    /\ ui = "sidecar" /\ sidecar = "running"
    /\ sidecar' = "told"
    /\ UNCHANGED <<keystore, session, ui, made, nodes, held, worker, workerStop,
                   onHub, overran, halfDeleted>>

SidecarJoined ==
    /\ ui = "sidecar" /\ sidecar \in {"none", "over"}
    /\ sidecar' = "none"
    /\ ui' = "worker"
    /\ workerStop' = TRUE
    /\ UNCHANGED <<keystore, session, made, nodes, held, worker, onHub, overran, halfDeleted>>

\* delivery_stop joins without a limit of time.
WorkerJoined ==
    /\ ui = "worker" /\ worker.phase \in {"none", "over"}
    /\ worker' = [phase |-> "none", id |-> 0]
    /\ ui' = "node"
    /\ UNCHANGED <<keystore, session, made, nodes, held, sidecar, workerStop, onHub, overran, halfDeleted>>

TakeHolderUntold ==  \* mutant: the flag is not set
    /\ ui = "node" /\ held # 0
    /\ made' = held
    /\ held' = 0 /\ ui' = "await"
    /\ UNCHANGED <<keystore, session, nodes, sidecar, worker, workerStop, onHub, overran, halfDeleted>>

\* stop_p2p_node takes the holder out and sets its flag.
TakeHolder ==
    /\ ui = "node" /\ held # 0
    /\ nodes' = [nodes EXCEPT ![held].told = TRUE]
    /\ made' = held \* the thread to join
    /\ held' = 0 /\ ui' = "await"
    /\ UNCHANGED <<keystore, session, sidecar, worker, workerStop, onHub, overran, halfDeleted>>

NoHolder ==
    /\ ui = "node" /\ held = 0
    /\ session' = 0 /\ ui' = "idle"
    /\ UNCHANGED <<keystore, made, nodes, held, sidecar, worker, workerStop, onHub, overran, halfDeleted>>

\* The node has ended, or three seconds are over.
Locked ==
    /\ ui = "await"
    /\ overran' = (overran \/ nodes[made].phase # "done")
    /\ session' = 0 /\ made' = 0 /\ ui' = "idle"
    /\ UNCHANGED <<keystore, nodes, held, sidecar, worker, workerStop, onHub, halfDeleted>>

(***************************************************************************)
(* The other threads.                                                      *)
(***************************************************************************)

\* The node gives up: no listener, no mDNS, a panic, no runtime.
NodeFails(n) ==
    /\ nodes[n].phase = "running"
    /\ nodes' = [nodes EXCEPT ![n].phase = "returned"]
    /\ UNCHANGED <<keystore, session, ui, made, held, sidecar, worker,
                   workerStop, onHub, overran, halfDeleted>>

\* Its loop sees the flag; a command or a frame may keep it from looking.
NodeSeesStop(n) ==
    /\ nodes[n].phase = "running" /\ nodes[n].told
    /\ nodes' = [nodes EXCEPT ![n].phase = "returned"]
    /\ UNCHANGED <<keystore, session, ui, made, held, sidecar, worker,
                   workerStop, onHub, overran, halfDeleted>>

\* clear_p2p_holder empties the table, whoever is in it.
NodeClears(n) ==
    /\ nodes[n].phase = "returned"
    /\ nodes' = [nodes EXCEPT ![n].phase = "dropping"]
    /\ held' = 0
    /\ UNCHANGED <<keystore, session, ui, made, sidecar, worker, workerStop,
                   onHub, overran, halfDeleted>>

\* The runtime waits for its blocking tasks, then the thread is over.
NodeEnds(n) ==
    /\ nodes[n].phase = "dropping"
    /\ nodes' = [nodes EXCEPT ![n].phase = "done"]
    /\ UNCHANGED <<keystore, session, ui, made, held, sidecar, worker,
                   workerStop, onHub, overran, halfDeleted>>

\* The sidecar fails to listen, or sees that it is told to stop.
SidecarEnds ==
    /\ sidecar \in {"running", "told"}
    /\ sidecar' = "over"
    /\ UNCHANGED <<keystore, session, ui, made, nodes, held, worker, workerStop,
                   onHub, overran, halfDeleted>>

\* The worker takes the identity of the moment for its next connection.
WorkerConnects ==
    /\ worker.phase = "looking" /\ ~workerStop /\ session # 0
    /\ worker' = [phase |-> "serving", id |-> session]
    /\ UNCHANGED <<keystore, session, ui, made, nodes, held, sidecar, workerStop,
                   onHub, overran, halfDeleted>>

WorkerLosesConnection ==
    /\ worker.phase = "serving"
    /\ worker' = [phase |-> "looking", id |-> 0]
    /\ UNCHANGED <<keystore, session, ui, made, nodes, held, sidecar, workerStop,
                   onHub, overran, halfDeleted>>

\* The flag is seen between two pushes and before the next connection.
WorkerEnds ==
    /\ worker.phase \in {"looking", "serving"} /\ workerStop
    /\ worker' = [phase |-> "over", id |-> 0]
    /\ UNCHANGED <<keystore, session, ui, made, nodes, held, sidecar, workerStop,
                   onHub, overran, halfDeleted>>

UserNext ==
    \/ SubmitUnlock \/ UnlockWithOptions \/ FinishBackup \/ ImportKeystore
    \/ DeleteIdentity \/ DeleteFails \/ SubmitLogout
    \/ StartNode \/ StoreHolder \/ TellSidecar \/ SidecarJoined \/ WorkerJoined \/ TakeHolder \/ NoHolder \/ Locked

NodeControlNext ==
    \/ UserNext
    \/ \E n \in NodeId : NodeFails(n) \/ NodeSeesStop(n) \/ NodeClears(n) \/ NodeEnds(n)
    \/ SidecarEnds \/ WorkerConnects \/ WorkerLosesConnection \/ WorkerEnds

NodeControlSpec == NodeControlInit /\ [][NodeControlNext]_nodeVars

-----------------------------------------------------------------------------
AtWork == {n \in NodeId : nodes[n].phase = "running" /\ ~nodes[n].told}

\* A node that runs and was never told to stop is the one in the table, so
\* that commands reach it and a logout ends it, or is about to be put there.
\* The exception is a node that outlived the wait of an earlier logout: it
\* empties the table of its successor (p2p_runtime.rs:205).
RunningNodeIsHeld ==
    overran \/ \A n \in AtWork : n = held \/ (n = made /\ ui = "store")

\* Between two operations of the user every thread serves the identity of the
\* session, and after a logout none serves any: what was started for one user
\* never goes on for the next.  Not so after an overrun, and after a failed
\* delete, which leaves the mailbox worker to a deleted identity (host.rs:188).
ThreadsServeSession ==
    ui \in {"idle", "backup"} /\ ~overran /\ ~halfDeleted =>
        /\ \A n \in AtWork : session # 0 /\ nodes[n].id = session
        /\ worker.phase = "serving" => worker.id = session
        /\ session = 0 => sidecar = "none" /\ worker.phase = "none"
=============================================================================
