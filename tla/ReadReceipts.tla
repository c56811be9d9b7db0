---------------------------- MODULE ReadReceipts ----------------------------
(***************************************************************************)
(* When a recipient device sends the read receipt of a message: the open   *)
(* room and its clock (p2p_runtime.rs, connect/ui_session.rs,              *)
(* connect/chat_room_session.rs) and the queue of delivery_read_acks.rs.   *)
(*                                                                         *)
(* Three threads share this state.  The hub thread opens and leaves rooms  *)
(* and, when it opens one, seeds the queue twice and sends what is due.    *)
(* The connect worker starts and ticks the room clock.  The delivery       *)
(* worker stores inbound messages and retries the queue.  Seeding reads    *)
(* the transcript in one step and fills the queue in a later one; a        *)
(* receipt is claimed, sent, and recorded or dropped.                      *)
(*                                                                         *)
(* The local namespace is set and the node is running.                     *)
(***************************************************************************)
EXTENDS Integers, Sequences, FiniteSets

CONSTANTS
    Contact,     \* contacts, that is, rooms
    Mail,        \* inbound messages
    RoomOf,      \* the contact each message comes from
    LastTime,    \* bound of the clock, which starts at 1
    MaxCmds,     \* bound of the commands the connect worker is behind
    MaxFailures, \* bound of the receipts the server does not take
    Nobody, NoMsg

ASSUME ReceiptAssumption ==
    /\ RoomOf \in [Mail -> Contact]
    /\ LastTime \in Nat \ {0} /\ MaxCmds \in Nat /\ MaxFailures \in Nat
    /\ Nobody \notin Contact /\ NoMsg \notin Mail

VARIABLES
    time,
    live,      \* live foreground peer: the open room
    visible,   \* app_ui_visible
    gate,      \* app_ack_read_enabled
    clock,     \* chat_room_session_at_ms, 0 when cleared
    exitAt,    \* contacts: chat_room_exit_at_ms, 0 when unset
    cmds,      \* SetForegroundPeer commands to the connect worker
    hub,       \* hub thread: [at, left, rows], see HubPhase
    received,  \* transcript: received_at_ms of each message, 0 before
    receipted, \* transcript: read_ack_sent
    arriving,  \* delivery worker: the message it has just stored, or NoMsg
    queued,    \* pending read acks
    sending,   \* in-flight receipt of each thread, or NoMsg
    failures,  \* history: receipts that failed
    shown      \* history: messages the open, visible room has displayed

room     == <<live, visible, gate>>
clocks   == <<clock, exitAt>>
rows     == <<received, receipted>>
receipts == <<queued, sending, failures>>
receiptsVars == <<time, room, clocks, cmds, hub, rows, arriving, receipts, shown>>

Thread == {"hub", "delivery"}
HubPhase == {"idle", "load", "enqueue", "drain"}
AtRest == [at |-> "idle", left |-> 0, rows |-> {}]

ReceiptsTypeOK ==
    /\ time \in 1..LastTime
    /\ live \in Contact \cup {Nobody} /\ visible \in BOOLEAN /\ gate \in BOOLEAN
    /\ clock \in 0..time /\ exitAt \in [Contact -> 0..time]
    /\ cmds \in Seq(Contact \cup {Nobody})
    /\ hub \in [at : HubPhase, left : 0..2, rows : SUBSET Mail]
    /\ received \in [Mail -> 0..time]
    /\ receipted \subseteq Mail /\ queued \subseteq Mail /\ shown \subseteq Mail
    /\ arriving \in Mail \cup {NoMsg}
    /\ sending \in [Thread -> Mail \cup {NoMsg}]
    /\ failures \in 0..MaxFailures

ReceiptsInit ==
    /\ time = 1
    /\ live = Nobody /\ visible = TRUE /\ gate = FALSE
    /\ clock = 0 /\ exitAt = [c \in Contact |-> 0]
    /\ cmds = <<>> /\ hub = AtRest
    /\ received = [m \in Mail |-> 0] /\ receipted = {}
    /\ arriving = NoMsg
    /\ queued = {} /\ sending = [t \in Thread |-> NoMsg] /\ failures = 0
    /\ shown = {}

-----------------------------------------------------------------------------
\* may_send_read_ack_for_contact_pk
MaySend(c) == visible /\ gate /\ live = c

\* read_ack_cutoff_ms
Cutoff(c) ==
    LET at == IF MaySend(c) THEN clock ELSE exitAt[c]
    IN IF at > 0 THEN at ELSE time

Arrived(m) == received[m] > 0
Unread(m) == Arrived(m) /\ m \notin receipted

\* Rows that seed_read_acks_for_sender queues.
DueReceipts(c) == {m \in Mail : RoomOf[m] = c /\ Unread(m) /\ received[m] <= Cutoff(c)}

\* should_attempt_read_ack, for a message whose receipt was not sent
Sendable(m) == MaySend(RoomOf[m]) \/ (Unread(m) /\ received[m] <= Cutoff(RoomOf[m]))

Claimed(m) == \E t \in Thread : sending[t] = m
Displayed(c) == {m \in Mail : RoomOf[m] = c /\ Arrived(m)}

-----------------------------------------------------------------------------
(* The hub thread: p2p_sync_ui_session.  A call that changes nothing       *)
(* returns at once.                                                        *)

\* set_open_room(Some(c)), or set_app_visible(true) with the room c open
ShowRoom(c) ==
    /\ hub = AtRest /\ ~MaySend(c) /\ Len(cmds) < MaxCmds
    /\ visible' = TRUE /\ gate' = TRUE /\ live' = c
    /\ IF live # c
       THEN /\ cmds' = Append(cmds, c)
            /\ hub' = [at |-> "load", left |-> 1, rows |-> {}]
       ELSE /\ UNCHANGED cmds
            /\ hub' = [at |-> "load", left |-> 0, rows |-> {}]
    /\ shown' = shown \cup Displayed(c)
    /\ UNCHANGED <<time, clocks, rows, arriving, receipts>>

\* set_open_room(None), also when the app becomes visible without a room.
\* The clock of the room keeps its value: nothing is frozen or drained.
LeaveRoom ==
    /\ hub = AtRest /\ (live # Nobody \/ ~visible) /\ Len(cmds) < MaxCmds
    /\ visible' = TRUE /\ gate' = FALSE /\ live' = Nobody
    /\ cmds' = IF live # Nobody THEN Append(cmds, Nobody) ELSE cmds
    /\ UNCHANGED <<time, clocks, hub, rows, arriving, receipts, shown>>

\* set_app_visible(false): freeze_open_chat_room_session, the room stays
HideApp ==
    /\ hub = AtRest /\ visible
    /\ visible' = FALSE /\ gate' = FALSE
    /\ exitAt' = IF live # Nobody /\ clock > 0 THEN [exitAt EXCEPT ![live] = clock] ELSE exitAt
    /\ clock' = 0
    /\ UNCHANGED <<time, live, cmds, hub, rows, arriving, receipts, shown>>

\* seed_read_acks_for_sender: the transcript is read ...
SeedLoad ==
    /\ hub.at = "load"
    /\ hub' = [hub EXCEPT !.at = "enqueue", !.rows = DueReceipts(live)]
    /\ UNCHANGED <<time, room, clocks, cmds, rows, arriving, receipts, shown>>

\* ... and the rows are queued.
SeedEnqueue ==
    /\ hub.at = "enqueue"
    /\ hub' = [hub EXCEPT !.at = "drain", !.rows = queued \cup hub.rows]
    /\ queued' = queued \cup hub.rows
    /\ UNCHANGED <<time, room, clocks, cmds, rows, arriving, sending, failures, shown>>

\* The drain has gone through the queue it copied; the room is seeded again
\* after the first time.
DrainEnds ==
    /\ hub.at = "drain" /\ hub.rows = {} /\ sending["hub"] = NoMsg
    /\ hub' = IF hub.left > 0 THEN [hub EXCEPT !.at = "load", !.left = @ - 1] ELSE AtRest
    /\ UNCHANGED <<time, room, clocks, cmds, rows, arriving, receipts, shown>>

-----------------------------------------------------------------------------
(* The connect worker.                                                     *)

\* SetForegroundPeer: begin_chat_room_session
BeginSession ==
    /\ cmds # <<>>
    /\ cmds' = Tail(cmds)
    /\ IF Head(cmds) # Nobody
       THEN clock' = time /\ exitAt' = [exitAt EXCEPT ![Head(cmds)] = time]
       ELSE UNCHANGED clocks
    /\ UNCHANGED <<time, room, hub, rows, arriving, receipts, shown>>

\* Mutant of TickSession: the tick records the exit and leaves the clock.
TickSessionExitOnly ==
    /\ live # Nobody /\ MaySend(live)
    /\ clock' = IF clock = 0 THEN time ELSE clock
    /\ exitAt' = [exitAt EXCEPT ![live] = time]
    /\ UNCHANGED <<time, room, cmds, hub, rows, arriving, receipts, shown>>

\* Mutant of TickSession: the tick stamps the end of the second it covers.
TickSessionAhead ==
    /\ live # Nobody /\ MaySend(live)
    /\ clock' = time + 1 /\ exitAt' = [exitAt EXCEPT ![live] = time + 1]
    /\ UNCHANGED <<time, room, cmds, hub, rows, arriving, receipts, shown>>

\* tick_chat_room_session_if_active, every second
TickSession ==
    /\ live # Nobody /\ MaySend(live)
    /\ clock' = time /\ exitAt' = [exitAt EXCEPT ![live] = time]
    /\ UNCHANGED <<time, room, cmds, hub, rows, arriving, receipts, shown>>

-----------------------------------------------------------------------------
(* Receipts.                                                               *)

\* The delivery worker stores a message; an open room displays it.
Receive(m) ==
    /\ arriving = NoMsg /\ sending["delivery"] = NoMsg /\ ~Arrived(m)
    /\ received' = [received EXCEPT ![m] = time]
    /\ arriving' = m
    /\ shown' = IF MaySend(RoomOf[m]) THEN shown \cup {m} ELSE shown
    /\ UNCHANGED <<time, room, clocks, cmds, hub, receipted, receipts>>

\* Mutant of TryRead: the room may have been left or another one opened.
TryReadUngated ==
    /\ arriving # NoMsg
    /\ arriving' = NoMsg
    /\ sending' = IF live # Nobody /\ ~Claimed(arriving)
                  THEN [sending EXCEPT !["delivery"] = arriving] ELSE sending
    /\ UNCHANGED <<time, room, clocks, cmds, hub, rows, queued, failures, shown>>

\* try_read_ack_after_inbound_async; it never queues the message.
TryRead ==
    /\ arriving # NoMsg
    /\ arriving' = NoMsg
    /\ sending' = IF MaySend(RoomOf[arriving]) /\ ~Claimed(arriving)
                  THEN [sending EXCEPT !["delivery"] = arriving] ELSE sending
    /\ UNCHANGED <<time, room, clocks, cmds, hub, rows, queued, failures, shown>>

\* One item of drain_pending_read_acks, in the forced drain of the hub or in
\* the upkeep of the delivery worker.
Turn(t, m) ==
    /\ sending[t] = NoMsg
    /\ IF t = "hub" THEN hub.at = "drain" /\ m \in hub.rows
                    ELSE arriving = NoMsg /\ m \in queued

PassTurn(t, m) == hub' = IF t = "hub" THEN [hub EXCEPT !.rows = @ \ {m}] ELSE hub

Attempt(t, m) ==
    /\ Turn(t, m) /\ m \notin receipted /\ Sendable(m) /\ ~Claimed(m)
    /\ sending' = [sending EXCEPT ![t] = m]
    /\ PassTurn(t, m)
    /\ UNCHANGED <<time, room, clocks, cmds, rows, arriving, queued, failures, shown>>

\* The item is not due, or the other thread is sending it.
Skip(m) ==
    /\ Turn("hub", m) /\ m \notin receipted /\ (~Sendable(m) \/ Claimed(m))
    /\ PassTurn("hub", m)
    /\ UNCHANGED <<time, room, clocks, cmds, rows, arriving, receipts, shown>>

\* Mutant of DropSent: the item is passed over and stays queued.
PassSent(t, m) ==
    /\ Turn(t, m) /\ m \in receipted
    /\ PassTurn(t, m)
    /\ UNCHANGED <<time, room, clocks, cmds, rows, arriving, receipts, shown>>

\* Its receipt was sent after the item was queued or copied.
DropSent(t, m) ==
    /\ Turn(t, m) /\ m \in receipted
    /\ queued' = queued \ {m}
    /\ PassTurn(t, m)
    /\ UNCHANGED <<time, room, clocks, cmds, rows, arriving, sending, failures, shown>>

ReadDone(t) ==
    /\ sending[t] # NoMsg
    /\ sending' = [sending EXCEPT ![t] = NoMsg]
    /\ receipted' = receipted \cup {sending[t]}
    /\ queued' = queued \ {sending[t]}
    /\ UNCHANGED <<time, room, clocks, cmds, hub, received, arriving, failures, shown>>

\* The claim is given back; a queued message stays queued.
ReadFails(t) ==
    /\ sending[t] # NoMsg /\ failures < MaxFailures
    /\ sending' = [sending EXCEPT ![t] = NoMsg]
    /\ failures' = failures + 1
    /\ UNCHANGED <<time, room, clocks, cmds, hub, rows, arriving, queued, shown>>

TimePasses ==
    /\ time < LastTime
    /\ time' = time + 1
    /\ UNCHANGED <<room, clocks, cmds, hub, rows, arriving, receipts, shown>>

-----------------------------------------------------------------------------
Hub == (\E c \in Contact : ShowRoom(c)) \/ LeaveRoom \/ HideApp
HubWork == SeedLoad \/ SeedEnqueue \/ DrainEnds \/ \E m \in Mail : Skip(m)
ConnectWorker == BeginSession \/ TickSession
Receipts(t) == (\E m \in Mail : Attempt(t, m) \/ DropSent(t, m)) \/ ReadDone(t)

ReceiptsNext ==
    \/ Hub \/ HubWork \/ ConnectWorker
    \/ \E m \in Mail : Receive(m)
    \/ TryRead
    \/ \E t \in Thread : Receipts(t) \/ ReadFails(t)
    \/ TimePasses

ReceiptsSpec == ReceiptsInit /\ [][ReceiptsNext]_receiptsVars

(* The threads go on; people need not open anything and the server may     *)
(* refuse up to MaxFailures receipts.                                      *)
ReceiptsFairSpec ==
    /\ ReceiptsSpec
    /\ WF_receiptsVars(HubWork) /\ WF_receiptsVars(BeginSession) /\ WF_receiptsVars(TickSession) /\ WF_receiptsVars(TryRead)
    /\ \A t \in Thread : WF_receiptsVars(Receipts(t))

-----------------------------------------------------------------------------
(* Properties.                                                             *)

\* A receipt is only sent, and only on its way, for a message that the open,
\* visible room has displayed: not for mail that came after the room was left
\* or another one was opened, however late commands, ticks and retries run
\* (DESIGN.md, Room open, leave, and read acks).
ReadOnlyIfShown ==
    receipted \cup ({sending[t] : t \in Thread} \ {NoMsg}) \subseteq shown

\* The exit time of a room never goes back: the freeze writes the room clock,
\* which is never behind what the begin and the ticks of any room have written.
\* A receipt that was due by the exit time stays due.
ExitMovesForward == [][\A c \in Contact : exitAt'[c] >= exitAt[c]]_receiptsVars

\* A queued receipt does not stay queued while its room stays open and visible,
\* whichever thread fails with it.
QueuedIsSentInRoom ==
    \A m \in Mail : ~<>[](m \in queued /\ MaySend(RoomOf[m]))

\* DESIGN.md: "read" means that the recipient had the room open.  So a message
\* in a room that stays open and visible gets its receipt when none fails.
OpenRoomIsRead ==
    \A m \in Mail : <>[](Arrived(m) /\ MaySend(RoomOf[m])) => <>(m \in receipted)
=============================================================================
