---------------------------- MODULE UnreadBadge ----------------------------
(***************************************************************************)
(* The unread count of the contact list: dm_event_handler.rs (inbound      *)
(* text, voice note and attachment alike), contacts_v1.rs and the part of  *)
(* p2p_runtime.rs that clears the count when a room opens.                 *)
(*                                                                         *)
(* The delivery worker applies an inbound message and then queues an event *)
(* for the hub, whose thread applies the same message again when it polls. *)
(* What the hub replays of a voice note has no audio path and is dropped.   *)
(* Applying is not atomic: it reads whether the room is open and whether   *)
(* the transcript has the message, then counts, then appends.  The hub     *)
(* opens a room in two steps, first the live room, then the count.  The    *)
(* contact file is rewritten under one lock, so a step on it is atomic.    *)
(***************************************************************************)
EXTENDS Integers, FiniteSets

CONSTANTS
    SenderOf,        \* the contact each message comes from
    SentAt,          \* created_at_ms of each message
    KindOf,          \* msg_kind of each message
    Nowhere,         \* no room
    MaxBadgeFailures \* bound of the transcript writes that fail

BadgeMsg == DOMAIN SenderOf
BadgeContact == {SenderOf[m] : m \in BadgeMsg}

ASSUME BadgeAssumption ==
    /\ IsFiniteSet(BadgeMsg)
    /\ SentAt \in [BadgeMsg -> Nat \ {0}]
    /\ KindOf \in [BadgeMsg -> {"text", "voice", "attachment_offer"}]
    /\ Nowhere \notin BadgeContact
    /\ MaxBadgeFailures \in Nat

VARIABLES
    openRoom,   \* live foreground peer
    onScreen,   \* app_ui_visible and the read gate, which follow each other
    clearing,   \* the room the hub has opened and not yet cleared, or Nowhere
    blocked,    \* contacts: is_blocked
    unread,     \* contacts: unread_count
    previewAt,  \* contacts: last_message_at_ms, 0 when unset
    transcript, \* inbound messages with a row
    applying,   \* what each thread is applying, a set of at most one job
    replays,    \* events the hub has not polled
    badgeFailures, \* history: appends that failed
    unwatched   \* history: messages whose room was closed since they arrived

roster == <<unread, previewAt>>
screen == <<openRoom, onScreen, clearing>>
badgeVars == <<screen, blocked, roster, transcript, applying, replays, badgeFailures, unwatched>>

Applier == {"worker", "hub"}
Job == [msg : BadgeMsg, bump : BOOLEAN, counted : BOOLEAN]

BadgeTypeOK ==
    /\ openRoom \in BadgeContact \union {Nowhere} /\ onScreen \in BOOLEAN
    /\ clearing \in BadgeContact \union {Nowhere}
    /\ blocked \subseteq BadgeContact
    /\ unread \in [BadgeContact -> Nat] /\ previewAt \in [BadgeContact -> Nat]
    /\ transcript \subseteq BadgeMsg /\ replays \subseteq BadgeMsg /\ unwatched \subseteq BadgeMsg
    /\ \A t \in Applier : applying[t] \subseteq Job /\ Cardinality(applying[t]) <= 1
    /\ badgeFailures \in 0..MaxBadgeFailures

BadgeInit ==
    /\ openRoom = Nowhere /\ onScreen = TRUE /\ clearing = Nowhere
    /\ blocked = {} /\ transcript = {} /\ replays = {} /\ unwatched = {}
    /\ unread = [c \in BadgeContact |-> 0]
    /\ previewAt = [c \in BadgeContact |-> 0]
    /\ applying = [t \in Applier |-> {}]
    /\ badgeFailures = 0

From(c) == {m \in BadgeMsg : SenderOf[m] = c}
Watched(c) == onScreen /\ openRoom = c
HubIsFree == applying["hub"] = {} /\ clearing = Nowhere

(* What the thread decides before it writes: bump unless the room is open  *)
(* on screen (inbound_suppresses_hub_unread).  A message the transcript    *)
(* has is a replay and changes nothing; a blocked sender is ignored.       *)
Begin(t, m) ==
    IF SenderOf[m] \in blocked \/ m \in transcript
    THEN applying' = applying
    ELSE applying' = [applying EXCEPT ![t] =
                         {[msg |-> m, bump |-> ~Watched(SenderOf[m]), counted |-> FALSE]}]

ApplyText(t, m) == Begin(t, m)

ApplyVoice(t, m) == IF t = "hub" THEN applying' = applying ELSE Begin(t, m)

ApplyOffer(t, m) == Begin(t, m)

Apply(t, m) ==
    \/ KindOf[m] = "text" /\ ApplyText(t, m)
    \/ KindOf[m] = "voice" /\ ApplyVoice(t, m)
    \/ KindOf[m] = "attachment_offer" /\ ApplyOffer(t, m)

(* The server pushes a message, once or again. *)
Push(m) ==
    /\ applying["worker"] = {}
    /\ Apply("worker", m)
    /\ unwatched' = IF Watched(SenderOf[m]) \/ m \in transcript \/ SenderOf[m] \in blocked
                    THEN unwatched ELSE unwatched \union {m}
    /\ UNCHANGED <<screen, blocked, roster, transcript, replays, badgeFailures>>

(* The hub polls: it replays what the worker has applied. *)
Poll(m) ==
    /\ HubIsFree /\ m \in replays
    /\ replays' = replays \ {m}
    /\ Apply("hub", m)
    /\ UNCHANGED <<screen, blocked, roster, transcript, badgeFailures, unwatched>>

CountNewestOnly(t) ==  \* mutant: an older message does not count
    \E job \in applying[t] :
        LET c == SenderOf[job.msg]
            newer == SentAt[job.msg] >= previewAt[c] IN
        /\ ~job.counted
        /\ unread' = [unread EXCEPT ![c] = IF job.bump /\ newer THEN @ + 1 ELSE @]
        /\ previewAt' = [previewAt EXCEPT ![c] = IF newer THEN SentAt[job.msg] ELSE @]
        /\ applying' = [applying EXCEPT ![t] = {[job EXCEPT !.counted = TRUE]}]
        /\ UNCHANGED <<screen, blocked, transcript, replays, badgeFailures, unwatched>>

(* record_inbound_preview: an older message leaves the preview and counts. *)
Count(t) ==
    \E job \in applying[t] :
        LET c == SenderOf[job.msg] IN
        /\ ~job.counted
        /\ unread' = [unread EXCEPT ![c] = IF job.bump THEN @ + 1 ELSE @]
        /\ previewAt' = [previewAt EXCEPT ![c] = IF SentAt[job.msg] < @ THEN @ ELSE SentAt[job.msg]]
        /\ applying' = [applying EXCEPT ![t] = {[job EXCEPT !.counted = TRUE]}]
        /\ UNCHANGED <<screen, blocked, transcript, replays, badgeFailures, unwatched>>

(* append_if_new; when it fails the contact has changed all the same, so   *)
(* the worker queues the event and the hub tries again.                    *)
AppendRow(t) ==
    \E job \in applying[t], saved \in BOOLEAN :
        /\ job.counted
        /\ saved \/ badgeFailures < MaxBadgeFailures
        /\ transcript' = IF saved THEN transcript \union {job.msg} ELSE transcript
        /\ badgeFailures' = IF saved THEN badgeFailures ELSE badgeFailures + 1
        /\ replays' = IF t = "worker" THEN replays \union {job.msg} ELSE replays
        /\ applying' = [applying EXCEPT ![t] = {}]
        /\ UNCHANGED <<screen, blocked, roster, unwatched>>

(* set_open_room and then clear_unread. *)
EnterRoom(c) ==
    /\ HubIsFree
    /\ openRoom' = c /\ onScreen' = TRUE /\ clearing' = c
    /\ unwatched' = unwatched \ From(c)
    /\ UNCHANGED <<blocked, roster, transcript, applying, replays, badgeFailures>>

ClearUnread ==
    /\ clearing # Nowhere
    /\ unread' = [unread EXCEPT ![clearing] = 0]
    /\ clearing' = Nowhere
    /\ UNCHANGED <<openRoom, onScreen, blocked, previewAt, transcript, applying, replays, badgeFailures, unwatched>>

QuitRoom ==
    /\ HubIsFree /\ openRoom # Nowhere
    /\ openRoom' = Nowhere /\ onScreen' = TRUE
    /\ UNCHANGED <<clearing, blocked, roster, transcript, applying, replays, badgeFailures, unwatched>>

(* Android background and foreground; the room stays. *)
TurnScreen ==
    /\ HubIsFree
    /\ onScreen' = ~onScreen
    /\ unwatched' = IF onScreen' THEN {m \in unwatched : SenderOf[m] # openRoom} ELSE unwatched
    /\ UNCHANGED <<openRoom, clearing, blocked, roster, transcript, applying, replays, badgeFailures>>

SetBlocked(c) ==
    /\ HubIsFree
    /\ blocked' = IF c \in blocked THEN blocked \ {c} ELSE blocked \union {c}
    /\ UNCHANGED <<screen, roster, transcript, applying, replays, badgeFailures, unwatched>>

BadgeNext ==
    \/ \E m \in BadgeMsg : Push(m) \/ Poll(m)
    \/ \E t \in Applier : Count(t) \/ AppendRow(t)
    \/ \E c \in BadgeContact : EnterRoom(c) \/ SetBlocked(c)
    \/ ClearUnread \/ QuitRoom \/ TurnScreen

BadgeSpec == BadgeInit /\ [][BadgeNext]_badgeVars

-----------------------------------------------------------------------------
(* The badge of a room nobody looks at covers every message that came      *)
(* while it was closed, in whatever order they were sent, and no message   *)
(* counts twice although two threads apply it: only a transcript that      *)
(* could not be written makes one count again, on the replay and when the  *)
(* server pushes it again.                                                 *)
BadgeCoversUnseen ==
    \A c \in BadgeContact :
        LET busy == {job \in applying["worker"] \union applying["hub"] :
                        job.counted /\ SenderOf[job.msg] = c}
        IN  /\ ~Watched(c) => unread[c] >= Cardinality(unwatched \intersect transcript \intersect From(c))
            /\ unread[c] <= Cardinality(transcript \intersect From(c)) + Cardinality(busy) + 2 * badgeFailures
=============================================================================
