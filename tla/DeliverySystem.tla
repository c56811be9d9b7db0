--------------------------- MODULE DeliverySystem ---------------------------
(***************************************************************************)
(* One sender device, the mailbox server and one recipient device: how a   *)
(* chat message goes from "pending" on the sender to "read", through the   *)
(* upload threads and the worker of delivery_runtime.rs, the handlers of   *)
(* ws.rs and the table of Mailbox.                                         *)
(*                                                                         *)
(* The store calls of the server are single actions (Mailbox); everything  *)
(* between two store calls, two lock acquisitions or two frames is a step  *)
(* of its own.  A handler commits first and pushes afterwards; a push goes *)
(* to the sessions open at that moment and is lost when there is none.     *)
(* Pushes still in a connection are kept as a set: the marks they change   *)
(* do not depend on their order.                                           *)
(*                                                                         *)
(* A message is a text, a voice note or a file.  All three take the same   *)
(* way; what they differ in is where a retry finds the content again.      *)
(* The form of an upload tells whether it carries the content as it was    *)
(* sent ("whole") or only the line shown for it ("caption").               *)
(*                                                                         *)
(* faults bounds the unlucky events (lost connections, crashes, late       *)
(* threads), MaxUploads the uploads that reach the store.                  *)
(***************************************************************************)
EXTENDS Integers, FiniteSets, Sequences

CONSTANTS
    Msg,          \* messages the sender may send, all to the one recipient
    Kinds,        \* the kinds of message sent: text, voice, attachment_offer
    S, R,         \* the two identities
    Quota,        \* quota_per_peer, in messages
    MaxTime,      \* bound of the clock
    MaxFaults,    \* bound of lost connections, crashes and late threads
    MaxUploads,   \* bound of the stored uploads of one message
    PersistFails, \* whether the recipient's transcript append may fail
    NoRow,        \* no row in the table
    NoOne         \* no session has issued or used an operation nonce

VARIABLES
    now, row, uploads, settled,  \* the mailbox table
    tick,       \* sender transcript: the delivery field of each row
    kind,       \* sender transcript: msg_kind of each row
    form,       \* sender: what the claimed upload of each message carries
    thread,     \* sender: state of the claimed upload of each message
    outcome,    \* sender: results of upload threads not yet patched in
    sOnline,    \* the sender's worker has a registered session
    sNotices,   \* pushes in the connection to that session
    job,        \* server: the upload request of each message, <<stage, form>>
    blob,       \* server: the form of the stored envelope of each message
    nonce,      \* server: whose session holds the sender's current op nonce
    notify,     \* server: committed changes whose push is still to be made
    rOnline,    \* the recipient's worker has a registered session
    listing,    \* server: deliver_pending_inbound is still to run for it
    rOffers,    \* inbound messages in the connection to that session, with form
    rWork,      \* recipient: what the worker is doing, <<stage, message>>
    rRequests,  \* inbox.ack and inbox.read requests the server has to process
    got,        \* recipient transcript: the forms of the rows of each message
    roomOpen,   \* the chat room is open, visible and read acks are enabled
    seen,       \* messages received before or during the last session of the room
    readSent,   \* recipient transcript: read_ack_sent
    faults      \* history: unlucky events so far

mailbox    == <<now, row, uploads, settled, blob>>
sender     == <<kind, form, tick, thread, outcome>>
request    == <<kind, form>>
sLink      == <<sOnline, sNotices>>
server     == <<job, nonce, notify>>
rLink      == <<rOnline, listing, rOffers>>
recipient  == <<rWork, rRequests, got, roomOpen, seen, readSent>>
vars == <<mailbox, sender, sLink, server, rLink, recipient, faults>>

\* Every envelope has size 1 and the default TTL.
Box == INSTANCE Mailbox WITH
         Sender <- {S}, Recipient <- {R}, MessageId <- Msg,
         MaxSize <- 1, MinTtl <- 1, MaxTtl <- 1

Marks   == {"none", "pending", "failed", "sent", "delivered", "read"}
Forms   == {"whole", "caption"}
Notice  == {"delivered", "read", "expired"} \X Msg
Inbound == {"inbound"} \X Msg \X Forms
Push    == Notice \cup Inbound
Request == {"ack", "read", "read_ok"} \X Msg   \* read_ok: the answer to a read
Idle    == <<"idle", NoOne>>
NoJob   == <<"none", "whole">>

Key(m) == <<S, m>>

ASSUME DeliveryAssumption ==
    /\ Kinds \subseteq {"text", "voice", "attachment_offer"}
    /\ {MaxTime, MaxFaults, MaxUploads, Quota} \subseteq Nat
    /\ PersistFails \in BOOLEAN
    /\ NoRow \notin Box!Row

TypeOK ==
    /\ Box!TypeOK
    /\ tick \in [Msg -> Marks]
    /\ kind \in [Msg -> Kinds \cup {"none"}]
    /\ form \in [Msg -> Forms] /\ blob \in [Msg -> Forms]
    /\ thread \in [Msg -> {"idle", "connecting", "waiting"}]
    /\ outcome \subseteq Msg \X {"ok", "hard"}
    /\ sOnline \in BOOLEAN /\ sNotices \subseteq Notice
    /\ job \in [Msg -> {"none", "received", "stored"} \X Forms]
    /\ nonce \in Msg \cup {S, NoOne}
    /\ notify \subseteq Push
    /\ rOnline \in BOOLEAN /\ listing \in BOOLEAN /\ rOffers \subseteq Msg \X Forms
    /\ rWork \in Request \cup {Idle}
    /\ rRequests \subseteq Request
    /\ got \in [Msg -> Seq(Forms)]
    /\ roomOpen \in BOOLEAN /\ seen \subseteq Msg /\ readSent \subseteq Msg
    /\ faults \in 0 .. MaxFaults

Init ==
    /\ Box!Init
    /\ tick = [m \in Msg |-> "none"]
    /\ kind = [m \in Msg |-> "none"]
    /\ form = [m \in Msg |-> "whole"] /\ blob = [m \in Msg |-> "whole"]
    /\ thread = [m \in Msg |-> "idle"]
    /\ outcome = {}
    /\ sOnline = FALSE /\ sNotices = {}
    /\ job = [m \in Msg |-> NoJob]
    /\ nonce = NoOne
    /\ notify = {}
    /\ rOnline = FALSE /\ listing = FALSE /\ rOffers = {}
    /\ rWork = Idle
    /\ rRequests = {}
    /\ got = [m \in Msg |-> <<>>]
    /\ roomOpen = FALSE /\ seen = {} /\ readSent = {}
    /\ faults = 0

Fault == faults < MaxFaults /\ faults' = faults + 1

----------------------------------------------------------------------------
(* The marks of the sender's transcript.                                   *)

MarkRank == [none |-> -1, pending |-> 0, failed |-> 1, sent |-> 2, delivered |-> 3, read |-> 4]

\* patch_outgoing_delivery: a mark only replaces a lower one.
Raised(m, mark) ==
    IF MarkRank[tick[m]] < MarkRank[mark] THEN [tick EXCEPT ![m] = mark] ELSE tick

\* patch_outgoing_failed: pending and sent rows only.
Failed(m) == IF tick[m] \in {"pending", "sent"} THEN [tick EXCEPT ![m] = "failed"] ELSE tick

----------------------------------------------------------------------------
(* The sender's device.                                                    *)

\* delivery_send_text_dm, delivery_send_voice_dm, p2p_send_attachment: append
\* the transcript row, then claim the message and upload what was sent.
Send(m, k) ==
    /\ tick[m] = "none"
    /\ tick' = [tick EXCEPT ![m] = "pending"]
    /\ kind' = [kind EXCEPT ![m] = k]
    /\ form' = [form EXCEPT ![m] = "whole"]
    /\ thread' = [thread EXCEPT ![m] = "connecting"]
    /\ UNCHANGED <<mailbox, outcome, sLink, server, rLink, recipient, faults>>

\* Mutation: the text of the row stands in for the content of every kind.
RetryFormText(k) == IF k = "text" THEN "whole" ELSE "caption"

\* What a retry uploads: a text has its content in the row and a voice note in
\* the file the row names; of every other row the text is taken, which for an
\* attachment is the caption with the file's name.
RetryForm(k) == IF k \in {"text", "voice"} THEN "whole" ELSE "caption"

\* try_claim_outbox_upload: one upload thread for a message at a time.
Claimable(m) == thread[m] = "idle"

\* delivery_outbox_upkeep of the connected worker: a pending row that no thread
\* has claimed is uploaded again.  A thread gives its claim back before it
\* patches the row, so the row may be pending although its upload is over.
Retry(m) ==
    /\ sOnline /\ tick[m] = "pending" /\ Claimable(m)
    /\ uploads[Key(m)] < MaxUploads
    /\ IF \E o \in outcome : o[1] = m THEN Fault ELSE UNCHANGED faults
    /\ form' = [form EXCEPT ![m] = RetryForm(kind[m])]
    /\ thread' = [thread EXCEPT ![m] = "connecting"]
    /\ UNCHANGED <<mailbox, kind, tick, outcome, sLink, server, rLink, recipient>>

\* The upload's own session becomes ready, which replaces the op nonce of the
\* identity, and the signed request is sent.
RequestUpload(m) ==
    /\ thread[m] = "connecting"
    /\ thread' = [thread EXCEPT ![m] = "waiting"]
    /\ job' = [job EXCEPT ![m] = <<"received", form[m]>>]
    /\ nonce' = m
    /\ UNCHANGED <<mailbox, request, tick, outcome, sLink, notify, rLink, recipient, faults>>

\* connect_and_auth fails.  When it is the sending of session.auth that fails,
\* the error text holds "auth", which the upload thread takes for permanent.
ConnectFails(m, hard) ==
    /\ thread[m] = "connecting" /\ Fault
    /\ thread' = [thread EXCEPT ![m] = "idle"]
    /\ outcome' = IF hard THEN outcome \cup {<<m, "hard">>} ELSE outcome
    /\ UNCHANGED <<mailbox, request, tick, sLink, server, rLink, recipient>>

\* Mutation: the claim is not given back.
UploadLostClaimed(m) ==
    /\ thread[m] = "waiting" /\ Fault
    /\ job[m][1] = "received" /\ job' = [job EXCEPT ![m] = NoJob]
    /\ UNCHANGED <<mailbox, request, tick, thread, outcome, sLink, nonce, notify, rLink, recipient>>

\* The connection breaks while the thread waits for message.upload.ok: a soft
\* error.  The request may have been lost, or the server still works on it.
UploadLost(m) ==
    /\ thread[m] = "waiting" /\ Fault
    /\ thread' = [thread EXCEPT ![m] = "idle"]
    /\ \/ UNCHANGED job
       \/ job[m][1] = "received" /\ job' = [job EXCEPT ![m] = NoJob]
    /\ UNCHANGED <<mailbox, request, tick, outcome, sLink, nonce, notify, rLink, recipient>>

\* The thread patches the transcript with the result of its upload.
Patch(m, result) ==
    /\ <<m, result>> \in outcome
    /\ outcome' = outcome \ {<<m, result>>}
    /\ tick' = IF result = "ok" THEN Raised(m, "sent") ELSE Failed(m)
    /\ UNCHANGED <<mailbox, request, thread, sLink, server, rLink, recipient, faults>>

\* The worker's session is registered; its authentication, too, replaces the
\* op nonce of the identity.
SenderConnects ==
    /\ ~sOnline
    /\ sOnline' = TRUE
    /\ nonce' = S
    /\ UNCHANGED <<mailbox, sender, sNotices, job, notify, rLink, recipient, faults>>

SenderDrops ==
    /\ sOnline /\ Fault
    /\ sOnline' = FALSE /\ sNotices' = {}
    /\ UNCHANGED <<mailbox, sender, server, rLink, recipient>>

\* The process ends: claims and unpatched results are lost, the transcript stays.
SenderCrashes ==
    /\ Fault
    /\ thread' = [m \in Msg |-> "idle"] /\ outcome' = {}
    /\ sOnline' = FALSE /\ sNotices' = {}
    /\ UNCHANGED <<mailbox, request, tick, server, rLink, recipient>>

\* Mutation: the row takes the name of the push as its mark.
HandleNoticeByName(n) ==
    /\ n \in sNotices
    /\ sNotices' = sNotices \ {n}
    /\ tick' = [tick EXCEPT ![n[2]] = n[1]]
    /\ UNCHANGED <<mailbox, request, thread, outcome, sOnline, server, rLink, recipient, faults>>

\* handle_push_frame of the sender's worker.
HandleNotice(n) ==
    /\ n \in sNotices
    /\ sNotices' = sNotices \ {n}
    /\ tick' = IF n[1] = "expired" THEN Failed(n[2]) ELSE Raised(n[2], n[1])
    /\ UNCHANGED <<mailbox, request, thread, outcome, sOnline, server, rLink, recipient, faults>>

----------------------------------------------------------------------------
(* The server.                                                             *)

\* handle_upload up to the store call.  The op nonce of the request is only
\* valid while no other session of the sender has become ready.
StoreUpload(m) ==
    /\ job[m][1] = "received" /\ nonce = m
    /\ Box!Upload(S, m, R, 1, 1)
    /\ blob' = [blob EXCEPT ![m] = job[m][2]]
    /\ job' = [job EXCEPT ![m][1] = "stored"]
    /\ notify' = notify \cup {<<"inbound", m, job[m][2]>>}
    /\ UNCHANGED <<sender, sLink, nonce, rLink, recipient, faults>>

\* A stale nonce or a full quota: the error is soft, the row stays pending.
RefuseUpload(m) ==
    /\ job[m][1] = "received"
    /\ nonce # m \/ ~Box!UploadFits(S, m, 1)
    /\ job' = [job EXCEPT ![m] = NoJob]
    /\ thread' = [thread EXCEPT ![m] = IF @ = "waiting" THEN "idle" ELSE @]
    /\ UNCHANGED <<mailbox, request, tick, outcome, sLink, nonce, notify, rLink, recipient, faults>>

\* message.upload.ok, after the push to the recipient.  The thread gives its
\* claim back; without a thread the answer goes nowhere.
AnswerUpload(m) ==
    /\ job[m][1] = "stored" /\ <<"inbound", m, job[m][2]>> \notin notify
    /\ job' = [job EXCEPT ![m] = NoJob]
    /\ IF thread[m] = "waiting"
       THEN /\ thread' = [thread EXCEPT ![m] = "idle"]
            /\ outcome' = outcome \cup {<<m, "ok">>}
       ELSE UNCHANGED <<thread, outcome>>
    /\ UNCHANGED <<mailbox, request, tick, sLink, nonce, notify, rLink, recipient, faults>>

\* SessionRegistry::push of a committed change: to the open session, if any.
MakePush(n) ==
    /\ n \in notify
    /\ notify' = notify \ {n}
    /\ rOffers' = IF n[1] = "inbound" /\ rOnline THEN rOffers \cup {<<n[2], n[3]>>} ELSE rOffers
    /\ sNotices' = IF n[1] # "inbound" /\ sOnline THEN sNotices \cup {n} ELSE sNotices
    /\ UNCHANGED <<mailbox, sender, sOnline, job, nonce, rOnline, listing, recipient, faults>>

\* The task spawned after session.ready offers everything that is queued.
ListPending ==
    /\ listing
    /\ listing' = FALSE
    /\ rOffers' = rOffers \cup {<<m, blob[m]>> : m \in {k \in Msg : Key(k) \in Box!PendingFor(R)}}
    /\ UNCHANGED <<mailbox, sender, sLink, server, rOnline, recipient, faults>>

\* handle_inbox_ack up to the push.
ServeAck(m) ==
    /\ <<"ack", m>> \in rRequests
    /\ rRequests' = rRequests \ {<<"ack", m>>}
    /\ IF "ok" \in Box!AckResults(R, m, S)
       THEN /\ Box!AckDeliver(R, m, S) /\ UNCHANGED blob
            /\ notify' = notify \cup {<<"delivered", m>>}
       ELSE UNCHANGED <<mailbox, notify>>
    /\ UNCHANGED <<sender, sLink, job, nonce, rLink, rWork, got, roomOpen, seen, readSent, faults>>

\* handle_inbox_read up to the push; a row that is read already is fine.
ServeRead(m) ==
    /\ <<"read", m>> \in rRequests
    /\ IF Box!ReadResults(R, m, S) \subseteq {"ok", "already"}
       THEN /\ IF "ok" \in Box!ReadResults(R, m, S)
               THEN Box!AckRead(R, m, S) /\ UNCHANGED blob ELSE UNCHANGED mailbox
            /\ notify' = notify \cup {<<"read", m>>}
            /\ rRequests' = (rRequests \ {<<"read", m>>}) \cup {<<"read_ok", m>>}
       ELSE /\ rRequests' = rRequests \ {<<"read", m>>}
            /\ UNCHANGED <<mailbox, notify>>
    /\ UNCHANGED <<sender, sLink, job, nonce, rLink, rWork, got, roomOpen, seen, readSent, faults>>

\* spawn_ttl_sweeper: commit, then push message.expired to the senders.
Sweep ==
    /\ Box!Sweep /\ UNCHANGED blob
    /\ notify' = notify \cup ({"expired"} \X {m \in Msg : Box!Due(Key(m))})
    /\ UNCHANGED <<sender, sLink, job, nonce, rLink, recipient, faults>>

ClockTick ==
    /\ Box!Tick /\ UNCHANGED blob
    /\ UNCHANGED <<sender, sLink, server, rLink, recipient, faults>>

\* A restart keeps the table and loses every session, request and push.
ServerRestarts ==
    /\ Fault
    /\ thread' = [m \in Msg |-> "idle"]
    /\ job' = [m \in Msg |-> NoJob] /\ nonce' = NoOne /\ notify' = {}
    /\ sOnline' = FALSE /\ sNotices' = {}
    /\ rOnline' = FALSE /\ listing' = FALSE /\ rOffers' = {}
    /\ rWork' = Idle /\ rRequests' = {}
    /\ UNCHANGED <<mailbox, request, tick, outcome, got, roomOpen, seen, readSent>>

----------------------------------------------------------------------------
(* The recipient's device.                                                 *)

\* Mutation: nothing is listed after session.ready.
RecipientConnectsUnlisted ==
    /\ ~rOnline
    /\ rOnline' = TRUE
    /\ UNCHANGED <<mailbox, sender, sLink, server, listing, rOffers, recipient, faults>>

\* Registered first, then session.ready, then the listing of pending messages.
RecipientConnects ==
    /\ ~rOnline
    /\ rOnline' = TRUE /\ listing' = TRUE
    /\ UNCHANGED <<mailbox, sender, sLink, server, rOffers, recipient, faults>>

\* append_if_new: one row per message id, however often it is offered.
Appended(m, f) == IF got[m] = <<>> THEN [got EXCEPT ![m] = <<f>>] ELSE got

\* Mutation: only what the open room displays is stored.
HandleInboundDisplayed(m, f) ==
    /\ rOnline /\ rWork = Idle /\ <<m, f>> \in rOffers
    /\ rOffers' = rOffers \ {<<m, f>>}
    /\ got' = IF roomOpen THEN Appended(m, f) ELSE got
    /\ seen' = IF roomOpen THEN seen \cup {m} ELSE seen
    /\ rWork' = <<"ack", m>>
    /\ rRequests' = rRequests \cup {<<"ack", m>>}
    /\ UNCHANGED <<mailbox, sender, sLink, server, rOnline, listing, roomOpen, readSent, faults>>

\* message.inbound: store locally, then acknowledge.  A failure to append the
\* row is logged only, and the message acknowledged all the same; a failure to
\* write the file of a voice note or an attachment leaves it unacknowledged.
HandleInbound(m, f) ==
    /\ rOnline /\ rWork = Idle /\ <<m, f>> \in rOffers
    /\ rOffers' = rOffers \ {<<m, f>>}
    /\ \/ /\ got' = Appended(m, f) \/ (PersistFails /\ got' = got)
          /\ rWork' = <<"ack", m>>
          /\ rRequests' = rRequests \cup {<<"ack", m>>}
       \/ /\ PersistFails /\ f = "whole" /\ kind[m] # "text"
          /\ UNCHANGED <<got, rWork, rRequests>>
    /\ seen' = IF roomOpen /\ got'[m] # <<>> THEN seen \cup {m} ELSE seen
    /\ UNCHANGED <<mailbox, sender, sLink, server, rOnline, listing, roomOpen, readSent, faults>>

\* Mutation: a read receipt follows whether or not the room is open.
AckAnsweredAnyRoom(m) ==
    /\ rWork = <<"ack", m>>
    /\ <<"ack", m>> \notin rRequests /\ <<"delivered", m>> \notin notify
    /\ rWork' = <<"read", m>> /\ rRequests' = rRequests \cup {<<"read", m>>}
    /\ UNCHANGED <<mailbox, sender, sLink, server, rLink, got, roomOpen, seen, readSent, faults>>

\* The answer to inbox.ack, good or bad: then a read receipt if the room is open.
AckAnswered(m) ==
    /\ rWork = <<"ack", m>>
    /\ <<"ack", m>> \notin rRequests /\ <<"delivered", m>> \notin notify
    /\ IF roomOpen
       THEN rWork' = <<"read", m>> /\ rRequests' = rRequests \cup {<<"read", m>>}
       ELSE rWork' = Idle /\ UNCHANGED rRequests
    /\ UNCHANGED <<mailbox, sender, sLink, server, rLink, got, roomOpen, seen, readSent, faults>>

\* The answer to inbox.read: only a good one is remembered.
ReadAnswered(m) ==
    /\ rWork = <<"read", m>>
    /\ <<"read", m>> \notin rRequests /\ <<"read", m>> \notin notify
    /\ readSent' = IF <<"read_ok", m>> \in rRequests THEN readSent \cup {m} ELSE readSent
    /\ rRequests' = rRequests \ {<<"read_ok", m>>}
    /\ rWork' = Idle
    /\ UNCHANGED <<mailbox, sender, sLink, server, rLink, got, roomOpen, seen, faults>>

\* The backlog of the room, without the queue that orders it: rows received no
\* later than the cutoff, which follows the clock while the room is open.
ReadBacklog(m) ==
    /\ rOnline /\ rWork = Idle /\ m \in seen /\ m \notin readSent
    /\ rWork' = <<"read", m>>
    /\ rRequests' = rRequests \cup {<<"read", m>>}
    /\ UNCHANGED <<mailbox, sender, sLink, server, rLink, got, roomOpen, seen, readSent, faults>>

OpenRoom ==
    /\ ~roomOpen
    /\ roomOpen' = TRUE
    /\ seen' = seen \cup {m \in Msg : got[m] # <<>>}
    /\ UNCHANGED <<mailbox, sender, sLink, server, rLink, rWork, rRequests, got, readSent, faults>>

CloseRoom ==
    /\ roomOpen
    /\ roomOpen' = FALSE
    /\ UNCHANGED <<mailbox, sender, sLink, server, rLink, rWork, rRequests, got, seen, readSent, faults>>

\* The session breaks, or the process ends and the room with it.  A request
\* under way reaches the server or not; its answer is lost.
RecipientDrops(crash) ==
    /\ rOnline /\ Fault
    /\ rOnline' = FALSE /\ listing' = FALSE /\ rOffers' = {}
    /\ rWork' = Idle
    /\ \E kept \in {rRequests, rRequests \ {rWork}} :
          rRequests' = {q \in kept : q[1] # "read_ok"}
    /\ roomOpen' = (roomOpen /\ ~crash)
    /\ UNCHANGED <<mailbox, sender, sLink, server, got, seen, readSent>>

----------------------------------------------------------------------------
SenderStep ==
    \/ \E m \in Msg, k \in Kinds : Send(m, k)
    \/ \E m \in Msg : Retry(m) \/ RequestUpload(m)
    \/ \E m \in Msg, result \in {"ok", "hard"} : Patch(m, result)
    \/ SenderConnects
    \/ \E n \in Notice : HandleNotice(n)

ServerStep ==
    \/ \E m \in Msg : StoreUpload(m) \/ RefuseUpload(m) \/ AnswerUpload(m)
    \/ \E n \in Push : MakePush(n)
    \/ ListPending
    \/ \E m \in Msg : ServeAck(m) \/ ServeRead(m)
    \/ Sweep
    \/ ClockTick

RecipientStep ==
    \/ RecipientConnects
    \/ \E m \in Msg, f \in Forms : HandleInbound(m, f)
    \/ \E m \in Msg : AckAnswered(m) \/ ReadAnswered(m) \/ ReadBacklog(m)
    \/ OpenRoom
    \/ CloseRoom

FaultStep ==
    \/ \E m \in Msg, hard \in BOOLEAN : ConnectFails(m, hard)
    \/ \E m \in Msg : UploadLost(m)
    \/ SenderDrops
    \/ SenderCrashes
    \/ ServerRestarts
    \/ \E crash \in BOOLEAN : RecipientDrops(crash)

Next == SenderStep \/ ServerStep \/ RecipientStep \/ FaultStep

Spec == Init /\ [][Next]_vars

\* What runs as long as the processes do, each loop, thread or task for itself:
\* worker loops reconnect and poll every second, threads and handlers run to
\* their end, the sweeper and the clock go on.  The user's steps (Send, the room)
\* and the faults are not fair.
UploadGoesOn  == \E m \in Msg : Retry(m) \/ RequestUpload(m)
ResultIsKept  == \E m \in Msg, result \in {"ok", "hard"} : Patch(m, result)
NoticeIsRead  == \E n \in Notice : HandleNotice(n)
UploadServed  == \E m \in Msg : StoreUpload(m) \/ RefuseUpload(m) \/ AnswerUpload(m)
PushGoesOut   == \E n \in Push : MakePush(n)
InboxServed   == \E m \in Msg : ServeAck(m) \/ ServeRead(m)
InboundWorker == \E m \in Msg : \/ \E f \in Forms : HandleInbound(m, f)
                                \/ AckAnswered(m) \/ ReadAnswered(m)

FairSpec ==
    /\ Spec
    /\ WF_vars(UploadGoesOn) /\ WF_vars(ResultIsKept)
    /\ WF_vars(SenderConnects) /\ WF_vars(NoticeIsRead)
    /\ WF_vars(UploadServed) /\ WF_vars(PushGoesOut) /\ WF_vars(InboxServed)
    /\ WF_vars(ListPending) /\ WF_vars(Sweep) /\ WF_vars(ClockTick)
    /\ WF_vars(RecipientConnects) /\ WF_vars(InboundWorker)

----------------------------------------------------------------------------
\* Once the server has accepted an upload, the message is somewhere: queued with
\* its ciphertext, in the recipient's transcript, or expired.  No retry, late
\* ack, lost connection or restart makes it vanish, and the sender who sees the
\* tick of "sent" may go offline.
NoAcceptedMessageLost ==
    \A m \in Msg :
        /\ uploads[Key(m)] > 0 =>
              \/ Box!Queued(Key(m)) /\ row[Key(m)].blob
              \/ got[m] # <<>>
              \/ Box!InState(Key(m), "expired")
        /\ tick[m] = "sent" => uploads[Key(m)] > 0

\* The sender sees "delivered" only of a message that the recipient has stored,
\* and "read" only of one that the open room could display, whatever pushes,
\* retries and expiries come in between.
TicksAreTruthful ==
    \A m \in Msg :
        /\ tick[m] \in {"delivered", "read"} => got[m] # <<>>
        /\ tick[m] = "read" => m \in seen

\* What the recipient's transcript holds of a message is one row with what the
\* sender sent, although the message is offered again by a retry of the upload,
\* by the listing after a reconnect or by a second push, and although a retry
\* builds its envelope anew from the sender's transcript and replaces the one
\* that is queued.
ArrivesAsSent == \A m \in Msg : got[m] \in {<<>>, <<"whole">>}

\* A late answer to an upload and a stale notice of expiry never take
\* "delivered" or "read" back.
DeliveredStays ==
    [][\A m \in Msg : tick[m] \in {"delivered", "read"} =>
                         MarkRank[tick'[m]] >= MarkRank[tick[m]]]_vars

\* A row does not stay pending: its upload is stored and answered, or fails hard.
\* Retries make up for lost connections, crashes and refused nonces.
PendingEnds == \A m \in Msg : tick[m] = "pending" ~> tick[m] # "pending"

\* A queued message reaches the recipient unless it expires first, also when
\* the recipient comes online at any point of the upload: the session is
\* registered before the listing, so a commit is either pushed or listed.
QueuedArrives ==
    \A m \in Msg : Box!Queued(Key(m)) ~> (got[m] # <<>> \/ Box!InState(Key(m), "expired"))
==============================================================================
