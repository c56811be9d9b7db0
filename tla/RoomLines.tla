------------------------------ MODULE RoomLines ------------------------------
(***************************************************************************)
(* One thread of the transcript (dm_transcript_store.rs) and the lines of  *)
(* it that the hub shows in the open room (main.rs).                       *)
(*                                                                         *)
(* The upload threads, the delivery worker and the hub all write the       *)
(* thread.  A write holds the lock of the file: it reads the thread,       *)
(* writes it back and raises the thread's revision, and a line that is as  *)
(* it should be is not written at all.  The hub reads the revision without *)
(* the lock and then the lines with it, the newest ones only; it reads     *)
(* them again when a poll finds another revision, and more of them when    *)
(* the user reaches the oldest line shown.                                 *)
(***************************************************************************)
EXTENDS Integers, SequencesExt

CONSTANTS
    LineCount,    \* the messages, numbered in the order of their ids
    CreatedAt,    \* created_at_ms of each message
    Outgoing,     \* the messages of this device
    Offers,       \* the messages that are attachments
    PageSize,     \* lines shown at first, and added by each older page
    MaxWindow,    \* bound of the lines the user asks for
    MaxRevision   \* bound of the writes

Line == 1..LineCount

ASSUME RoomLinesAssumption ==
    /\ LineCount \in Nat /\ CreatedAt \in [Line -> Nat]
    /\ Outgoing \subseteq Line /\ Offers \subseteq Line
    /\ PageSize \in Nat \ {0} /\ MaxWindow \in Nat /\ MaxRevision \in Nat

VARIABLES
    thread,     \* the stored lines, oldest first
    revision,   \* the thread's revision
    changing,   \* the file is written and the revision not yet raised
    log         \* the hub: chat_rev, the window, what the chat log shows

lineVars == <<thread, revision, changing, log>>

\* A line: its delivery mark (outgoing) or whether its read receipt is out
\* (inbound), and whether received_at_ms and local_path are set.
Delivery == {"pending", "failed", "sent", "delivered", "read"}
StoredLine == [id : Line, mark : Delivery \union {"unread", "acked"}, received : BOOLEAN, file : BOOLEAN]

LinesTypeOK ==
    /\ thread \in Seq(StoredLine)
    /\ revision \in 0..MaxRevision
    /\ changing \in BOOLEAN
    /\ log.state \in {"closed", "idle", "loading"}
    /\ log.rev \in 0..MaxRevision
    /\ log.limit \in Nat
    /\ log.lines \in Seq(StoredLine) /\ log.more \in BOOLEAN /\ log.failed \in BOOLEAN

LinesInit ==
    /\ thread = <<>> /\ revision = 0 /\ changing = FALSE
    /\ log = [state |-> "closed", rev |-> 0, limit |-> PageSize, lines |-> <<>>,
              more |-> FALSE, failed |-> FALSE]

(***************************************************************************)
(* The store.                                                              *)
(***************************************************************************)
SentBefore(i, j) == CreatedAt[i] < CreatedAt[j] \/ (CreatedAt[i] = CreatedAt[j] /\ i < j)

InsertedLast(line) == Append(thread, line)  \* mutant: in the order of arrival

\* insert_line_in_thread_order: by created_at_ms, then by id.
Inserted(line) ==
    LET before == {i \in DOMAIN thread : ~SentBefore(line.id, thread[i].id)}
    IN  InsertAt(thread, Cardinality(before) + 1, line)

\* write_root_unlocked, the lock held.
Rewrite(lines) ==
    /\ ~changing /\ revision < MaxRevision
    /\ thread' = lines
    /\ changing' = TRUE
    /\ UNCHANGED revision

Patched(i, line) == [thread EXCEPT ![i] = line]

\* append_if_new: a message the thread has is left alone.
AppendIfNew(m) ==
    /\ m \notin {thread[i].id : i \in DOMAIN thread}
    /\ Rewrite(Inserted([id |-> m, mark |-> IF m \in Outgoing THEN "pending" ELSE "unread",
                         received |-> FALSE, file |-> FALSE]))

DeliveryRank == [pending |-> 0, failed |-> 1, sent |-> 2, delivered |-> 3, read |-> 4]

PatchOutgoingDelivery(i, mark) ==
    /\ thread[i].id \in Outgoing
    /\ mark # "pending" /\ DeliveryRank[thread[i].mark] < DeliveryRank[mark]
    /\ Rewrite(Patched(i, [thread[i] EXCEPT !.mark = mark]))

PatchOutgoingFailed(i) ==
    /\ thread[i].id \in Outgoing /\ thread[i].mark \in {"pending", "sent"}
    /\ Rewrite(Patched(i, [thread[i] EXCEPT !.mark = "failed"]))

\* The first acknowledgement that arrives sets the time.
PatchOutgoingReceivedAt(i) ==
    /\ thread[i].id \in Outgoing /\ ~thread[i].received
    /\ Rewrite(Patched(i, [thread[i] EXCEPT !.received = TRUE]))

PatchAttachmentLocalPath(i) ==
    /\ thread[i].id \in Offers /\ ~thread[i].file
    /\ Rewrite(Patched(i, [thread[i] EXCEPT !.file = TRUE]))

PatchInboundReadAckSent(i) ==
    /\ thread[i].id \notin Outgoing /\ thread[i].mark = "unread"
    /\ Rewrite(Patched(i, [thread[i] EXCEPT !.mark = "acked"]))

StoreWrites ==
    /\ \/ \E m \in Line : AppendIfNew(m)
       \/ \E i \in DOMAIN thread :
             \/ \E mark \in Delivery : PatchOutgoingDelivery(i, mark)
             \/ PatchOutgoingFailed(i) \/ PatchOutgoingReceivedAt(i)
             \/ PatchAttachmentLocalPath(i) \/ PatchInboundReadAckSent(i)
    /\ UNCHANGED log

\* bump_transcript_revision, and the lock is given back.
RaiseRevision ==
    /\ changing
    /\ changing' = FALSE /\ revision' = revision + 1
    /\ UNCHANGED <<thread, log>>

(***************************************************************************)
(* The open room.                                                          *)
(***************************************************************************)
\* refresh_transcript reads the revision first.
Reload(limit) == log' = [log EXCEPT !.state = "loading", !.rev = revision, !.limit = limit]

HubStep == log' # log /\ UNCHANGED <<thread, revision, changing>>

\* A room opens, or a message was sent from it or sent again.
ShowRoom == log.state # "loading" /\ Reload(log.limit) /\ HubStep

PollRevision == log.state = "idle" /\ revision # log.rev /\ Reload(log.limit) /\ HubStep

\* The button, or the oldest line in sight: maybe_autoload_older.
LoadOlder ==
    /\ log.state = "idle" /\ log.more /\ log.limit + PageSize <= MaxWindow
    /\ Reload(log.limit + PageSize) /\ HubStep

Newest(lines, limit) == SubSeq(lines, IF Len(lines) > limit THEN Len(lines) - limit + 1 ELSE 1, Len(lines))

\* thread_view_limited under the lock.  Lines that cannot be read leave the
\* room empty.
ShowLines ==
    /\ log.state = "loading" /\ ~changing
    /\ \/ log' = [log EXCEPT !.state = "idle", !.lines = Newest(thread, log.limit),
                             !.more = Len(thread) > log.limit, !.failed = FALSE]
       \/ log' = [log EXCEPT !.state = "idle", !.lines = <<>>, !.failed = TRUE]
    /\ UNCHANGED <<thread, revision, changing>>

CloseRoom ==
    /\ log.state = "idle"
    /\ log' = [log EXCEPT !.state = "closed", !.lines = <<>>]
    /\ UNCHANGED <<thread, revision, changing>>

LinesNext ==
    \/ StoreWrites \/ RaiseRevision
    \/ ShowRoom \/ PollRevision \/ LoadOlder \/ ShowLines \/ CloseRoom

LinesSpec == LinesInit /\ [][LinesNext]_lineVars

-----------------------------------------------------------------------------
(* When the hub has seen the last revision, the room shows the newest      *)
(* messages of the thread, as they are stored, each once and in the order  *)
(* they were sent, whatever the order in which they arrived and whichever  *)
(* thread wrote while the hub was reading; and the way to older ones is    *)
(* open when there are any.                                                *)
LinesAreFresh ==
    log.state = "idle" /\ ~changing /\ log.rev = revision /\ ~log.failed =>
        LET stored == {thread[i] : i \in DOMAIN thread}
            shown == {log.lines[k] : k \in DOMAIN log.lines}
        IN  /\ shown \subseteq stored
            /\ Len(log.lines) = IF Len(thread) < log.limit THEN Len(thread) ELSE log.limit
            /\ \A j, k \in DOMAIN log.lines : j < k => SentBefore(log.lines[j].id, log.lines[k].id)
            /\ \A older \in stored \ shown, newer \in shown : SentBefore(older.id, newer.id)
            /\ log.more = (Len(thread) > Len(log.lines))
=============================================================================
