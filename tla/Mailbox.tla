------------------------------ MODULE Mailbox ------------------------------
(***************************************************************************)
(* The offline mailbox of ghalbol_delivery: the table pending_messages of  *)
(* store.rs, whose primary key is (sender_wire, message_id), and the store *)
(* calls that change it.  Every call takes the mutex around the SQLite     *)
(* connection for its whole body, so a call is one atomic action here.     *)
(* A call that fails changes nothing: failures are the results of the      *)
(* operators UploadFits, AckResults and ReadResults, and steps that would  *)
(* fail are simply not taken.                                              *)
(*                                                                         *)
(* Wall-clock milliseconds are abstracted to 0..MaxTime, bytes to units.   *)
(***************************************************************************)
EXTENDS Integers, FiniteSets

CONSTANTS
    Sender,      \* identities that upload
    Recipient,   \* identities that messages are addressed to
    MessageId,   \* message ids, unique per sender only
    MaxSize,     \* bound of the envelope sizes considered
    Quota,       \* quota_per_peer, in the same unit
    MinTtl,      \* policy.min_ttl_secs
    MaxTtl,      \* policy.max_ttl_secs
    MaxTime,     \* bound of the clock
    MaxUploads,  \* bound of the uploads of one (sender, message id)
    NoRow        \* the key has no row

ASSUME MailboxAssumption ==
    /\ IsFiniteSet(MessageId)
    /\ MaxSize \in Nat \ {0}
    /\ Quota \in Nat
    /\ MinTtl \in Nat \ {0}
    /\ MaxTtl \in Nat
    /\ MinTtl <= MaxTtl
    /\ MaxTime \in Nat
    /\ MaxUploads \in Nat

VARIABLES
    now,       \* SystemTime::now of the server
    row,       \* pending_messages
    uploads,   \* history: how often each key was stored by upload
    settled    \* history: how often a stored upload of the key was acked or swept

vars == <<now, row, uploads, settled>>

Key  == Sender \X MessageId
Size == 1 .. MaxSize
Ttl  == MinTtl .. MaxTtl          \* what clamp_ttl and handle_extend let through

State == {"queued", "delivered", "read", "expired"}

\* blob says whether envelope_blob IS NOT NULL.
Row == [state : State, recipient : Recipient, blob : BOOLEAN,
        size : Size, uploaded : Nat, expires : Nat]

ASSUME NoRowAssumption == NoRow \notin Row

Stored(k)       == row[k] # NoRow
InState(k, st)  == Stored(k) /\ row[k].state = st
Queued(k)       == InState(k, "queued")

\* The cells of used_bytes: one per unit of every queued envelope of s, so that
\* its cardinality is SUM(size_bytes) WHERE sender_wire = s AND state = 'queued'.
Cells(s) ==
    {c \in MessageId \X Size : Queued(<<s, c[1]>>) /\ c[2] <= row[<<s, c[1]>>].size}

UsedBytes(s) == Cardinality(Cells(s))

\* What pending_for_recipient lists when r opens a session.
PendingFor(r) ==
    {k \in Key : Queued(k) /\ row[k].recipient = r /\ row[k].blob /\ row[k].expires > now}

Lesser(a, b)  == IF a <= b THEN a ELSE b
MaxExpires(t) == t + MaxTtl

ReplaceBytes(k) == IF Queued(k) THEN row[k].size ELSE 0

\* Mutation: credits the old bytes of a settled row as well.
UploadFitsCreditsSettled(s, m, size) ==
    UsedBytes(s) - (IF Stored(<<s, m>>) THEN row[<<s, m>>].size ELSE 0) + size <= Quota

\* The quota test of upload: the bytes of a queued copy are given back first.
UploadFits(s, m, size) == UsedBytes(s) - ReplaceBytes(<<s, m>>) + size <= Quota

\* The answers of ack_deliver.  Its SELECT names the recipient and the message
\* id, not the sender: with two queued rows SQLite returns either of them.
AckResults(r, m, s) ==
    LET rows == {k \in Key : Queued(k) /\ k[2] = m /\ row[k].recipient = r}
    IN  IF rows = {} THEN {"not_found"}
        ELSE {IF k[1] = s THEN "ok" ELSE "forbidden" : k \in rows}

\* The answers of ack_read, whose SELECT does not name the state either.
ReadResult(k, s) ==
    IF k[1] # s THEN "forbidden"
    ELSE IF row[k].state = "read" THEN "already"
    ELSE IF row[k].state = "delivered" THEN "ok" ELSE "bad_request"

ReadResults(r, m, s) ==
    LET rows == {k \in Key : Stored(k) /\ k[2] = m /\ row[k].recipient = r}
    IN  IF rows = {} THEN {"not_found"} ELSE {ReadResult(k, s) : k \in rows}

\* A row whose ciphertext is deleted and whose metadata is kept.
Settled(x, st) ==
    [state |-> st, recipient |-> x.recipient, blob |-> FALSE,
     size |-> x.size, uploaded |-> x.uploaded, expires |-> x.expires]

----------------------------------------------------------------------------
Init ==
    /\ now = 0
    /\ row = [k \in Key |-> NoRow]
    /\ uploads = [k \in Key |-> 0]
    /\ settled = [k \in Key |-> 0]

\* message.upload: insert, refresh a queued copy, or start again on a settled row.
Upload(s, m, r, size, ttl) ==
    /\ uploads[<<s, m>>] < MaxUploads
    /\ UploadFits(s, m, size)
    /\ row' = [row EXCEPT ![<<s, m>>] =
                  [state |-> "queued", recipient |-> r, blob |-> TRUE, size |-> size,
                   uploaded |-> now, expires |-> Lesser(now + ttl, MaxExpires(now))]]
    /\ uploads' = [uploads EXCEPT ![<<s, m>>] = @ + 1]
    /\ UNCHANGED <<now, settled>>

\* mailbox.ttl.extend: the expiry may only grow, and never past the policy's
\* maximum counted from the upload.
ExtendTtl(s, m, ttl) ==
    LET k == <<s, m>> IN
    /\ Queued(k)
    /\ LET until == Lesser(now + ttl, MaxExpires(row[k].uploaded)) IN
       /\ until > row[k].expires
       /\ row' = [row EXCEPT ![k].expires = until]
    /\ UNCHANGED <<now, uploads, settled>>

\* inbox.ack: delete the ciphertext and keep the metadata.
AckDeliver(r, m, s) ==
    LET k == <<s, m>> IN
    /\ "ok" \in AckResults(r, m, s)
    /\ row' = [row EXCEPT ![k] = Settled(row[k], "delivered")]
    /\ settled' = [settled EXCEPT ![k] = @ + 1]
    /\ UNCHANGED <<now, uploads>>

\* Mutation: stores a state name the table does not know.
AckReadAsSeen(r, m, s) ==
    /\ "ok" \in ReadResults(r, m, s)
    /\ row' = [row EXCEPT ![<<s, m>>].state = "seen"]
    /\ UNCHANGED <<now, uploads, settled>>

\* inbox.read.
AckRead(r, m, s) ==
    /\ "ok" \in ReadResults(r, m, s)
    /\ row' = [row EXCEPT ![<<s, m>>].state = "read"]
    /\ UNCHANGED <<now, uploads, settled>>

Due(k) == Queued(k) /\ row[k].expires <= now

\* sweep_expired, called every 30 seconds: all due rows in one transaction.
Sweep ==
    /\ \E k \in Key : Due(k)
    /\ row' = [k \in Key |-> IF Due(k) THEN Settled(row[k], "expired") ELSE row[k]]
    /\ settled' = [k \in Key |-> IF Due(k) THEN settled[k] + 1 ELSE settled[k]]
    /\ UNCHANGED <<now, uploads>>

Tick ==
    /\ now < MaxTime
    /\ now' = now + 1
    /\ UNCHANGED <<row, uploads, settled>>

\* The calls that senders and recipients make.
PeerCall ==
    \/ \E s \in Sender, m \in MessageId, r \in Recipient, size \in Size, ttl \in Ttl :
          Upload(s, m, r, size, ttl)
    \/ \E s \in Sender, m \in MessageId, ttl \in Ttl : ExtendTtl(s, m, ttl)
    \/ \E r \in Recipient, m \in MessageId, s \in Sender : AckDeliver(r, m, s)
    \/ \E r \in Recipient, m \in MessageId, s \in Sender : AckRead(r, m, s)

Next == PeerCall \/ Sweep \/ Tick

Spec == Init /\ [][Next]_vars

----------------------------------------------------------------------------
\* Type invariant of the table and the history counters.
TypeOK ==
    /\ now \in Nat
    /\ row \in [Key -> Row \cup {NoRow}]
    /\ uploads \in [Key -> Nat]
    /\ settled \in [Key -> Nat]

\* No interleaving of uploads, resend-replacements, acks and sweeps lets a
\* sender hold more queued bytes than quota_per_peer: upload checks the sum
\* before it replaces, acks and sweeps only release bytes.
QuotaRespected == \A s \in Sender : UsedBytes(s) <= Quota

\* The server holds the ciphertext of exactly the queued rows: acked and swept
\* rows keep only metadata, and a queued row can always be handed out.
CiphertextOnlyWhileQueued == \A k \in Key : Stored(k) => (row[k].blob <=> Queued(k))

\* However often the sender extends it, an upload expires strictly after it was
\* stored and at most MaxTtl after it (extend_ttl counts from uploaded_at_ms).
ExpiryWithinPolicy ==
    \A k \in Key : Stored(k) =>
        /\ row[k].uploaded < row[k].expires
        /\ row[k].expires <= row[k].uploaded + MaxTtl

\* Every stored upload is settled at most once, by an ack or by the sweep and
\* never by both: the sender hears either message.ack_to_sender or
\* message.expired of an upload.  A queued row still has its settlement ahead.
SettledOncePerUpload ==
    \A k \in Key :
        /\ settled[k] <= uploads[k]
        /\ Queued(k) => settled[k] < uploads[k]

Rank(st) == CASE st = "queued" -> 0 [] st \in {"delivered", "expired"} -> 1 [] st = "read" -> 2

\* Between two uploads of a message its row only moves forward (queued to
\* delivered to read, or queued to expired), it stays addressed to the same
\* recipient and its expiry never shrinks: a late ack, read receipt, extension
\* or sweep cannot revive a settled upload.
SettledStaysSettled ==
    [][\A k \in Key : (Stored(k) /\ uploads'[k] = uploads[k]) =>
          /\ Stored(k)'
          /\ row'[k].recipient = row[k].recipient
          /\ row'[k].uploaded = row[k].uploaded
          /\ row'[k].expires >= row[k].expires
          /\ \/ row'[k].state = row[k].state
             \/ /\ Rank(row'[k].state) = Rank(row[k].state) + 1
                /\ row[k].state # "expired"]_vars
============================================================================
