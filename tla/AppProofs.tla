----------------------------- MODULE AppProofs -----------------------------
(***************************************************************************)
(* Proofs about Mailbox, for every set of senders, recipients and message  *)
(* ids and every quota and policy; and about the eight parts of MCApp side *)
(* by side, for every value of the constants.                              *)
(***************************************************************************)
EXTENDS MCApp, CallProofs, HubProofs, DeviceProofs, FiniteSetTheorems, TLAPS

----------------------------------------------------------------------------
(* Type correctness.                                                       *)

\* A row that AckResults accepts is queued for that recipient; one that
\* ReadResults accepts has been delivered to it.
LEMMA AckedRowIsQueued ==
    ASSUME TypeOK, NEW r \in Recipient, NEW m \in MessageId, NEW s \in Sender,
           "ok" \in AckResults(r, m, s)
    PROVE  Queued(<<s, m>>) /\ row[<<s, m>>].recipient = r
<1> DEFINE rows == {k \in Key : Queued(k) /\ k[2] = m /\ row[k].recipient = r}
<1>1. PICK k \in rows : k[1] = s
  BY DEF AckResults
<1>2. k = <<s, m>>
  BY <1>1 DEF Key
<1> QED BY <1>1, <1>2

LEMMA ReadRowIsDelivered ==
    ASSUME TypeOK, NEW r \in Recipient, NEW m \in MessageId, NEW s \in Sender,
           "ok" \in ReadResults(r, m, s)
    PROVE  InState(<<s, m>>, "delivered") /\ row[<<s, m>>].recipient = r
<1> DEFINE rows == {k \in Key : Stored(k) /\ k[2] = m /\ row[k].recipient = r}
<1>1. PICK k \in rows : ReadResult(k, s) = "ok"
  BY DEF ReadResults
<1>2. k[1] = s /\ row[k].state = "delivered"
  BY <1>1 DEF ReadResult
<1>3. k = <<s, m>>
  BY <1>1, <1>2 DEF Key
<1> QED BY <1>1, <1>2, <1>3 DEF InState

\* Every step from a type-correct state leads to one.
LEMMA TypeStep == TypeOK /\ [Next]_vars => TypeOK'
<1> USE MailboxAssumption, NoRowAssumption
<1> SUFFICES ASSUME TypeOK, [Next]_vars PROVE TypeOK'
  OBVIOUS
<1> USE DEF TypeOK
<1>1. ASSUME NEW s \in Sender, NEW m \in MessageId, NEW r \in Recipient,
             NEW size \in Size, NEW ttl \in Ttl, Upload(s, m, r, size, ttl)
      PROVE  TypeOK'
  <2>1. <<s, m>> \in Key
    BY DEF Key
  <2>2. Lesser(now + ttl, MaxExpires(now)) \in Nat
    BY DEF Lesser, MaxExpires, Ttl
  <2>3. [state |-> "queued", recipient |-> r, blob |-> TRUE, size |-> size,
         uploaded |-> now, expires |-> Lesser(now + ttl, MaxExpires(now))] \in Row
    BY <2>2 DEF Row, State
  <2> QED BY <1>1, <2>1, <2>3 DEF Upload
<1>2. ASSUME NEW s \in Sender, NEW m \in MessageId, NEW ttl \in Ttl, ExtendTtl(s, m, ttl)
      PROVE  TypeOK'
  <2>1. <<s, m>> \in Key
    BY DEF Key
  <2>2. row[<<s, m>>] \in Row
    BY <1>2, <2>1 DEF ExtendTtl, Queued, InState, Stored
  <2>3. Lesser(now + ttl, MaxExpires(row[<<s, m>>].uploaded)) \in Nat
    BY <2>2 DEF Lesser, MaxExpires, Ttl, Row
  <2> QED BY <1>2, <2>1, <2>2, <2>3 DEF ExtendTtl, Row
<1>3. ASSUME NEW r \in Recipient, NEW m \in MessageId, NEW s \in Sender, AckDeliver(r, m, s)
      PROVE  TypeOK'
  <2>1. <<s, m>> \in Key /\ row[<<s, m>>] \in Row
    BY <1>3, AckedRowIsQueued DEF Key, AckDeliver, Queued, InState, Stored
  <2>2. Settled(row[<<s, m>>], "delivered") \in Row
    BY <2>1 DEF Row, State, Settled
  <2>3. row' \in [Key -> Row \cup {NoRow}]
    BY <1>3, <2>1, <2>2 DEF AckDeliver
  <2> QED BY <1>3, <2>1, <2>3 DEF AckDeliver
<1>4. ASSUME NEW r \in Recipient, NEW m \in MessageId, NEW s \in Sender, AckRead(r, m, s)
      PROVE  TypeOK'
  <2>1. <<s, m>> \in Key /\ row[<<s, m>>] \in Row
    BY <1>4, ReadRowIsDelivered DEF Key, AckRead, InState, Stored
  <2>2. [row[<<s, m>>] EXCEPT !.state = "read"] \in Row
    BY <2>1 DEF Row, State
  <2> QED BY <1>4, <2>1, <2>2 DEF AckRead
<1>5. CASE Sweep
  <2>1. ASSUME NEW k \in Key, Due(k)
        PROVE  Settled(row[k], "expired") \in Row
    BY <2>1 DEF Due, Queued, InState, Stored, Row, State, Settled
  <2>2. row' \in [Key -> Row \cup {NoRow}]
    BY <1>5, <2>1 DEF Sweep
  <2>3. settled' \in [Key -> Nat]
    <3>1. \A k \in Key : (IF Due(k) THEN settled[k] + 1 ELSE settled[k]) \in Nat
      OBVIOUS
    <3>2. settled' = [k \in Key |-> IF Due(k) THEN settled[k] + 1 ELSE settled[k]]
      BY <1>5 DEF Sweep
    <3> HIDE DEF TypeOK
    <3> QED BY <3>1, <3>2
  <2> QED BY <1>5, <2>2, <2>3 DEF Sweep
<1>6. CASE Tick
  BY <1>6 DEF Tick
<1>7. CASE UNCHANGED vars
  BY <1>7 DEF vars
<1> QED BY <1>1, <1>2, <1>3, <1>4, <1>5, <1>6, <1>7 DEF Next, PeerCall

\* TypeOK holds in every reachable state, whatever the constants.
THEOREM TypeCorrect == Spec => []TypeOK
<1>1. Init => TypeOK
  BY MailboxAssumption DEF Init, TypeOK
<1> QED BY <1>1, TypeStep, PTL DEF Spec

----------------------------------------------------------------------------
(* The safety invariants.  Each is inductive relative to TypeOK, and what   *)
(* a step does to one row is stated once, in StepOnRows.                   *)

\* What a row of key k may become in one step: it stays as it is, it is
\* uploaded anew, its expiry grows within the policy, or it is settled.
RowUploaded(k) ==
    /\ row'[k] \in Row
    /\ row'[k].state = "queued"
    /\ row'[k].blob = TRUE
    /\ row'[k].uploaded < row'[k].expires
    /\ row'[k].expires <= row'[k].uploaded + MaxTtl
    /\ uploads'[k] = uploads[k] + 1
    /\ settled'[k] = settled[k]

RowExtended(k) ==
    /\ Queued(k)
    /\ row'[k] \in Row
    /\ row'[k] = [row[k] EXCEPT !.expires = row'[k].expires]
    /\ row[k].expires < row'[k].expires
    /\ row'[k].expires <= row[k].uploaded + MaxTtl
    /\ uploads'[k] = uploads[k]
    /\ settled'[k] = settled[k]

RowEnded(k) ==
    /\ Queued(k)
    /\ \E st \in {"delivered", "expired"} : row'[k] = Settled(row[k], st)
    /\ uploads'[k] = uploads[k]
    /\ settled'[k] = settled[k] + 1

RowRead(k) ==
    /\ InState(k, "delivered")
    /\ row'[k] = [row[k] EXCEPT !.state = "read"]
    /\ uploads'[k] = uploads[k]
    /\ settled'[k] = settled[k]

RowKept(k) ==
    /\ row'[k] = row[k]
    /\ uploads'[k] = uploads[k]
    /\ settled'[k] = settled[k]

\* Every step of the mailbox does one of the five things to each row.
LEMMA StepOnRows ==
    ASSUME TypeOK, [Next]_vars, NEW k \in Key
    PROVE  RowUploaded(k) \/ RowExtended(k) \/ RowEnded(k) \/ RowRead(k) \/ RowKept(k)
<1> USE MailboxAssumption, NoRowAssumption DEF TypeOK
<1>1. ASSUME NEW s \in Sender, NEW m \in MessageId, NEW r \in Recipient,
             NEW size \in Size, NEW ttl \in Ttl, Upload(s, m, r, size, ttl)
      PROVE  RowUploaded(k) \/ RowKept(k)
  <2> DEFINE until == Lesser(now + ttl, MaxExpires(now))
             new   == [state |-> "queued", recipient |-> r, blob |-> TRUE, size |-> size,
                       uploaded |-> now, expires |-> until]
  <2>1. until \in Nat /\ now < until /\ until <= now + MaxTtl
    BY DEF Lesser, MaxExpires, Ttl
  <2>2. new \in Row
    BY <2>1 DEF Row, State
  <2>3. CASE k = <<s, m>>
    <3>1. row'[k] = new /\ uploads'[k] = uploads[k] + 1 /\ settled'[k] = settled[k]
      BY <1>1, <2>3 DEF Upload
    <3> QED BY <2>1, <2>2, <3>1 DEF RowUploaded
  <2>4. CASE k # <<s, m>>
    BY <1>1, <2>4 DEF Upload, RowKept
  <2> QED BY <2>3, <2>4
<1>2. ASSUME NEW s \in Sender, NEW m \in MessageId, NEW ttl \in Ttl, ExtendTtl(s, m, ttl)
      PROVE  RowExtended(k) \/ RowKept(k)
  <2>1. CASE k = <<s, m>>
    <3> DEFINE until == Lesser(now + ttl, MaxExpires(row[k].uploaded))
    <3>1. Queued(k) /\ row[k] \in Row
      BY <1>2, <2>1 DEF ExtendTtl, Queued, InState, Stored
    <3>2. until > row[k].expires /\ until <= row[k].uploaded + MaxTtl
      BY <1>2, <2>1, <3>1 DEF ExtendTtl, Lesser, MaxExpires, Row, Ttl
    <3>3. row'[k] = [row[k] EXCEPT !.expires = until]
      BY <1>2, <2>1 DEF ExtendTtl
    <3>4. row'[k].expires = until
      BY <3>1, <3>3 DEF Row
    <3>5. uploads'[k] = uploads[k] /\ settled'[k] = settled[k]
      BY <1>2 DEF ExtendTtl
    <3>6. until \in Int /\ row[k].expires \in Int
      BY <3>1 DEF Lesser, MaxExpires, Row, Ttl
    <3>7. row'[k] \in Row
      BY <3>1, <3>2, <3>3, <3>6 DEF Row
    <3> QED BY <3>1, <3>2, <3>3, <3>4, <3>5, <3>7 DEF RowExtended
  <2>2. CASE k # <<s, m>>
    BY <1>2, <2>2 DEF ExtendTtl, RowKept
  <2> QED BY <2>1, <2>2
<1>3. ASSUME NEW r \in Recipient, NEW m \in MessageId, NEW s \in Sender, AckDeliver(r, m, s)
      PROVE  RowEnded(k) \/ RowKept(k)
  <2>1. CASE k = <<s, m>>
    BY <1>3, <2>1, AckedRowIsQueued DEF AckDeliver, RowEnded
  <2>2. CASE k # <<s, m>>
    BY <1>3, <2>2 DEF AckDeliver, RowKept
  <2> QED BY <2>1, <2>2
<1>4. ASSUME NEW r \in Recipient, NEW m \in MessageId, NEW s \in Sender, AckRead(r, m, s)
      PROVE  RowRead(k) \/ RowKept(k)
  <2>1. CASE k = <<s, m>>
    BY <1>4, <2>1, ReadRowIsDelivered DEF AckRead, RowRead
  <2>2. CASE k # <<s, m>>
    BY <1>4, <2>2 DEF AckRead, RowKept
  <2> QED BY <2>1, <2>2
<1>5. CASE Sweep
  <2>1. CASE Due(k)
    BY <1>5, <2>1 DEF Sweep, Due, RowEnded
  <2>2. CASE ~Due(k)
    BY <1>5, <2>2 DEF Sweep, RowKept
  <2> QED BY <2>1, <2>2
<1>6. CASE Tick \/ UNCHANGED vars
  BY <1>6 DEF Tick, vars, RowKept
<1> QED BY <1>1, <1>2, <1>3, <1>4, <1>5, <1>6 DEF Next, PeerCall

\* The ciphertext is held for exactly the queued rows, in every reachable state.
THEOREM CiphertextHeld == Spec => []CiphertextOnlyWhileQueued
<1>1. Init => CiphertextOnlyWhileQueued
  BY DEF Init, CiphertextOnlyWhileQueued, Stored
<1>2. TypeOK /\ CiphertextOnlyWhileQueued /\ [Next]_vars => CiphertextOnlyWhileQueued'
  <2> SUFFICES ASSUME TypeOK, CiphertextOnlyWhileQueued, [Next]_vars,
                      NEW k \in Key, Stored(k)'
               PROVE  (row[k].blob <=> Queued(k))'
    BY DEF CiphertextOnlyWhileQueued
  <2> USE DEF TypeOK, CiphertextOnlyWhileQueued, Queued, InState, Stored
  <2>1. CASE RowUploaded(k)
    BY <2>1, NoRowAssumption DEF RowUploaded
  <2>2. CASE RowExtended(k)
    BY <2>2 DEF RowExtended, Row
  <2>3. CASE RowEnded(k)
    BY <2>3 DEF RowEnded, Settled
  <2>4. CASE RowRead(k)
    BY <2>4 DEF RowRead, Row
  <2>5. CASE RowKept(k)
    BY <2>5 DEF RowKept
  <2> HIDE DEF TypeOK, CiphertextOnlyWhileQueued, Queued, InState, Stored
  <2> QED BY <2>1, <2>2, <2>3, <2>4, <2>5, StepOnRows
<1> QED BY <1>1, <1>2, TypeCorrect, PTL DEF Spec

\* Extensions never carry an upload past MaxTtl, in every reachable state.
THEOREM ExpiryBounded == Spec => []ExpiryWithinPolicy
<1>1. Init => ExpiryWithinPolicy
  BY DEF Init, ExpiryWithinPolicy, Stored
<1>2. TypeOK /\ ExpiryWithinPolicy /\ [Next]_vars => ExpiryWithinPolicy'
  <2> SUFFICES ASSUME TypeOK, ExpiryWithinPolicy, [Next]_vars, NEW k \in Key, Stored(k)'
               PROVE  /\ row'[k].uploaded < row'[k].expires
                      /\ row'[k].expires <= row'[k].uploaded + MaxTtl
    BY DEF ExpiryWithinPolicy
  <2> USE MailboxAssumption DEF TypeOK, ExpiryWithinPolicy, Queued, InState, Stored
  <2>1. CASE RowUploaded(k)
    BY <2>1 DEF RowUploaded
  <2>2. CASE RowExtended(k)
    <3>1. row[k] \in Row /\ row[k].uploaded < row[k].expires
      BY <2>2 DEF RowExtended
    <3>2. row'[k].uploaded = row[k].uploaded
      BY <2>2, <3>1 DEF RowExtended, Row
    <3>3. row[k].expires < row'[k].expires /\ row'[k].expires <= row[k].uploaded + MaxTtl
      BY <2>2 DEF RowExtended
    <3>4. row'[k] \in Row
      BY <2>2 DEF RowExtended
    <3> QED BY <3>1, <3>2, <3>3, <3>4 DEF Row
  <2>3. CASE RowEnded(k)
    BY <2>3 DEF RowEnded, Settled
  <2>4. CASE RowRead(k)
    BY <2>4 DEF RowRead, Row
  <2>5. CASE RowKept(k)
    BY <2>5 DEF RowKept
  <2> HIDE DEF TypeOK, ExpiryWithinPolicy, Queued, InState, Stored
  <2> QED BY <2>1, <2>2, <2>3, <2>4, <2>5, StepOnRows
<1> QED BY <1>1, <1>2, TypeCorrect, PTL DEF Spec

\* An upload is settled at most once, whatever the order of acks and sweeps.
THEOREM SettledOnce == Spec => []SettledOncePerUpload
<1>1. Init => SettledOncePerUpload
  BY DEF Init, SettledOncePerUpload, Queued, InState, Stored
<1>2. TypeOK /\ SettledOncePerUpload /\ [Next]_vars => SettledOncePerUpload'
  <2> SUFFICES ASSUME TypeOK, SettledOncePerUpload, [Next]_vars, NEW k \in Key
               PROVE  /\ settled'[k] <= uploads'[k]
                      /\ Queued(k)' => settled'[k] < uploads'[k]
    BY DEF SettledOncePerUpload
  <2> USE DEF TypeOK, SettledOncePerUpload, Queued, InState, Stored
  <2>1. CASE RowUploaded(k)
    BY <2>1 DEF RowUploaded
  <2>2. CASE RowExtended(k)
    BY <2>2 DEF RowExtended
  <2>3. CASE RowEnded(k)
    BY <2>3 DEF RowEnded, Settled
  <2>4. CASE RowRead(k)
    BY <2>4 DEF RowRead, Row
  <2>5. CASE RowKept(k)
    BY <2>5 DEF RowKept
  <2> HIDE DEF TypeOK, SettledOncePerUpload, Queued, InState, Stored
  <2> QED BY <2>1, <2>2, <2>3, <2>4, <2>5, StepOnRows
<1> QED BY <1>1, <1>2, TypeCorrect, PTL DEF Spec

\* A settled upload is not revived by any later call: the action property, for
\* every step from a type-correct state.
THEOREM SettledIsFinal == Spec => SettledStaysSettled
<1> DEFINE Onward(k) ==
      (Stored(k) /\ uploads'[k] = uploads[k]) =>
          /\ Stored(k)'
          /\ row'[k].recipient = row[k].recipient
          /\ row'[k].uploaded = row[k].uploaded
          /\ row'[k].expires >= row[k].expires
          /\ \/ row'[k].state = row[k].state
             \/ /\ Rank(row'[k].state) = Rank(row[k].state) + 1
                /\ row[k].state # "expired"
<1>1. TypeOK /\ [Next]_vars => [\A k \in Key : Onward(k)]_vars
  <2> SUFFICES ASSUME TypeOK, [Next]_vars, NEW k \in Key, Stored(k), uploads'[k] = uploads[k]
               PROVE  /\ Stored(k)'
                      /\ row'[k].recipient = row[k].recipient
                      /\ row'[k].uploaded = row[k].uploaded
                      /\ row'[k].expires >= row[k].expires
                      /\ \/ row'[k].state = row[k].state
                         \/ /\ Rank(row'[k].state) = Rank(row[k].state) + 1
                            /\ row[k].state # "expired"
    OBVIOUS
  <2>0. row[k] \in Row /\ TypeOK'
    BY TypeStep DEF TypeOK, Stored
  <2>1. CASE RowUploaded(k)
    BY <2>1 DEF RowUploaded, TypeOK
  <2>2. CASE RowExtended(k)
    <3>1. Stored(k)'
      BY <2>0, <2>2, NoRowAssumption DEF RowExtended, Stored, Row
    <3>2. row'[k] \in Row
      BY <2>2 DEF RowExtended
    <3> QED BY <2>0, <2>2, <3>1, <3>2 DEF RowExtended, Row
  <2>3. CASE RowEnded(k)
    <3>1. PICK st \in {"delivered", "expired"} : row'[k] = Settled(row[k], st)
      BY <2>3 DEF RowEnded
    <3>2. Settled(row[k], st) \in Row
      BY <2>0 DEF Settled, Row, State
    <3>3. Stored(k)'
      BY <3>1, <3>2, NoRowAssumption DEF Stored
    <3>4. row[k].state = "queued"
      BY <2>3 DEF RowEnded, Queued, InState
    <3> QED BY <2>0, <3>1, <3>3, <3>4 DEF Settled, Rank, Row
  <2>4. CASE RowRead(k)
    <3>1. row[k].state = "delivered"
      BY <2>4 DEF RowRead, InState
    <3>2. [row[k] EXCEPT !.state = "read"] \in Row
      BY <2>0 DEF Row, State
    <3>3. Stored(k)'
      BY <2>4, <3>2, NoRowAssumption DEF RowRead, Stored
    <3> QED BY <2>0, <2>4, <3>1, <3>3 DEF RowRead, Rank, Row
  <2>5. CASE RowKept(k)
    BY <2>0, <2>5 DEF RowKept, Stored, Row
  <2> QED BY <2>1, <2>2, <2>3, <2>4, <2>5, StepOnRows
<1> QED BY <1>1, TypeCorrect, PTL DEF Spec, SettledStaysSettled

----------------------------------------------------------------------------
(* The quota: the cells of a sender are a finite set, an upload replaces    *)
(* the cells of one message by those of the new envelope, and nothing else *)
(* adds a cell.                                                             *)

\* The cells of every sender are finitely many.
LEMMA CellsFinite ==
    ASSUME NEW s PROVE IsFiniteSet(Cells(s)) /\ UsedBytes(s) \in Nat
<1>1. IsFiniteSet(Size)
  BY FS_Interval, MailboxAssumption DEF Size
<1>2. IsFiniteSet(MessageId \X Size)
  BY <1>1, FS_Product, MailboxAssumption
<1>3. Cells(s) \in SUBSET (MessageId \X Size)
  BY DEF Cells
<1>4. IsFiniteSet(Cells(s))
  BY <1>2, <1>3, FS_Subset
<1> QED BY <1>4, FS_CardinalityType DEF UsedBytes

\* One message of n units is n cells.
LEMMA CellsOfOne ==
    ASSUME NEW m, NEW n \in Nat
    PROVE  /\ IsFiniteSet({m} \X (1 .. n))
           /\ Cardinality({m} \X (1 .. n)) = n
<1>1. IsFiniteSet({m}) /\ Cardinality({m}) = 1
  BY FS_Singleton
<1>2. IsFiniteSet(1 .. n) /\ Cardinality(1 .. n) = n
  BY FS_Interval
<1>3. Cardinality({m} \X (1 .. n)) = 1 * n
  BY <1>1, <1>2, FS_Product
<1> QED BY <1>1, <1>2, <1>3, FS_Product

\* An upload that passes the quota test leaves its sender within the quota.
LEMMA UploadKeepsQuota ==
    ASSUME TypeOK, NEW s \in Sender, NEW m \in MessageId, NEW r \in Recipient,
           NEW size \in Size, NEW ttl \in Ttl, Upload(s, m, r, size, ttl)
    PROVE  UsedBytes(s)' <= Quota
<1> DEFINE k   == <<s, m>>
           old == {m} \X (1 .. ReplaceBytes(k))
           new == {m} \X (1 .. size)
<1>1. k \in Key /\ size \in Nat
  BY DEF Key, Size
<1>2. ReplaceBytes(k) \in Nat
  BY <1>1, MailboxAssumption DEF ReplaceBytes, Queued, InState, Stored, TypeOK, Row, Size
<1>3. old \subseteq Cells(s)
  <2> SUFFICES ASSUME NEW c \in old PROVE c \in Cells(s)
    OBVIOUS
  <2>1. c[1] = m /\ c[2] \in 1 .. ReplaceBytes(k) /\ c = <<c[1], c[2]>>
    OBVIOUS
  <2>2. Queued(k) /\ c[2] \in 1 .. row[k].size
    BY <1>1, <2>1 DEF ReplaceBytes
  <2>3. row[k].size \in Size
    BY <1>1, <2>2 DEF Queued, InState, Stored, TypeOK, Row
  <2>4. c[2] \in Size /\ c[2] <= row[k].size
    BY <2>2, <2>3, MailboxAssumption DEF Size
  <2> HIDE DEF old
  <2> QED BY <2>1, <2>2, <2>4 DEF Cells
<1>4. Cells(s)' \subseteq (Cells(s) \ old) \cup new
  <2> SUFFICES ASSUME NEW c \in Cells(s)' PROVE c \in (Cells(s) \ old) \cup new
    OBVIOUS
  <2>1. c \in MessageId \X Size /\ Queued(<<s, c[1]>>)' /\ c[2] <= row'[<<s, c[1]>>].size
    BY DEF Cells
  <2>2. CASE c[1] = m
    <3>1. row'[k].size = size
      BY <1>1 DEF Upload, TypeOK
    <3>2. c[2] \in 1 .. size
      BY <1>1, <2>1, <2>2, <3>1, MailboxAssumption DEF Size
    <3>3. c = <<m, c[2]>>
      BY <2>1, <2>2
    <3> QED BY <3>2, <3>3
  <2>3. CASE c[1] # m
    <3>1. row'[<<s, c[1]>>] = row[<<s, c[1]>>]
      BY <1>1, <2>1, <2>3 DEF Upload, TypeOK, Key
    <3>2. c \in Cells(s)
      BY <2>1, <3>1 DEF Cells, Queued, InState, Stored
    <3> QED BY <2>3, <3>2
  <2> QED BY <2>2, <2>3
<1>5. IsFiniteSet(old) /\ Cardinality(old) = ReplaceBytes(k)
  BY <1>2, CellsOfOne
<1>6. IsFiniteSet(new) /\ Cardinality(new) = size
  BY <1>1, CellsOfOne
<1>7. IsFiniteSet(Cells(s)) /\ UsedBytes(s) \in Nat
  BY CellsFinite
<1>8. /\ IsFiniteSet(Cells(s) \ old)
      /\ Cardinality(Cells(s) \ old) = UsedBytes(s) - ReplaceBytes(k)
  <2>1. Cells(s) \cap old = old
    BY <1>3
  <2> HIDE DEF old
  <2>2. /\ IsFiniteSet(Cells(s) \ old)
        /\ Cardinality(Cells(s) \ old) = Cardinality(Cells(s)) - Cardinality(Cells(s) \cap old)
    BY <1>7, FS_Difference
  <2> QED BY <1>5, <2>1, <2>2 DEF UsedBytes
<1> HIDE DEF old, new, k
<1>9. /\ IsFiniteSet((Cells(s) \ old) \cup new)
      /\ Cardinality((Cells(s) \ old) \cup new) <= UsedBytes(s) - ReplaceBytes(k) + size
  <2>1. Cardinality((Cells(s) \ old) \cup new)
          = Cardinality(Cells(s) \ old) + Cardinality(new) - Cardinality((Cells(s) \ old) \cap new)
    BY <1>6, <1>8, FS_Union
  <2>2. Cardinality((Cells(s) \ old) \cap new) \in Nat
    BY <1>8, FS_Intersection, FS_CardinalityType
  <2>3. IsFiniteSet((Cells(s) \ old) \cup new)
    BY <1>6, <1>8, FS_Union
  <2> QED BY <1>1, <1>2, <1>6, <1>7, <1>8, <2>1, <2>2, <2>3
<1>10. Cardinality(Cells(s)') <= UsedBytes(s) - ReplaceBytes(k) + size
  <2>1. /\ IsFiniteSet(Cells(s)')
        /\ Cardinality(Cells(s)') <= Cardinality((Cells(s) \ old) \cup new)
    BY <1>4, <1>9, FS_Subset
  <2>2. Cardinality(Cells(s)') \in Nat /\ Cardinality((Cells(s) \ old) \cup new) \in Nat
    BY <1>9, <2>1, FS_CardinalityType
  <2> QED BY <1>1, <1>2, <1>7, <1>9, <2>1, <2>2
<1>11. UsedBytes(s) - ReplaceBytes(k) + size <= Quota
  BY DEF Upload, UploadFits, k
<1>12. UsedBytes(s)' \in Nat
  <2>1. IsFiniteSet(Cells(s)')
    BY <1>4, <1>9, FS_Subset
  <2> QED BY <2>1, FS_CardinalityType DEF UsedBytes
<1> QED BY <1>1, <1>2, <1>7, <1>10, <1>11, <1>12, MailboxAssumption DEF UsedBytes

\* The upload counter of a key moves only when its sender uploads it.
LEMMA OnlyUploadRaisesUploads ==
    ASSUME TypeOK, [Next]_vars, NEW s \in Sender, NEW m \in MessageId,
           uploads'[<<s, m>>] = uploads[<<s, m>>] + 1
    PROVE  \E r \in Recipient, size \in Size, ttl \in Ttl : Upload(s, m, r, size, ttl)
<1> DEFINE k == <<s, m>>
<1>1. k \in Key /\ uploads[k] \in Nat /\ uploads'[k] # uploads[k]
  BY DEF Key, TypeOK
<1>2. ASSUME NEW t \in Sender, NEW n \in MessageId, NEW r \in Recipient,
             NEW size \in Size, NEW ttl \in Ttl, Upload(t, n, r, size, ttl)
      PROVE  t = s /\ n = m
  BY <1>1, <1>2 DEF Upload, TypeOK
<1>3. uploads' # uploads
  BY <1>1
<1> QED BY <1>2, <1>3 DEF Next, PeerCall, vars, ExtendTtl, AckDeliver, AckRead, Sweep, Tick

\* A step that is no upload by s adds no cell of s.
LEMMA OnlyUploadsAddCells ==
    ASSUME TypeOK, [Next]_vars, NEW s \in Sender,
           \A m \in MessageId : ~RowUploaded(<<s, m>>)
    PROVE  Cells(s)' \subseteq Cells(s)
<1> SUFFICES ASSUME NEW c \in Cells(s)' PROVE c \in Cells(s)
  OBVIOUS
<1> DEFINE k == <<s, c[1]>>
<1>1. c \in MessageId \X Size /\ Queued(k)' /\ c[2] <= row'[k].size
  BY DEF Cells
<1>2. k \in Key /\ ~RowUploaded(k)
  BY <1>1 DEF Key
<1>3. Queued(k) /\ row'[k].size = row[k].size
  <2>1. CASE RowExtended(k)
    <3>1. row[k] \in Row
      BY <1>2, <2>1 DEF RowExtended, Queued, InState, Stored, TypeOK
    <3> QED BY <2>1, <3>1 DEF RowExtended, Row
  <2>2. CASE RowEnded(k)
    BY <1>1, <2>2 DEF RowEnded, Settled, Queued, InState
  <2>3. CASE RowRead(k)
    <3>1. row[k] \in Row
      BY <1>2, <2>3 DEF RowRead, InState, Stored, TypeOK
    <3> QED BY <1>1, <2>3, <3>1 DEF RowRead, Queued, InState, Row
  <2>4. CASE RowKept(k)
    BY <1>1, <2>4 DEF RowKept, Queued, InState, Stored
  <2> QED BY <1>2, <2>1, <2>2, <2>3, <2>4, StepOnRows
<1> QED BY <1>1, <1>3 DEF Cells

\* No reachable state has a sender above its quota.
THEOREM QuotaHolds == Spec => []QuotaRespected
<1>1. Init => QuotaRespected
  <2> SUFFICES ASSUME Init, NEW s \in Sender PROVE UsedBytes(s) <= Quota
    BY DEF QuotaRespected
  <2>1. Cells(s) = {}
    BY DEF Init, Cells, Queued, InState, Stored, Key
  <2> QED BY <2>1, FS_EmptySet, MailboxAssumption DEF UsedBytes
<1>2. TypeOK /\ QuotaRespected /\ [Next]_vars => QuotaRespected'
  <2> SUFFICES ASSUME TypeOK, QuotaRespected, [Next]_vars, NEW s \in Sender
               PROVE  UsedBytes(s)' <= Quota
    BY DEF QuotaRespected
  <2>1. CASE \E m \in MessageId, r \in Recipient, size \in Size, ttl \in Ttl :
                Upload(s, m, r, size, ttl)
    BY <2>1, UploadKeepsQuota
  <2>2. CASE ~\E m \in MessageId, r \in Recipient, size \in Size, ttl \in Ttl :
                Upload(s, m, r, size, ttl)
    <3>1. \A m \in MessageId : ~RowUploaded(<<s, m>>)
      BY <2>2, OnlyUploadRaisesUploads DEF RowUploaded, Key, TypeOK
    <3>2. Cells(s)' \in SUBSET Cells(s)
      BY <3>1, OnlyUploadsAddCells
    <3>3. IsFiniteSet(Cells(s)) /\ UsedBytes(s) \in Nat
      BY CellsFinite
    <3>4. IsFiniteSet(Cells(s)') /\ Cardinality(Cells(s)') <= UsedBytes(s)
      BY <3>2, <3>3, FS_Subset DEF UsedBytes
    <3>5. Cardinality(Cells(s)') \in Nat
      BY <3>4, FS_CardinalityType
    <3>6. UsedBytes(s) <= Quota
      BY DEF QuotaRespected
    <3> QED BY <3>3, <3>4, <3>5, <3>6, MailboxAssumption DEF UsedBytes
  <2> QED BY <2>1, <2>2
<1> QED BY <1>1, <1>2, TypeCorrect, PTL DEF Spec

----------------------------------------------------------------------------
(* The eight parts side by side (MCApp).  They share no variable, and a    *)
(* step moves one of them, so a behaviour of the whole is a behaviour of   *)
(* each part.                                                              *)

LEMMA AppPartsStart ==
    AppInit => /\ CallInit /\ HubInit /\ RosterInit /\ LinesInit /\ BadgeInit
               /\ NodeControlInit /\ KeyInit /\ Init
  BY DEF AppInit

LEMMA AppPartsStep ==
    [AppNext]_partVars =>
        /\ [CallNext]_callVars /\ [HubNext]_hubVars /\ [RosterNext]_rosterVars
        /\ [LinesNext]_lineVars /\ [BadgeNext]_badgeVars /\ [NodeControlNext]_nodeVars
        /\ [KeyNext]_keyVars /\ [Next]_vars
<1> SUFFICES ASSUME [AppNext]_partVars
             PROVE  /\ [CallNext]_callVars /\ [HubNext]_hubVars /\ [RosterNext]_rosterVars
                    /\ [LinesNext]_lineVars /\ [BadgeNext]_badgeVars /\ [NodeControlNext]_nodeVars
                    /\ [KeyNext]_keyVars /\ [Next]_vars
  OBVIOUS
<1>1. CASE InCalls /\ CallNext
  BY <1>1 DEF InCalls
<1>2. CASE InHub /\ HubNext
  BY <1>2 DEF InHub
<1>3. CASE InRoster /\ RosterNext
  BY <1>3 DEF InRoster
<1>4. CASE InLines /\ LinesNext
  BY <1>4 DEF InLines
<1>5. CASE InBadge /\ BadgeNext
  BY <1>5 DEF InBadge
<1>6. CASE InNode /\ NodeControlNext
  BY <1>6 DEF InNode
<1>7. CASE InKeys /\ KeyNext
  BY <1>7 DEF InKeys
<1>8. CASE InMailbox /\ Next
  BY <1>8 DEF InMailbox
<1>9. CASE UNCHANGED partVars
  BY <1>9 DEF partVars
<1> QED BY <1>1, <1>2, <1>3, <1>4, <1>5, <1>6, <1>7, <1>8, <1>9 DEF AppNext

\* The application is each of its parts, whichever moves when.
THEOREM AppIsItsParts ==
    AppSpec => /\ CallSpec /\ HubSpec /\ RosterSpec /\ LinesSpec
               /\ BadgeSpec /\ NodeControlSpec /\ KeySpec /\ Spec
  BY AppPartsStart, AppPartsStep, PTL
     DEF AppSpec, CallSpec, HubSpec, RosterSpec, LinesSpec, BadgeSpec, NodeControlSpec, KeySpec, Spec

\* Every state of the application has its type: the calls of both devices, the
\* screens and their history, the contact file and the list shown of it, the
\* lines of a room, the unread counts, the threads of a login, the files of the
\* identity and the rows of the server.
THEOREM AppTypeCorrect == AppSpec => []AppTypeOK
<1>1. AppTypeOK <=> /\ CallTypeOK /\ HubTypeOK /\ RosterTypeOK /\ LinesTypeOK /\ BadgeTypeOK
                    /\ NodeControlTypeOK /\ KeyTypeOK /\ TypeOK
  BY DEF AppTypeOK
<1> QED BY <1>1, AppIsItsParts, CallTypeCorrect, HubTypeCorrect, RosterTypeCorrect, LinesTypeCorrect,
           BadgeTypeCorrect, NodeControlTypeCorrect, KeyTypeCorrect, TypeCorrect, PTL

\* The application keeps every promise of its parts: both devices end in one
\* call, the core hears of the room shown, the list and the lines on screen are
\* those of the files, the badge covers what nobody saw, the node that runs is
\* the one held and serves its own session only, the quota holds, the identity
\* is kept, and only the user gives and takes trust.
THEOREM AppPromises ==
    AppSpec => /\ []DialsAgree /\ []ShownRoomIsTold
               /\ []RosterIsFresh /\ []LinesAreFresh /\ []BadgeCoversUnseen
               /\ []RunningNodeIsHeld /\ []ThreadsServeSession
               /\ []QuotaRespected /\ []KeyIsKept
               /\ TrustIsTheUsers
  BY AppIsItsParts, DialsEndInOneCall, TellsTheShownRoom, RosterShowsTheFile, RoomShowsTheNewest,
     BadgeIsTrue, TableHoldsRunningNode, NobodyIsServedForAnother, QuotaHolds, IdentityIsKept,
     TrustStaysWithTheUser, PTL
=============================================================================
