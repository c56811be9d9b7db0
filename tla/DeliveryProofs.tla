--------------------------- MODULE DeliveryProofs ---------------------------
(***************************************************************************)
(* Proofs about DeliverySystem, for every set of messages and every bound  *)
(* of time, faults and uploads: an accepted message is not lost, the ticks *)
(* tell the truth, and what arrives is what was sent.  About the           *)
(* connections of DeliverySessions, for any number of them: pushes are     *)
(* handled in order, only a rival has a request turned down, and the       *)
(* server issues at most three nonces on a connection.  About the streams  *)
(* of MediaSessions: an ended call is cut off.  And about the three side   *)
(* by side (MCDelivery): the whole keeps what each part promises.          *)
(***************************************************************************)
EXTENDS MCDelivery, FiniteSetTheorems, TLAPS

----------------------------------------------------------------------------
(* The calls of the table, for the one sender and the one recipient.       *)

LEMMA KeysOfTable == \A m \in Msg : Key(m) \in Box!Key
  BY DEF Key, Box!Key

\* An ack that is good finds the message queued, and a read delivered.
LEMMA AckedIsQueued ==
    ASSUME NEW m \in Msg, "ok" \in Box!AckResults(R, m, S)
    PROVE  Box!Queued(Key(m))
<1> DEFINE rows == {k \in Box!Key : Box!Queued(k) /\ k[2] = m /\ row[k].recipient = R}
<1>1. PICK k \in rows : k[1] = S
  BY DEF Box!AckResults
<1>2. k = Key(m)
  BY <1>1 DEF Box!Key, Key
<1> QED BY <1>1, <1>2

LEMMA ReadIsDelivered ==
    ASSUME NEW m \in Msg, "ok" \in Box!ReadResults(R, m, S)
    PROVE  Box!InState(Key(m), "delivered")
<1> DEFINE rows == {k \in Box!Key : Box!Stored(k) /\ k[2] = m /\ row[k].recipient = R}
<1>1. PICK k \in rows : Box!ReadResult(k, S) = "ok"
  BY DEF Box!ReadResults
<1>2. k[1] = S /\ row[k].state = "delivered"
  BY <1>1 DEF Box!ReadResult
<1>3. k = Key(m)
  BY <1>1, <1>2 DEF Box!Key, Key
<1> QED BY <1>1, <1>2, <1>3 DEF Box!InState

\* Every step of the table that the server takes leads to a table again.
LEMMA TableStep ==
    ASSUME Box!TypeOK, NEW m \in Msg,
           \/ Box!Upload(S, m, R, 1, 1) \/ Box!AckDeliver(R, m, S) \/ Box!AckRead(R, m, S)
           \/ Box!Sweep \/ Box!Tick
    PROVE  Box!TypeOK'
<1> USE DeliveryAssumption
<1>1. Key(m) \in Box!Key /\ Key(m) = <<S, m>>
  BY KeysOfTable DEF Key
<1>2. CASE Box!Upload(S, m, R, 1, 1)
  <2>1. [state |-> "queued", recipient |-> R, blob |-> TRUE, size |-> 1, uploaded |-> now,
         expires |-> Box!Lesser(now + 1, Box!MaxExpires(now))] \in Box!Row
    BY DEF Box!Row, Box!State, Box!Size, Box!Lesser, Box!MaxExpires, Box!TypeOK
  <2> QED BY <1>1, <1>2, <2>1 DEF Box!Upload, Box!TypeOK
<1>3. CASE Box!AckDeliver(R, m, S)
  <2>1. row[Key(m)] \in Box!Row
    BY <1>1, <1>3, AckedIsQueued DEF Box!AckDeliver, Box!Queued, Box!InState, Box!Stored, Box!TypeOK
  <2>2. Box!Settled(row[Key(m)], "delivered") \in Box!Row
    BY <2>1 DEF Box!Row, Box!State, Box!Settled
  <2> QED BY <1>1, <1>3, <2>2 DEF Box!AckDeliver, Box!TypeOK
<1>4. CASE Box!AckRead(R, m, S)
  <2>1. row[Key(m)] \in Box!Row
    BY <1>1, <1>4, ReadIsDelivered DEF Box!AckRead, Box!InState, Box!Stored, Box!TypeOK
  <2>2. [row[Key(m)] EXCEPT !.state = "read"] \in Box!Row
    BY <2>1 DEF Box!Row, Box!State
  <2> QED BY <1>1, <1>4, <2>2 DEF Box!AckRead, Box!TypeOK
<1>5. CASE Box!Sweep
  <2>1. ASSUME NEW k \in Box!Key, Box!Due(k)
        PROVE  Box!Settled(row[k], "expired") \in Box!Row
    BY <2>1 DEF Box!Due, Box!Queued, Box!InState, Box!Stored, Box!Row, Box!State, Box!Settled, Box!TypeOK
  <2>2. row' \in [Box!Key -> Box!Row \cup {NoRow}]
    BY <1>5, <2>1 DEF Box!Sweep, Box!TypeOK
  <2>3. settled' \in [Box!Key -> Nat]
    <3>1. \A k \in Box!Key : (IF Box!Due(k) THEN settled[k] + 1 ELSE settled[k]) \in Nat
      BY DEF Box!TypeOK
    <3>2. settled' = [k \in Box!Key |-> IF Box!Due(k) THEN settled[k] + 1 ELSE settled[k]]
      BY <1>5 DEF Box!Sweep
    <3> QED BY <3>1, <3>2
  <2> QED BY <1>5, <2>2, <2>3 DEF Box!Sweep, Box!TypeOK
<1>6. CASE Box!Tick
  BY <1>6 DEF Box!Tick, Box!TypeOK
<1> QED BY <1>2, <1>3, <1>4, <1>5, <1>6

----------------------------------------------------------------------------
(* Type correctness, in four parts: every action disturbs one or two.      *)

TableType == Box!TypeOK /\ blob \in [Msg -> Forms]

SenderType ==
    /\ tick \in [Msg -> Marks]
    /\ kind \in [Msg -> Kinds \cup {"none"}]
    /\ form \in [Msg -> Forms]
    /\ thread \in [Msg -> {"idle", "connecting", "waiting"}]
    /\ outcome \subseteq Msg \X {"ok", "hard"}

ServerType ==
    /\ sOnline \in BOOLEAN /\ sNotices \subseteq Notice
    /\ job \in [Msg -> {"none", "received", "stored"} \X Forms]
    /\ nonce \in Msg \cup {S, NoOne}
    /\ notify \subseteq Push
    /\ rOnline \in BOOLEAN /\ listing \in BOOLEAN /\ rOffers \subseteq Msg \X Forms

RecipientType ==
    /\ rWork \in Request \cup {Idle}
    /\ rRequests \subseteq Request
    /\ got \in [Msg -> Seq(Forms)]
    /\ roomOpen \in BOOLEAN /\ seen \subseteq Msg /\ readSent \subseteq Msg

FaultType == faults \in 0 .. MaxFaults

Typed == TableType /\ SenderType /\ ServerType /\ RecipientType /\ FaultType

LEMMA SameTable == TableType /\ UNCHANGED mailbox => TableType'
  BY DEF TableType, mailbox, Box!TypeOK

LEMMA SameSender == SenderType /\ UNCHANGED sender => SenderType'
  BY DEF SenderType, sender

LEMMA SameServer == ServerType /\ UNCHANGED <<sLink, server, rLink>> => ServerType'
  BY DEF ServerType, sLink, server, rLink

LEMMA SameRecipient == RecipientType /\ UNCHANGED recipient => RecipientType'
  BY DEF RecipientType, recipient

LEMMA CountedFault == FaultType /\ (Fault \/ UNCHANGED faults) => FaultType'
<1> MaxFaults \in Nat
  BY DeliveryAssumption
<1> QED BY DEF FaultType, Fault

\* A mark is set to one of the marks.
LEMMA MarkedType ==
    ASSUME SenderType, NEW m \in Msg, NEW mark \in Marks
    PROVE  Raised(m, mark) \in [Msg -> Marks] /\ Failed(m) \in [Msg -> Marks]
  BY DEF SenderType, Raised, Failed, Marks

LEMMA TypeOfSender ==
    ASSUME Typed, SenderStep PROVE Typed'
<1>0. TableType /\ SenderType /\ ServerType /\ RecipientType /\ FaultType
  BY DEF Typed
<1>1. ASSUME NEW m \in Msg, NEW k \in Kinds, Send(m, k) PROVE Typed'
  <2>1. SenderType'
    BY <1>0, <1>1 DEF Send, SenderType, Marks, Forms
  <2> QED BY <1>0, <1>1, <2>1, SameTable, SameServer, SameRecipient, CountedFault DEF Typed, Send
<1>2. ASSUME NEW m \in Msg, Retry(m) PROVE Typed'
  <2>1. SenderType'
    BY <1>0, <1>2 DEF Retry, RetryForm, SenderType, Forms
  <2> QED BY <1>0, <1>2, <2>1, SameTable, SameServer, SameRecipient, CountedFault DEF Typed, Retry
<1>3. ASSUME NEW m \in Msg, RequestUpload(m) PROVE Typed'
  <2>1. SenderType'
    BY <1>0, <1>3 DEF RequestUpload, request, SenderType
  <2>2. <<"received", form[m]>> \in {"none", "received", "stored"} \X Forms
    BY <1>0 DEF SenderType
  <2>3. ServerType'
    BY <1>0, <1>3, <2>2 DEF RequestUpload, ServerType, sLink, rLink
  <2> QED BY <1>0, <1>3, <2>1, <2>3, SameTable, SameRecipient, CountedFault DEF Typed, RequestUpload
<1>4. ASSUME NEW m \in Msg, NEW result \in {"ok", "hard"}, Patch(m, result) PROVE Typed'
  <2>1. tick' \in [Msg -> Marks]
    BY <1>0, <1>4, MarkedType DEF Patch, Marks
  <2>2. SenderType'
    BY <1>0, <1>4, <2>1 DEF Patch, request, SenderType
  <2> QED BY <1>0, <1>4, <2>2, SameTable, SameServer, SameRecipient, CountedFault DEF Typed, Patch
<1>5. CASE SenderConnects
  <2>1. ServerType'
    BY <1>0, <1>5 DEF SenderConnects, ServerType, rLink
  <2> QED BY <1>0, <1>5, <2>1, SameTable, SameSender, SameRecipient, CountedFault DEF Typed, SenderConnects
<1>6. ASSUME NEW n \in Notice, HandleNotice(n) PROVE Typed'
  <2>1. n[1] \in {"delivered", "read", "expired"} /\ n[2] \in Msg
    BY DEF Notice
  <2>2. tick' \in [Msg -> Marks]
    BY <1>0, <1>6, <2>1, MarkedType DEF HandleNotice, Marks
  <2>3. SenderType'
    BY <1>0, <1>6, <2>2 DEF HandleNotice, request, SenderType
  <2>4. ServerType'
    BY <1>0, <1>6 DEF HandleNotice, ServerType, server, rLink
  <2> QED BY <1>0, <1>6, <2>3, <2>4, SameTable, SameRecipient, CountedFault DEF Typed, HandleNotice
<1> QED BY <1>1, <1>2, <1>3, <1>4, <1>5, <1>6 DEF SenderStep

LEMMA TypeOfServer ==
    ASSUME Typed, ServerStep PROVE Typed'
<1>0. TableType /\ SenderType /\ ServerType /\ RecipientType /\ FaultType
  BY DEF Typed
<1>1. ASSUME NEW m \in Msg, StoreUpload(m) PROVE Typed'
  <2>1. job[m] \in {"none", "received", "stored"} \X Forms
    BY <1>0 DEF ServerType
  <2>2. TableType'
    BY <1>0, <1>1, <2>1, TableStep DEF StoreUpload, TableType
  <2>3. [job[m] EXCEPT ![1] = "stored"] \in {"none", "received", "stored"} \X Forms
    BY <2>1
  <2>4. job' \in [Msg -> {"none", "received", "stored"} \X Forms]
    BY <1>0, <1>1, <2>3 DEF StoreUpload, ServerType
  <2>5. <<"inbound", m, job[m][2]>> \in Push
    BY <2>1 DEF Push, Inbound
  <2>6. ServerType'
    BY <1>0, <1>1, <2>4, <2>5 DEF StoreUpload, ServerType, sLink, rLink
  <2> QED BY <1>0, <1>1, <2>2, <2>6, SameSender, SameRecipient, CountedFault DEF Typed, StoreUpload
<1>2. ASSUME NEW m \in Msg, RefuseUpload(m) PROVE Typed'
  <2>1. SenderType'
    BY <1>0, <1>2 DEF RefuseUpload, request, SenderType
  <2>2. ServerType'
    BY <1>0, <1>2 DEF RefuseUpload, ServerType, NoJob, Forms, sLink, rLink
  <2> QED BY <1>0, <1>2, <2>1, <2>2, SameTable, SameRecipient, CountedFault DEF Typed, RefuseUpload
<1>3. ASSUME NEW m \in Msg, AnswerUpload(m) PROVE Typed'
  <2>1. SenderType'
    BY <1>0, <1>3 DEF AnswerUpload, request, SenderType
  <2>2. ServerType'
    BY <1>0, <1>3 DEF AnswerUpload, ServerType, NoJob, Forms, sLink, rLink
  <2> QED BY <1>0, <1>3, <2>1, <2>2, SameTable, SameRecipient, CountedFault DEF Typed, AnswerUpload
<1>4. ASSUME NEW n \in Push, MakePush(n) PROVE Typed'
  <2>1. rOffers' \subseteq Msg \X Forms
    <3>1. n[1] = "inbound" => <<n[2], n[3]>> \in Msg \X Forms
      BY DEF Push, Notice, Inbound
    <3> QED BY <1>0, <1>4, <3>1 DEF MakePush, ServerType
  <2>2. sNotices' \subseteq Notice
    BY <1>0, <1>4 DEF MakePush, ServerType, Push, Inbound
  <2>3. ServerType'
    BY <1>0, <1>4, <2>1, <2>2 DEF MakePush, ServerType
  <2> QED BY <1>0, <1>4, <2>3, SameTable, SameSender, SameRecipient, CountedFault DEF Typed, MakePush
<1>5. CASE ListPending
  <2>1. \A m \in Msg : <<m, blob[m]>> \in Msg \X Forms
    BY <1>0 DEF TableType
  <2>2. ServerType'
    BY <1>0, <1>5, <2>1 DEF ListPending, ServerType, sLink, server
  <2> QED BY <1>0, <1>5, <2>2, SameTable, SameSender, SameRecipient, CountedFault DEF Typed, ListPending
<1>6. ASSUME NEW m \in Msg, ServeAck(m) PROVE Typed'
  <2>1. TableType'
    BY <1>0, <1>6, TableStep, SameTable DEF ServeAck, TableType, mailbox
  <2>2. <<"delivered", m>> \in Push
    BY DEF Push, Notice
  <2>3. ServerType'
    BY <1>0, <1>6, <2>2 DEF ServeAck, ServerType, sLink, rLink, mailbox
  <2>4. RecipientType'
    BY <1>0, <1>6 DEF ServeAck, RecipientType
  <2> QED BY <1>0, <1>6, <2>1, <2>3, <2>4, SameSender, CountedFault DEF Typed, ServeAck
<1>7. ASSUME NEW m \in Msg, ServeRead(m) PROVE Typed'
  <2>1. TableType'
    BY <1>0, <1>7, TableStep, SameTable DEF ServeRead, TableType, mailbox
  <2>2. <<"read", m>> \in Push /\ <<"read_ok", m>> \in Request
    BY DEF Push, Notice, Request
  <2>3. ServerType'
    BY <1>0, <1>7, <2>2 DEF ServeRead, ServerType, sLink, rLink, mailbox
  <2>4. RecipientType'
    BY <1>0, <1>7, <2>2 DEF ServeRead, RecipientType
  <2> QED BY <1>0, <1>7, <2>1, <2>3, <2>4, SameSender, CountedFault DEF Typed, ServeRead
<1>8. CASE Sweep
  <2>1. TableType'
    <3>1. CASE \E m \in Msg : TRUE
      BY <1>0, <1>8, <3>1, TableStep DEF Sweep, TableType
    <3>2. CASE ~ \E m \in Msg : TRUE
      BY <1>8, <3>2 DEF Sweep, Box!Sweep, Box!Key
    <3> QED BY <3>1, <3>2
  <2>2. notify' \subseteq Push
    BY <1>0, <1>8 DEF Sweep, ServerType, Push, Notice
  <2>3. ServerType'
    BY <1>0, <1>8, <2>2 DEF Sweep, ServerType, sLink, rLink
  <2> QED BY <1>0, <1>8, <2>1, <2>3, SameSender, SameRecipient, CountedFault DEF Typed, Sweep
<1>9. CASE ClockTick
  <2>1. TableType'
    BY <1>0, <1>9 DEF ClockTick, TableType, Box!Tick, Box!TypeOK
  <2> QED BY <1>0, <1>9, <2>1, SameSender, SameServer, SameRecipient, CountedFault DEF Typed, ClockTick
<1> QED BY <1>1, <1>2, <1>3, <1>4, <1>5, <1>6, <1>7, <1>8, <1>9 DEF ServerStep

LEMMA TypeOfRecipient ==
    ASSUME Typed, RecipientStep PROVE Typed'
<1>0. TableType /\ SenderType /\ ServerType /\ RecipientType /\ FaultType
  BY DEF Typed
<1>1. CASE RecipientConnects
  <2>1. ServerType'
    BY <1>0, <1>1 DEF RecipientConnects, ServerType, sLink, server
  <2> QED BY <1>0, <1>1, <2>1, SameTable, SameSender, SameRecipient, CountedFault DEF Typed, RecipientConnects
<1>2. ASSUME NEW m \in Msg, NEW f \in Forms, HandleInbound(m, f) PROVE Typed'
  <2>1. ServerType'
    BY <1>0, <1>2 DEF HandleInbound, ServerType, sLink, server
  <2>2. <<f>> \in Seq(Forms)
    OBVIOUS
  <2>3. got' \in [Msg -> Seq(Forms)]
    BY <1>0, <1>2, <2>2 DEF HandleInbound, Appended, RecipientType
  <2>4. RecipientType'
    BY <1>0, <1>2, <2>3 DEF HandleInbound, RecipientType, Request
  <2> QED BY <1>0, <1>2, <2>1, <2>4, SameTable, SameSender, CountedFault DEF Typed, HandleInbound
<1>3. ASSUME NEW m \in Msg, AckAnswered(m) PROVE Typed'
  <2>1. RecipientType'
    BY <1>0, <1>3 DEF AckAnswered, RecipientType, Request
  <2> QED BY <1>0, <1>3, <2>1, SameTable, SameSender, SameServer, CountedFault DEF Typed, AckAnswered
<1>4. ASSUME NEW m \in Msg, ReadAnswered(m) PROVE Typed'
  <2>1. RecipientType'
    BY <1>0, <1>4 DEF ReadAnswered, RecipientType
  <2> QED BY <1>0, <1>4, <2>1, SameTable, SameSender, SameServer, CountedFault DEF Typed, ReadAnswered
<1>5. ASSUME NEW m \in Msg, ReadBacklog(m) PROVE Typed'
  <2>1. RecipientType'
    BY <1>0, <1>5 DEF ReadBacklog, RecipientType, Request
  <2> QED BY <1>0, <1>5, <2>1, SameTable, SameSender, SameServer, CountedFault DEF Typed, ReadBacklog
<1>6. CASE OpenRoom
  <2>1. RecipientType'
    BY <1>0, <1>6 DEF OpenRoom, RecipientType
  <2> QED BY <1>0, <1>6, <2>1, SameTable, SameSender, SameServer, CountedFault DEF Typed, OpenRoom
<1>7. CASE CloseRoom
  <2>1. RecipientType'
    BY <1>0, <1>7 DEF CloseRoom, RecipientType
  <2> QED BY <1>0, <1>7, <2>1, SameTable, SameSender, SameServer, CountedFault DEF Typed, CloseRoom
<1> QED BY <1>1, <1>2, <1>3, <1>4, <1>5, <1>6, <1>7 DEF RecipientStep

LEMMA TypeOfFault ==
    ASSUME Typed, FaultStep PROVE Typed'
<1>0. TableType /\ SenderType /\ ServerType /\ RecipientType /\ FaultType
  BY DEF Typed
<1>1. ASSUME NEW m \in Msg, NEW hard \in BOOLEAN, ConnectFails(m, hard) PROVE Typed'
  <2>1. SenderType'
    BY <1>0, <1>1 DEF ConnectFails, request, SenderType
  <2> QED BY <1>0, <1>1, <2>1, SameTable, SameServer, SameRecipient, CountedFault DEF Typed, ConnectFails
<1>2. ASSUME NEW m \in Msg, UploadLost(m) PROVE Typed'
  <2>1. SenderType'
    BY <1>0, <1>2 DEF UploadLost, request, SenderType
  <2>2. ServerType'
    BY <1>0, <1>2 DEF UploadLost, ServerType, NoJob, Forms, sLink, rLink
  <2> QED BY <1>0, <1>2, <2>1, <2>2, SameTable, SameRecipient, CountedFault DEF Typed, UploadLost
<1>3. CASE SenderDrops
  <2>1. ServerType'
    BY <1>0, <1>3 DEF SenderDrops, ServerType, server, rLink
  <2> QED BY <1>0, <1>3, <2>1, SameTable, SameSender, SameRecipient, CountedFault DEF Typed, SenderDrops
<1>4. CASE SenderCrashes
  <2>1. SenderType'
    BY <1>0, <1>4 DEF SenderCrashes, request, SenderType
  <2>2. ServerType'
    BY <1>0, <1>4 DEF SenderCrashes, ServerType, server, rLink
  <2> QED BY <1>0, <1>4, <2>1, <2>2, SameTable, SameRecipient, CountedFault DEF Typed, SenderCrashes
<1>5. CASE ServerRestarts
  <2>1. SenderType'
    BY <1>0, <1>5 DEF ServerRestarts, request, SenderType
  <2>2. ServerType'
    BY <1>0, <1>5 DEF ServerRestarts, ServerType, NoJob, Forms
  <2>3. RecipientType'
    BY <1>0, <1>5 DEF ServerRestarts, RecipientType
  <2> QED BY <1>0, <1>5, <2>1, <2>2, <2>3, SameTable, CountedFault DEF Typed, ServerRestarts
<1>6. ASSUME NEW crash \in BOOLEAN, RecipientDrops(crash) PROVE Typed'
  <2>1. ServerType'
    BY <1>0, <1>6 DEF RecipientDrops, ServerType, sLink, server
  <2>2. RecipientType'
    BY <1>0, <1>6 DEF RecipientDrops, RecipientType
  <2> QED BY <1>0, <1>6, <2>1, <2>2, SameTable, SameSender, CountedFault DEF Typed, RecipientDrops
<1> QED BY <1>1, <1>2, <1>3, <1>4, <1>5, <1>6 DEF FaultStep

LEMMA TypeStep == Typed /\ [Next]_vars => Typed'
<1>1. ASSUME Typed, UNCHANGED vars PROVE Typed'
  BY <1>1, SameTable, SameSender, SameServer, SameRecipient, CountedFault DEF Typed, vars
<1> QED BY <1>1, TypeOfSender, TypeOfServer, TypeOfRecipient, TypeOfFault DEF Next

LEMMA TypedInit == Init => Typed
<1> SUFFICES ASSUME Init PROVE Typed
  OBVIOUS
<1>1. TableType
  BY DEF Init, TableType, Forms, Box!Init, Box!TypeOK
<1>2. NoJob \in {"none", "received", "stored"} \X Forms
  BY DEF NoJob, Forms
<1>3. SenderType
  BY DEF Init, SenderType, Forms, Marks
<1>4. ServerType
  BY <1>2 DEF Init, ServerType
<1>5. RecipientType
  <2>1. <<>> \in Seq(Forms)
    OBVIOUS
  <2> QED BY <2>1 DEF Init, RecipientType
<1>6. FaultType
  BY DeliveryAssumption DEF Init, FaultType
<1> QED BY <1>1, <1>3, <1>4, <1>5, <1>6 DEF Typed

\* The tables, the marks, the requests under way and the pushes stay what they
\* are taken for, whatever the constants.
THEOREM TypeCorrect == Spec => []TypeOK
<1>1. Typed => TypeOK
  BY DEF Typed, TypeOK, TableType, SenderType, ServerType, RecipientType, FaultType
<1> QED BY <1>1, TypedInit, TypeStep, PTL DEF Spec


----------------------------------------------------------------------------
(* What is accepted is kept, and the ticks tell the truth.                 *)

\* An accepted message is queued, received or expired.
Kept(m) ==
    uploads[Key(m)] > 0 => \/ Box!Queued(Key(m)) /\ row[Key(m)].blob
                           \/ got[m] # <<>>
                           \/ Box!InState(Key(m), "expired")

\* Whatever claims that the upload was accepted is right.
Counted(m) ==
    (tick[m] = "sent" \/ <<m, "ok">> \in outcome \/ job[m][1] = "stored") => uploads[Key(m)] > 0

\* Whatever claims that the message was received is right: a request under way,
\* a push under way, the tick.
Received(m) ==
    (\/ <<"ack", m>> \in rRequests \/ rWork = <<"ack", m>>
     \/ <<"delivered", m>> \in notify \cup sNotices
     \/ tick[m] \in {"delivered", "read"}
     \/ m \in seen) => got[m] # <<>>

\* Whatever claims that the message was read is right.
Displayed(m) ==
    (\/ <<"read", m>> \in rRequests
     \/ <<"read", m>> \in notify \cup sNotices
     \/ tick[m] = "read"
     \/ roomOpen /\ got[m] # <<>>) => m \in seen

Evidence == \A m \in Msg : Kept(m) /\ Counted(m) /\ Received(m) /\ Displayed(m)

\* Raised and Failed change one mark, to the mark named or not at all.
LEMMA OneMark ==
    ASSUME SenderType, NEW m \in Msg, NEW k \in Msg, NEW mark \in Marks
    PROVE  /\ Raised(m, mark)[k] = tick[k] \/ (k = m /\ Raised(m, mark)[k] = mark)
           /\ Failed(m)[k] = tick[k] \/ (k = m /\ Failed(m)[k] = "failed")
  BY DEF SenderType, Raised, Failed, Marks

\* The table changes at the key of the call only, and uploads are never uncounted.
LEMMA StoredThere ==
    ASSUME Box!TypeOK, NEW m \in Msg, Box!Upload(S, m, R, 1, 1), NEW k \in Msg
    PROVE  /\ k # m => row'[Key(k)] = row[Key(k)] /\ uploads'[Key(k)] = uploads[Key(k)]
           /\ uploads'[Key(m)] > 0
           /\ Box!Queued(Key(m))' /\ row'[Key(m)].blob
<1>1. Key(m) \in Box!Key /\ Key(k) \in Box!Key /\ (k # m => Key(k) # Key(m)) /\ Key(m) = <<S, m>>
  BY KeysOfTable DEF Key
<1>2. uploads'[Key(m)] > 0 /\ (k # m => uploads'[Key(k)] = uploads[Key(k)])
  BY <1>1 DEF Box!Upload, Box!TypeOK
<1>3. row'[Key(m)] = [state |-> "queued", recipient |-> R, blob |-> TRUE, size |-> 1, uploaded |-> now,
                      expires |-> Box!Lesser(now + 1, Box!MaxExpires(now))]
  BY <1>1 DEF Box!Upload, Box!TypeOK
<1>4. Box!Stored(Key(m))'
  <2>1. row'[Key(m)] \in Box!Row
    BY <1>3 DEF Box!Row, Box!State, Box!Size, Box!Lesser, Box!MaxExpires, Box!TypeOK
  <2> QED BY <2>1, DeliveryAssumption DEF Box!Stored
<1>5. k # m => row'[Key(k)] = row[Key(k)]
  BY <1>1 DEF Box!Upload, Box!TypeOK
<1> QED BY <1>2, <1>3, <1>4, <1>5 DEF Box!Queued, Box!InState

LEMMA EvidenceOfSender ==
    ASSUME Typed, Evidence, SenderStep PROVE Evidence'
<1>0. SenderType /\ ServerType
  BY DEF Typed
<1> USE DEF Kept, Counted, Received, Displayed, mailbox, recipient, server, sLink
<1>1. ASSUME NEW m \in Msg, NEW k \in Kinds, Send(m, k) PROVE Evidence'
  BY <1>0, <1>1 DEF Send, Evidence, SenderType, Box!Queued, Box!InState, Box!Stored
<1>2. ASSUME NEW m \in Msg, Retry(m) PROVE Evidence'
  BY <1>2 DEF Retry, Evidence, Box!Queued, Box!InState, Box!Stored
<1>3. ASSUME NEW m \in Msg, RequestUpload(m) PROVE Evidence'
  BY <1>0, <1>3 DEF RequestUpload, Evidence, ServerType, Box!Queued, Box!InState, Box!Stored
<1>4. ASSUME NEW m \in Msg, NEW result \in {"ok", "hard"}, Patch(m, result) PROVE Evidence'
  <2>1. \A k \in Msg : tick'[k] = tick[k] \/ (k = m /\ tick'[k] = IF result = "ok" THEN "sent" ELSE "failed")
    BY <1>0, <1>4, OneMark DEF Patch, Marks
  <2> QED BY <1>4, <2>1 DEF Patch, Evidence, Box!Queued, Box!InState, Box!Stored
<1>5. CASE SenderConnects
  BY <1>5 DEF SenderConnects, sender, Evidence, Box!Queued, Box!InState, Box!Stored
<1>6. ASSUME NEW n \in Notice, HandleNotice(n) PROVE Evidence'
  <2>1. n = <<n[1], n[2]>> /\ n[1] \in {"delivered", "read", "expired"} /\ n[2] \in Msg
    BY DEF Notice
  <2>2. \A k \in Msg :
          tick'[k] = tick[k] \/ (k = n[2] /\ tick'[k] = IF n[1] = "expired" THEN "failed" ELSE n[1])
    BY <1>0, <1>6, <2>1, OneMark DEF HandleNotice, Marks
  <2>3. \A k \in Msg : Kept(k)' /\ Counted(k)'
    BY <1>6, <2>1, <2>2 DEF HandleNotice, Evidence, Box!Queued, Box!InState, Box!Stored
  <2>4. \A k \in Msg : Received(k)' /\ Displayed(k)'
    BY <1>6, <2>1, <2>2 DEF HandleNotice, Evidence
  <2> QED BY <2>3, <2>4 DEF Evidence
<1> QED BY <1>1, <1>2, <1>3, <1>4, <1>5, <1>6 DEF SenderStep


LEMMA EvidenceOfServer ==
    ASSUME Typed, Evidence, ServerStep PROVE Evidence'
<1>0. TableType /\ Box!TypeOK /\ SenderType /\ ServerType /\ RecipientType
  BY DEF Typed, TableType
<1> USE DEF Kept, Counted, Received, Displayed, mailbox, sender, recipient, sLink, rLink
<1>1. ASSUME NEW m \in Msg, StoreUpload(m) PROVE Evidence'
  <2>1. \A k \in Msg : /\ k # m => row'[Key(k)] = row[Key(k)] /\ uploads'[Key(k)] = uploads[Key(k)]
                       /\ uploads'[Key(m)] > 0 /\ Box!Queued(Key(m))' /\ row'[Key(m)].blob
    BY <1>0, <1>1, StoredThere DEF StoreUpload
  <2>2. \A k \in Msg : k # m => job'[k] = job[k]
    BY <1>1, <1>0 DEF StoreUpload, ServerType
  <2>3. \A k \in Msg : Kept(k)'
    BY <1>1, <2>1 DEF StoreUpload, Evidence, Box!Queued, Box!InState, Box!Stored
  <2>5. \A k \in Msg : Counted(k)'
    BY <1>1, <2>1, <2>2 DEF StoreUpload, Evidence
  <2>4. \A k \in Msg : Received(k)' /\ Displayed(k)'
    BY <1>1 DEF StoreUpload, Evidence
  <2> QED BY <2>3, <2>4, <2>5 DEF Evidence
<1>2. ASSUME NEW m \in Msg, RefuseUpload(m) PROVE Evidence'
  BY <1>0, <1>2 DEF RefuseUpload, ServerType, NoJob, Evidence, Box!Queued, Box!InState, Box!Stored
<1>3. ASSUME NEW m \in Msg, AnswerUpload(m) PROVE Evidence'
  <2>1. uploads[Key(m)] > 0
    BY <1>3 DEF AnswerUpload, Evidence
  <2>2. \A k \in Msg : job'[k] = job[k] \/ job'[k][1] = "none"
    BY <1>0, <1>3 DEF AnswerUpload, ServerType, NoJob
  <2>3. outcome' \subseteq outcome \cup {<<m, "ok">>}
    BY <1>3 DEF AnswerUpload
  <2>4. \A k \in Msg : Kept(k)' /\ Counted(k)'
    BY <1>3, <2>1, <2>2, <2>3 DEF AnswerUpload, Evidence, Box!Queued, Box!InState, Box!Stored
  <2>5. \A k \in Msg : Received(k)' /\ Displayed(k)'
    BY <1>3 DEF AnswerUpload, Evidence
  <2> QED BY <2>4, <2>5 DEF Evidence
<1>4. ASSUME NEW n \in Push, MakePush(n) PROVE Evidence'
  BY <1>4 DEF MakePush, Evidence, Box!Queued, Box!InState, Box!Stored
<1>5. CASE ListPending
  BY <1>5 DEF ListPending, server, Evidence, Box!Queued, Box!InState, Box!Stored
<1>6. ASSUME NEW m \in Msg, ServeAck(m) PROVE Evidence'
  <2>1. got[m] # <<>>
    BY <1>6 DEF ServeAck, Evidence
  <2>2. \A k \in Msg : k # m => row'[Key(k)] = row[Key(k)]
    BY <1>0, <1>6, KeysOfTable DEF ServeAck, Key, Box!AckDeliver, Box!TypeOK
  <2>3. uploads' = uploads
    BY <1>6 DEF ServeAck, Box!AckDeliver
  <2>4. \A k \in Msg : Kept(k)' /\ Counted(k)'
    BY <1>6, <2>1, <2>2, <2>3 DEF ServeAck, Evidence, Box!Queued, Box!InState, Box!Stored
  <2>5. /\ rRequests' \subseteq rRequests
        /\ notify' \subseteq notify \cup {<<"delivered", m>>}
        /\ UNCHANGED <<tick, sNotices, rWork, roomOpen, got, seen>>
    BY <1>6 DEF ServeAck
  <2>6. \A k \in Msg : Received(k)'
    BY <2>1, <2>5 DEF Evidence
  <2>7. \A k \in Msg : Displayed(k)'
    BY <2>5 DEF Evidence
  <2> QED BY <2>4, <2>6, <2>7 DEF Evidence
<1>7. ASSUME NEW m \in Msg, ServeRead(m) PROVE Evidence'
  <2>1. m \in seen
    BY <1>7 DEF ServeRead, Evidence
  <2>2. got[m] # <<>>
    BY <2>1 DEF Evidence
  <2>3. \A k \in Msg : k # m => row'[Key(k)] = row[Key(k)]
    BY <1>0, <1>7, KeysOfTable DEF ServeRead, Key, Box!AckRead, Box!TypeOK
  <2>4. uploads' = uploads
    BY <1>7 DEF ServeRead, Box!AckRead
  <2>5. \A k \in Msg : Kept(k)' /\ Counted(k)'
    BY <1>7, <2>2, <2>3, <2>4 DEF ServeRead, Evidence, Box!Queued, Box!InState, Box!Stored
  <2>6. /\ rRequests' \subseteq rRequests \cup {<<"read_ok", m>>}
        /\ notify' \subseteq notify \cup {<<"read", m>>}
        /\ UNCHANGED <<tick, sNotices, rWork, roomOpen, got, seen>>
    BY <1>7 DEF ServeRead
  <2>7. \A k \in Msg : Received(k)'
    BY <2>6 DEF Evidence
  <2>8. \A k \in Msg : Displayed(k)'
    BY <2>1, <2>6 DEF Evidence
  <2> QED BY <2>5, <2>7, <2>8 DEF Evidence
<1>8. CASE Sweep
  <2>1. ASSUME NEW k \in Msg PROVE Kept(k)' /\ Counted(k)'
    <3>1. uploads' = uploads /\ row'[Key(k)] = IF Box!Due(Key(k)) THEN Box!Settled(row[Key(k)], "expired")
                                               ELSE row[Key(k)]
      BY <1>8, KeysOfTable DEF Sweep, Box!Sweep
    <3>2. CASE Box!Due(Key(k))
      <4>1. row[Key(k)] \in Box!Row
        BY <1>0, <3>2, KeysOfTable DEF Box!Due, Box!Queued, Box!InState, Box!Stored, Box!TypeOK
      <4>2. row'[Key(k)] \in Box!Row /\ row'[Key(k)].state = "expired"
        BY <3>1, <3>2, <4>1 DEF Box!Settled, Box!Row, Box!State
      <4>3. Box!InState(Key(k), "expired")'
        BY <4>2, DeliveryAssumption DEF Box!InState, Box!Stored
      <4> QED BY <1>8, <3>1, <4>3 DEF Sweep, Evidence
    <3>3. CASE ~Box!Due(Key(k))
      BY <1>8, <3>1, <3>3 DEF Sweep, Evidence, Box!Queued, Box!InState, Box!Stored
    <3> QED BY <3>2, <3>3
  <2>2. \A k \in Msg : Received(k)' /\ Displayed(k)'
    BY <1>8 DEF Sweep, Evidence
  <2> QED BY <2>1, <2>2 DEF Evidence
<1>9. CASE ClockTick
  BY <1>9 DEF ClockTick, server, Box!Tick, Evidence, Box!Queued, Box!InState, Box!Stored
<1> QED BY <1>1, <1>2, <1>3, <1>4, <1>5, <1>6, <1>7, <1>8, <1>9 DEF ServerStep

\* The transcript of the recipient only grows, and grows at one message.
LEMMA EvidenceOfRecipient ==
    ASSUME Typed, Evidence, RecipientStep, ~PersistFails PROVE Evidence'
<1>0. RecipientType
  BY DEF Typed
<1> USE DEF Kept, Counted, Received, Displayed, mailbox, sender, sLink, rLink, server, Idle,
        Box!Queued, Box!InState, Box!Stored
<1>1. CASE RecipientConnects
  BY <1>1 DEF RecipientConnects, recipient, Evidence
<1>2. ASSUME NEW m \in Msg, NEW f \in Forms, HandleInbound(m, f) PROVE Evidence'
  <2>1. got' = Appended(m, f) /\ rWork' = <<"ack", m>> /\ rRequests' = rRequests \cup {<<"ack", m>>}
    BY <1>2 DEF HandleInbound
  <2>2. got'[m] # <<>> /\ \A k \in Msg : got[k] # <<>> => got'[k] # <<>>
    BY <1>0, <2>1 DEF Appended, RecipientType
  <2>3. \A k \in Msg : k # m => got'[k] = got[k]
    BY <1>0, <2>1 DEF Appended, RecipientType
  <2>4. \A k \in Msg : Kept(k)' /\ Counted(k)'
    BY <1>2, <2>2 DEF HandleInbound, Evidence
  <2>5. seen' = IF roomOpen THEN seen \cup {m} ELSE seen
    BY <1>2, <2>2 DEF HandleInbound
  <2>6. \A k \in Msg : Received(k)' /\ Displayed(k)'
    BY <1>2, <2>1, <2>2, <2>3, <2>5 DEF HandleInbound, Evidence
  <2> QED BY <2>4, <2>6 DEF Evidence
<1>3. ASSUME NEW m \in Msg, AckAnswered(m) PROVE Evidence'
  <2>1. got[m] # <<>> /\ (roomOpen => m \in seen)
    BY <1>3 DEF AckAnswered, Evidence
  <2>2. \A k \in Msg : Kept(k)' /\ Counted(k)'
    BY <1>3 DEF AckAnswered, Evidence
  <2>3. UNCHANGED <<tick, notify, sNotices, roomOpen, got, seen>>
    BY <1>3 DEF AckAnswered
  <2>4. \A k \in Msg : rWork' # <<"ack", k>>
    BY <1>3 DEF AckAnswered
  <2>5. rRequests' \subseteq rRequests \cup (IF roomOpen THEN {<<"read", m>>} ELSE {})
    BY <1>3 DEF AckAnswered
  <2>6. \A k \in Msg : Received(k)'
    BY <2>3, <2>4, <2>5 DEF Evidence
  <2>7. \A k \in Msg : Displayed(k)'
    BY <2>1, <2>3, <2>5 DEF Evidence
  <2> QED BY <2>2, <2>6, <2>7 DEF Evidence
<1>4. ASSUME NEW m \in Msg, ReadAnswered(m) PROVE Evidence'
  BY <1>4 DEF ReadAnswered, Evidence
<1>5. ASSUME NEW m \in Msg, ReadBacklog(m) PROVE Evidence'
  BY <1>5 DEF ReadBacklog, Evidence
<1>6. CASE OpenRoom
  BY <1>6 DEF OpenRoom, Evidence
<1>7. CASE CloseRoom
  BY <1>7 DEF CloseRoom, Evidence
<1> QED BY <1>1, <1>2, <1>3, <1>4, <1>5, <1>6, <1>7 DEF RecipientStep

LEMMA EvidenceOfFault ==
    ASSUME Typed, Evidence, FaultStep PROVE Evidence'
<1>0. SenderType /\ ServerType
  BY DEF Typed
<1> USE DEF Kept, Counted, Received, Displayed, mailbox, sender, request, sLink, rLink, server,
        recipient, Idle, NoJob, Box!Queued, Box!InState, Box!Stored
<1>1. ASSUME NEW m \in Msg, NEW hard \in BOOLEAN, ConnectFails(m, hard) PROVE Evidence'
  BY <1>1 DEF ConnectFails, Evidence
<1>2. ASSUME NEW m \in Msg, UploadLost(m) PROVE Evidence'
  <2>1. \A k \in Msg : job'[k] = job[k] \/ job'[k][1] = "none"
    BY <1>0, <1>2 DEF UploadLost, ServerType
  <2>2. \A k \in Msg : Kept(k)' /\ Counted(k)'
    BY <1>2, <2>1 DEF UploadLost, Evidence
  <2>3. \A k \in Msg : Received(k)' /\ Displayed(k)'
    BY <1>2 DEF UploadLost, Evidence
  <2> QED BY <2>2, <2>3 DEF Evidence
<1>3. CASE SenderDrops
  BY <1>3 DEF SenderDrops, Evidence
<1>4. CASE SenderCrashes
  BY <1>4 DEF SenderCrashes, Evidence
<1>5. CASE ServerRestarts
  BY <1>5 DEF ServerRestarts, Evidence
<1>6. ASSUME NEW crash \in BOOLEAN, RecipientDrops(crash) PROVE Evidence'
  BY <1>6 DEF RecipientDrops, Evidence
<1> QED BY <1>1, <1>2, <1>3, <1>4, <1>5, <1>6 DEF FaultStep

LEMMA EvidenceStep ==
    ASSUME ~PersistFails PROVE Typed /\ Evidence /\ [Next]_vars => Evidence'
<1>1. ASSUME Evidence, UNCHANGED vars PROVE Evidence'
  BY <1>1 DEF Evidence, Kept, Counted, Received, Displayed, Box!Queued, Box!InState, Box!Stored,
        vars, mailbox, sender, sLink, server, rLink, recipient
<1> QED BY <1>1, EvidenceOfSender, EvidenceOfServer, EvidenceOfRecipient, EvidenceOfFault DEF Next

LEMMA EvidenceInit == Init => Evidence
  BY KeysOfTable DEF Init, Box!Init, Evidence, Kept, Counted, Received, Displayed, NoJob, Idle

LEMMA EvidenceHolds ==
    ASSUME ~PersistFails PROVE Spec => [](Typed /\ Evidence)
<1> QED BY TypedInit, EvidenceInit, TypeStep, EvidenceStep, PTL DEF Spec

\* No accepted message is lost on the way: as long as the recipient can write
\* its transcript (the other case is the finding of delivery_persist), whatever
\* is retried, refused, disconnected, restarted or late.
THEOREM AcceptedIsNotLost ==
    ASSUME ~PersistFails PROVE Spec => []NoAcceptedMessageLost
<1>1. Evidence => NoAcceptedMessageLost
  BY DEF Evidence, NoAcceptedMessageLost, Kept, Counted
<1> QED BY <1>1, EvidenceHolds, PTL

\* The ticks "delivered" and "read" are true at every moment they are shown.
THEOREM TicksTellTheTruth ==
    ASSUME ~PersistFails PROVE Spec => []TicksAreTruthful
<1>1. Evidence => TicksAreTruthful
  BY DEF Evidence, TicksAreTruthful, Received, Displayed
<1> QED BY <1>1, EvidenceHolds, PTL


----------------------------------------------------------------------------
(* What arrives is what was sent.                                          *)

\* The content of a text or a voice note is "whole" wherever a copy of it is.
Whole(m) ==
    kind[m] # "attachment_offer" =>
        /\ form[m] = "whole" /\ job[m][2] = "whole" /\ blob[m] = "whole"
        /\ <<"inbound", m, "caption">> \notin notify
        /\ <<m, "caption">> \notin rOffers
        /\ got[m] \in {<<>>, <<"whole">>}

\* The kind of a message is known as long as its row may be sent again.
Kinded(m) ==
    /\ tick[m] = "none" => kind[m] = "none"
    /\ tick[m] = "pending" => kind[m] \in Kinds

Content == \A m \in Msg : Whole(m) /\ Kinded(m)


LEMMA ContentOfSender ==
    ASSUME Typed, Content, SenderStep PROVE Content'
<1>0. SenderType /\ ServerType
  BY DEF Typed
<1> USE DEF Whole, Kinded, mailbox, recipient, server, rLink
<1>1. ASSUME NEW m \in Msg, NEW k \in Kinds, Send(m, k) PROVE Content'
  <2>1. kind[m] # "attachment_offer"
    BY <1>1 DEF Send, Content
  <2>2. k # "none"
    BY DeliveryAssumption
  <2> QED BY <1>0, <1>1, <2>1, <2>2 DEF Send, Content, SenderType
<1>2. ASSUME NEW m \in Msg, Retry(m) PROVE Content'
  <2>1. kind[m] \in {"text", "voice", "attachment_offer"}
    BY <1>2, DeliveryAssumption DEF Retry, Content
  <2> QED BY <1>0, <1>2, <2>1 DEF Retry, RetryForm, Content, SenderType
<1>3. ASSUME NEW m \in Msg, RequestUpload(m) PROVE Content'
  BY <1>0, <1>3 DEF RequestUpload, request, Content, ServerType
<1>4. ASSUME NEW m \in Msg, NEW result \in {"ok", "hard"}, Patch(m, result) PROVE Content'
  <2>1. \A k \in Msg : tick'[k] = tick[k] \/ tick'[k] \in {"sent", "failed"}
    BY <1>0, <1>4, OneMark DEF Patch, Marks
  <2> QED BY <1>4, <2>1 DEF Patch, request, Content
<1>5. CASE SenderConnects
  BY <1>5 DEF SenderConnects, sender, Content
<1>6. ASSUME NEW n \in Notice, HandleNotice(n) PROVE Content'
  <2>1. n[1] \in {"delivered", "read", "expired"} /\ n[2] \in Msg
    BY DEF Notice
  <2>2. \A k \in Msg : tick'[k] = tick[k] \/ tick'[k] \in {"failed", "delivered", "read"}
    BY <1>0, <1>6, <2>1, OneMark DEF HandleNotice, Marks
  <2> QED BY <1>6, <2>2 DEF HandleNotice, request, Content
<1> QED BY <1>1, <1>2, <1>3, <1>4, <1>5, <1>6 DEF SenderStep

LEMMA ContentOfServer ==
    ASSUME Typed, Content, ServerStep PROVE Content'
<1>0. TableType /\ ServerType
  BY DEF Typed
<1> USE DEF Whole, Kinded, sender, recipient, sLink, rLink
<1>1. ASSUME NEW m \in Msg, StoreUpload(m) PROVE Content'
  <2>1. \A k \in Msg : job'[k][2] = job[k][2]
    BY <1>0, <1>1 DEF StoreUpload, ServerType
  <2>2. \A k \in Msg : blob'[k] = blob[k] \/ (k = m /\ blob'[k] = job[k][2])
    BY <1>0, <1>1 DEF StoreUpload, TableType
  <2>3. \A k \in Msg : <<"inbound", k, "caption">> \in notify' =>
                       <<"inbound", k, "caption">> \in notify \/ (k = m /\ job[m][2] = "caption")
    BY <1>1 DEF StoreUpload
  <2>4. UNCHANGED <<kind, form, tick, rOffers, got>>
    BY <1>1 DEF StoreUpload
  <2> QED BY <2>1, <2>2, <2>3, <2>4 DEF Content
<1>2. ASSUME NEW m \in Msg, RefuseUpload(m) PROVE Content'
  BY <1>0, <1>2 DEF RefuseUpload, NoJob, request, mailbox, ServerType, Content
<1>3. ASSUME NEW m \in Msg, AnswerUpload(m) PROVE Content'
  BY <1>0, <1>3 DEF AnswerUpload, NoJob, request, mailbox, ServerType, Content
<1>4. ASSUME NEW n \in Push, MakePush(n) PROVE Content'
  <2>1. n[1] = "inbound" => n = <<"inbound", n[2], n[3]>>
    BY DEF Push, Notice, Inbound
  <2>2. \A k \in Msg : <<k, "caption">> \in rOffers' =>
                       <<k, "caption">> \in rOffers \/ <<"inbound", k, "caption">> \in notify
    BY <1>4, <2>1 DEF MakePush
  <2>3. notify' \subseteq notify /\ UNCHANGED <<kind, form, tick, job, blob, got>>
    BY <1>4 DEF MakePush, mailbox
  <2> QED BY <2>2, <2>3 DEF Content
<1>5. CASE ListPending
  BY <1>5 DEF ListPending, server, mailbox, Content
<1>6. ASSUME NEW m \in Msg, ServeAck(m) PROVE Content'
  <2>1. blob' = blob /\ notify' \subseteq notify \cup {<<"delivered", m>>}
    BY <1>6 DEF ServeAck, mailbox
  <2> QED BY <1>6, <2>1 DEF ServeAck, Content
<1>7. ASSUME NEW m \in Msg, ServeRead(m) PROVE Content'
  <2>1. blob' = blob /\ notify' \subseteq notify \cup {<<"read", m>>}
    BY <1>7 DEF ServeRead, mailbox
  <2> QED BY <1>7, <2>1 DEF ServeRead, Content
<1>8. CASE Sweep
  BY <1>8 DEF Sweep, Content
<1>9. CASE ClockTick
  BY <1>9 DEF ClockTick, server, Content
<1> QED BY <1>1, <1>2, <1>3, <1>4, <1>5, <1>6, <1>7, <1>8, <1>9 DEF ServerStep

LEMMA ContentOfRecipient ==
    ASSUME Typed, Content, RecipientStep PROVE Content'
<1>0. RecipientType
  BY DEF Typed
<1> USE DEF Whole, Kinded, mailbox, sender, sLink, server, rLink
<1>1. CASE RecipientConnects
  BY <1>1 DEF RecipientConnects, recipient, Content
<1>2. ASSUME NEW m \in Msg, NEW f \in Forms, HandleInbound(m, f) PROVE Content'
  <2>1. kind[m] # "attachment_offer" => f = "whole"
    BY <1>2 DEF HandleInbound, Content, Forms
  <2>2. \A k \in Msg : got'[k] = got[k] \/ (k = m /\ got'[k] = <<f>>)
    BY <1>0, <1>2 DEF HandleInbound, Appended, RecipientType
  <2> QED BY <1>2, <2>1, <2>2 DEF HandleInbound, Content
<1>3. ASSUME NEW m \in Msg, AckAnswered(m) \/ ReadAnswered(m) \/ ReadBacklog(m) PROVE Content'
  BY <1>3 DEF AckAnswered, ReadAnswered, ReadBacklog, Content
<1>4. CASE OpenRoom
  BY <1>4 DEF OpenRoom, Content
<1>5. CASE CloseRoom
  BY <1>5 DEF CloseRoom, Content
<1> QED BY <1>1, <1>2, <1>3, <1>4, <1>5 DEF RecipientStep

LEMMA ContentOfFault ==
    ASSUME Typed, Content, FaultStep PROVE Content'
<1>0. ServerType
  BY DEF Typed
<1> USE DEF Whole, Kinded, mailbox, sender, request, sLink, rLink, server, recipient, NoJob
<1>1. ASSUME NEW m \in Msg, NEW hard \in BOOLEAN, ConnectFails(m, hard) PROVE Content'
  BY <1>1 DEF ConnectFails, Content
<1>2. ASSUME NEW m \in Msg, UploadLost(m) PROVE Content'
  <2>1. \A k \in Msg : job'[k] = job[k] \/ job'[k][2] = "whole"
    BY <1>0, <1>2 DEF UploadLost, ServerType
  <2> QED BY <1>2, <2>1 DEF UploadLost, Content
<1>3. CASE SenderDrops \/ SenderCrashes
  BY <1>3 DEF SenderDrops, SenderCrashes, Content
<1>4. CASE ServerRestarts
  BY <1>4 DEF ServerRestarts, Content
<1>5. ASSUME NEW crash \in BOOLEAN, RecipientDrops(crash) PROVE Content'
  BY <1>5 DEF RecipientDrops, Content
<1> QED BY <1>1, <1>2, <1>3, <1>4, <1>5 DEF FaultStep

LEMMA ContentStep == Typed /\ Content /\ [Next]_vars => Content'
<1>1. ASSUME Content, UNCHANGED vars PROVE Content'
  BY <1>1 DEF Content, Whole, Kinded, vars, mailbox, sender, sLink, server, rLink, recipient
<1> QED BY <1>1, ContentOfSender, ContentOfServer, ContentOfRecipient, ContentOfFault DEF Next

LEMMA ContentHolds == Spec => [](Typed /\ Content)
<1>1. Init => Content
  BY DEF Init, Content, Whole, Kinded, NoJob
<1> QED BY <1>1, TypedInit, TypeStep, ContentStep, PTL DEF Spec

\* A text or a voice note arrives as it was sent, whatever else is sent along:
\* in one row, and not as the line a retry would show for an attachment (the
\* finding of delivery_attachment).
WholeUnlessFile ==
    \A m \in Msg : kind[m] # "attachment_offer" => got[m] \in {<<>>, <<"whole">>}

THEOREM ContentArrives == Spec => []WholeUnlessFile
<1>1. Content => WholeUnlessFile
  BY DEF Content, Whole, WholeUnlessFile
<1> QED BY <1>1, ContentHolds, PTL

\* Among those who send no files, everything arrives as it was sent.
THEOREM ArrivesWithoutFiles ==
    ASSUME "attachment_offer" \notin Kinds PROVE Spec => []ArrivesAsSent
<1>1. Typed /\ Content => ArrivesAsSent
  BY DEF Typed, SenderType, Content, Whole, ArrivesAsSent
<1> QED BY <1>1, ContentHolds, PTL

----------------------------------------------------------------------------
(* The marks never go back behind a receipt.                               *)

\* Raised leaves a mark or replaces it by a higher one; Failed leaves the
\* receipts alone.
LEMMA RaisedIsHigher ==
    ASSUME SenderType, NEW m \in Msg, NEW k \in Msg, NEW mark \in Marks
    PROVE  /\ MarkRank[Raised(m, mark)[k]] >= MarkRank[tick[k]]
           /\ tick[k] \in {"delivered", "read"} => Failed(m)[k] = tick[k]
<1>1. \A x \in Marks : MarkRank[x] \in Int
  BY DEF MarkRank, Marks
<1>2. MarkRank[Raised(m, mark)[k]] >= MarkRank[tick[k]]
  <2>1. Raised(m, mark)[k] = tick[k] \/ MarkRank[Raised(m, mark)[k]] > MarkRank[tick[k]]
    BY <1>1 DEF SenderType, Raised
  <2>2. Raised(m, mark)[k] \in Marks /\ tick[k] \in Marks
    BY MarkedType DEF SenderType
  <2> QED BY <1>1, <2>1, <2>2
<1> QED BY <1>2 DEF SenderType, Failed

ReceiptsStay ==
    \A m \in Msg : tick[m] \in {"delivered", "read"} => MarkRank[tick'[m]] >= MarkRank[tick[m]]

LEMMA ReceiptsStayStep == Typed /\ [Next]_vars => ReceiptsStay
<1> SUFFICES ASSUME Typed, [Next]_vars PROVE ReceiptsStay
  OBVIOUS
<1>0. SenderType
  BY DEF Typed
<1>1. CASE UNCHANGED tick
  BY <1>0, <1>1 DEF ReceiptsStay, SenderType, MarkRank
<1>2. ASSUME NEW m \in Msg, NEW k \in Kinds, Send(m, k) PROVE ReceiptsStay
  BY <1>0, <1>2 DEF Send, ReceiptsStay, SenderType, MarkRank
<1>3. ASSUME NEW m \in Msg, NEW mark \in Marks, tick' = Raised(m, mark) \/ tick' = Failed(m)
      PROVE  ReceiptsStay
  BY <1>0, <1>3, RaisedIsHigher DEF ReceiptsStay, MarkRank
<1>4. CASE SenderStep
  <2>1. ASSUME NEW m \in Msg, NEW result \in {"ok", "hard"}, Patch(m, result) PROVE ReceiptsStay
    BY <1>3, <2>1 DEF Patch, Marks
  <2>2. ASSUME NEW n \in Notice, HandleNotice(n) PROVE ReceiptsStay
    BY <1>3, <2>2 DEF HandleNotice, Notice, Marks
  <2> QED BY <1>1, <1>2, <1>4, <2>1, <2>2 DEF SenderStep, Retry, RequestUpload, SenderConnects, sender
<1>5. CASE ServerStep
  BY <1>1, <1>5 DEF ServerStep, StoreUpload, RefuseUpload, AnswerUpload, MakePush, ListPending,
        ServeAck, ServeRead, Sweep, ClockTick, sender
<1>6. CASE RecipientStep
  BY <1>1, <1>6 DEF RecipientStep, RecipientConnects, HandleInbound, AckAnswered, ReadAnswered,
        ReadBacklog, OpenRoom, CloseRoom, sender
<1>7. CASE FaultStep
  BY <1>1, <1>7 DEF FaultStep, ConnectFails, UploadLost, SenderDrops, SenderCrashes, ServerRestarts,
        RecipientDrops, sender
<1>8. CASE UNCHANGED vars
  BY <1>1, <1>8 DEF vars, sender
<1> QED BY <1>4, <1>5, <1>6, <1>7, <1>8 DEF Next

\* A late answer to an upload, a second result of a retry and a stale notice of
\* expiry never take a receipt from the sender's transcript.
THEOREM ReceiptsAreKept == Spec => DeliveredStays
<1>1. Spec => []Typed
  BY TypedInit, TypeStep, PTL DEF Spec
<1>2. Typed /\ [Next]_vars => [ReceiptsStay]_vars
  BY ReceiptsStayStep
<1> QED BY <1>1, <1>2, PTL DEF Spec, DeliveredStays, ReceiptsStay


----------------------------------------------------------------------------
(* The server of the system is the mailbox of Mailbox.                     *)

LEMMA MailboxStep == [Next]_vars => [Box!Next]_(Box!vars)
<1> SUFFICES ASSUME [Next]_vars PROVE Box!Next \/ UNCHANGED mailbox
  BY DEF mailbox, Box!vars
<1> USE DEF Box!Next, Box!PeerCall, Box!Size, Box!Ttl
<1>1. CASE SenderStep
  BY <1>1 DEF SenderStep, Send, Retry, RequestUpload, Patch, SenderConnects, HandleNotice
<1>2. CASE ServerStep
  <2>1. ASSUME NEW m \in Msg, StoreUpload(m) PROVE Box!Next
    BY <2>1 DEF StoreUpload
  <2>2. ASSUME NEW m \in Msg, ServeAck(m) \/ ServeRead(m) PROVE Box!Next \/ UNCHANGED mailbox
    BY <2>2 DEF ServeAck, ServeRead
  <2>3. CASE Sweep \/ ClockTick
    BY <2>3 DEF Sweep, ClockTick
  <2> QED BY <1>2, <2>1, <2>2, <2>3
        DEF ServerStep, RefuseUpload, AnswerUpload, MakePush, ListPending
<1>3. CASE RecipientStep
  BY <1>3 DEF RecipientStep, RecipientConnects, HandleInbound, AckAnswered, ReadAnswered,
        ReadBacklog, OpenRoom, CloseRoom
<1>4. CASE FaultStep
  BY <1>4 DEF FaultStep, ConnectFails, UploadLost, SenderDrops, SenderCrashes, ServerRestarts,
        RecipientDrops
<1>5. CASE UNCHANGED vars
  BY <1>5 DEF vars
<1> QED BY <1>1, <1>2, <1>3, <1>4, <1>5 DEF Next

\* Seen from the table, the system does what Mailbox allows and nothing else:
\* what is proved there (quota, one settlement per upload, settled rows) holds
\* with devices, pushes and restarts around it.
THEOREM ServerIsMailbox == Spec => Box!Spec
<1>1. Init => Box!Init
  BY DEF Init
<1> QED BY <1>1, MailboxStep, PTL DEF Spec, Box!Spec


-----------------------------------------------------------------------------
(***************************************************************************)
(* The connections to the server (DeliverySessions).                       *)
(***************************************************************************)

Devices == {Writer, Reader}
Ids == Mail \cup {NoId}

\* The types of the state, but for the bounds of its numbers.
LinesTyped ==
    /\ challenge \in [Devices -> Nat] /\ opNonce \in [Devices -> Nat] /\ issued \in Nat
    /\ line \in [Conn -> {"none", "up", "down"}]
    /\ auth \in [Conn -> BOOLEAN] /\ registry \subseteq Conn
    /\ toServer \in [Conn -> [type : {"none", "open", "auth", "upload", "extend", "list", "ack"},
                              nonce : Nat, id : Ids]]
    /\ at \in [Conn -> {"idle", "opening", "authing", "ready", "asking"}]
    /\ backlog \subseteq Conn /\ queued \subseteq Ids /\ IsFiniteSet(queued)
    /\ rivalled \subseteq Conn /\ refused \subseteq Conn

FramesTyped ==
    /\ pushes \in [Conn -> Seq(Frames)] /\ answers \in [Conn -> Seq(Frames)]
    /\ prefetched \in [Conn -> Seq(Frames)]
    /\ pushed \in [Conn -> Nat] /\ handled \in [Conn -> Nat]
    /\ waited \in [Conn -> Nat]

SessShape == LinesTyped /\ FramesTyped

\* Where a connection is, on both its ends.
Placed(c) ==
    /\ line[c] = "up" <=> at[c] # "idle"
    /\ line[c] # "up" => /\ prefetched[c] = <<>> /\ answers[c] = <<>>
                         /\ handled[c] = 0 /\ pushed[c] = 0
    /\ line[c] = "none" => pushes[c] = <<>> /\ toServer[c].type = "none"

\* What was pushed to a client and is not handled is numbered in a row.
Numbered(c) ==
    line[c] = "up" =>
       /\ pushed[c] = handled[c] + Len(prefetched[c]) + Len(pushes[c])
       /\ \A i \in 1..Len(prefetched[c]) : prefetched[c][i].nonce = handled[c] + i
       /\ \A i \in 1..Len(pushes[c]) : pushes[c][i].nonce = handled[c] + Len(prefetched[c]) + i

\* What a client waits for is asked or answered, and a login is only of a
\* connection that is logging in.
Asked(c) ==
    /\ at[c] = "opening" =>
          \/ toServer[c].type = "open" /\ answers[c] = <<>>
          \/ toServer[c].type = "none" /\ Len(answers[c]) = 1 /\ answers[c][1].type = "challenge"
    /\ at[c] = "authing" =>
          \/ toServer[c].type = "auth" /\ answers[c] = <<>>
          \/ toServer[c].type = "none" /\ Len(answers[c]) = 1 /\ answers[c][1].type \in {"ready", "error"}
    /\ at[c] \in {"ready", "asking"} => toServer[c].type \notin {"open", "auth"}

Steady(c) == Placed(c) /\ Numbered(c) /\ Asked(c)

LEMMA FrameIsFrame ==
    ASSUME NEW t \in {"challenge", "ready", "ok", "error", "inbound", "notice"}, NEW n \in Nat, NEW m \in Ids
    PROVE  Frame(t, n, m) \in Frames
  BY DEF Frame, Frames, Ids

\* A push numbers its frames on from the last one.
LEMMA PushNumbers ==
    ASSUME SessShape, NEW d \in Devices, NEW type \in {"inbound", "notice"}, NEW ids \in Seq(Ids), PushTo(d, type, ids)
    PROVE  /\ pushes' \in [Conn -> Seq(Frames)] /\ pushed' \in [Conn -> Nat]
           /\ \A c \in Conn : line[c] # "up" => pushes'[c] = pushes[c] /\ pushed'[c] = pushed[c]
           /\ \A c \in Conn : line[c] = "up" =>
                 /\ Len(pushes'[c]) >= Len(pushes[c])
                 /\ pushed'[c] = pushed[c] + (Len(pushes'[c]) - Len(pushes[c]))
                 /\ \A i \in 1..Len(pushes[c]) : pushes'[c][i] = pushes[c][i]
                 /\ \A i \in (Len(pushes[c]) + 1)..Len(pushes'[c]) :
                       pushes'[c][i].nonce = pushed[c] + (i - Len(pushes[c]))
<1> DEFINE theirs == {c \in registry : OwnerOf[c] = d /\ line[c] = "up"}
           framesOf(c) == [i \in DOMAIN ids |-> Frame(type, pushed[c] + i, ids[i])]
<1>1. /\ pushes' = [c \in Conn |-> IF c \in theirs THEN pushes[c] \o framesOf(c) ELSE pushes[c]]
      /\ pushed' = [c \in Conn |-> IF c \in theirs THEN pushed[c] + Len(ids) ELSE pushed[c]]
  BY DEF PushTo
<1>2. Len(ids) \in Nat /\ DOMAIN ids = 1..Len(ids) /\ \A i \in 1..Len(ids) : ids[i] \in Ids
  OBVIOUS
<1>3. pushes \in [Conn -> Seq(Frames)] /\ pushed \in [Conn -> Nat]
  BY DEF SessShape, FramesTyped
<1>4. ASSUME NEW c \in Conn
      PROVE  /\ framesOf(c) \in Seq(Frames) /\ Len(framesOf(c)) = Len(ids)
             /\ \A i \in 1..Len(ids) : framesOf(c)[i].nonce = pushed[c] + i
  <2>1. \A i \in 1..Len(ids) : Frame(type, pushed[c] + i, ids[i]) \in Frames
    <3> TAKE i \in 1..Len(ids)
    <3>1. pushed[c] + i \in Nat
      BY <1>2, <1>3
    <3> QED BY <1>2, <3>1, FrameIsFrame
  <2>2. \A i \in 1..Len(ids) : Frame(type, pushed[c] + i, ids[i]).nonce = pushed[c] + i
    BY DEF Frame
  <2>3. framesOf(c) \in [1..Len(ids) -> Frames]
    BY <1>2, <2>1
  <2>4. framesOf(c) \in Seq(Frames) /\ Len(framesOf(c)) = Len(ids)
    <3> HIDE DEF framesOf
    <3> QED BY <1>2, <2>3
  <2> QED BY <1>2, <2>2, <2>4
<1> HIDE DEF framesOf
<1>5. ASSUME NEW c \in Conn
      PROVE  LET q == pushes[c] \o framesOf(c) IN
             /\ q \in Seq(Frames) /\ Len(q) = Len(pushes[c]) + Len(ids)
             /\ \A i \in 1..Len(pushes[c]) : q[i] = pushes[c][i]
             /\ \A i \in (Len(pushes[c]) + 1)..Len(q) : q[i].nonce = pushed[c] + (i - Len(pushes[c]))
  <2> DEFINE f == framesOf(c)
             p == pushes[c]
             q == p \o f
  <2>1. f \in Seq(Frames) /\ p \in Seq(Frames) /\ Len(f) = Len(ids) /\ Len(p) \in Nat
        /\ \A i \in 1..Len(ids) : f[i].nonce = pushed[c] + i
    BY <1>3, <1>4
  <2> HIDE DEF f, p
  <2>2. q \in Seq(Frames) /\ Len(q) = Len(p) + Len(f)
    BY <2>1
  <2>3. \A i \in 1..Len(p) : q[i] = p[i]
    BY <2>1
  <2>4. \A i \in (Len(p) + 1)..Len(q) : q[i] = f[i - Len(p)] /\ i - Len(p) \in 1..Len(ids)
    BY <1>2, <2>1, <2>2
  <2> QED BY <2>1, <2>2, <2>3, <2>4 DEF f, p
<1>6. pushes' \in [Conn -> Seq(Frames)]
  BY <1>1, <1>3, <1>5
<1>7. pushed' \in [Conn -> Nat]
  BY <1>1, <1>2, <1>3
<1>8. ASSUME NEW c \in Conn, line[c] # "up"
      PROVE  pushes'[c] = pushes[c] /\ pushed'[c] = pushed[c]
  BY <1>1, <1>8
<1>9. ASSUME NEW c \in Conn
      PROVE  /\ Len(pushes'[c]) >= Len(pushes[c])
             /\ pushed'[c] = pushed[c] + (Len(pushes'[c]) - Len(pushes[c]))
             /\ \A i \in 1..Len(pushes[c]) : pushes'[c][i] = pushes[c][i]
             /\ \A i \in (Len(pushes[c]) + 1)..Len(pushes'[c]) :
                   pushes'[c][i].nonce = pushed[c] + (i - Len(pushes[c]))
  <2>0. Len(pushes[c]) \in Nat /\ pushed[c] \in Nat
    BY <1>3
  <2>1. CASE c \in theirs
    <3>1. pushes'[c] = pushes[c] \o framesOf(c) /\ pushed'[c] = pushed[c] + Len(ids)
      BY <1>1, <2>1
    <3> QED BY <1>2, <1>5, <2>0, <3>1
  <2>2. CASE c \notin theirs
    <3>1. pushes'[c] = pushes[c] /\ pushed'[c] = pushed[c]
      BY <1>1, <2>2
    <3> QED BY <2>0, <3>1
  <2> QED BY <2>1, <2>2
<1> QED BY <1>6, <1>7, <1>8, <1>9

LEMMA Sums == \A j, k, n \in Nat : j + k + 1 = j + (k + 1) /\ j + k + (n + 1) = j + (k + 1) + n
  OBVIOUS

LEMMA NoFrames == \A q \in Seq(Frames) : Len(q) = 0 => q = <<>>
  OBVIOUS

LEMMA Shifted == \A j, k, m, n \in Nat : j = m + k => j + (n - k) = m + n
  OBVIOUS

LEMMA NumbersGoOn ==
    ASSUME NEW old \in Seq(Frames), NEW new \in Seq(Frames), NEW base \in Nat, NEW top \in Nat,
           top = base + Len(old), Len(new) >= Len(old),
           \A i \in 1..Len(old) : new[i] = old[i] /\ old[i].nonce = base + i,
           \A i \in (Len(old) + 1)..Len(new) : new[i].nonce = top + (i - Len(old))
    PROVE  \A i \in 1..Len(new) : new[i].nonce = base + i
<1> SUFFICES ASSUME NEW i \in 1..Len(new)
             PROVE  new[i].nonce = base + i
  OBVIOUS
<1>1. i \in Nat /\ Len(old) \in Nat /\ Len(new) \in Nat
  OBVIOUS
<1>2. CASE i <= Len(old)
  BY <1>1, <1>2
<1>3. CASE i > Len(old)
  <2>1. i \in (Len(old) + 1)..Len(new)
    BY <1>1, <1>3
  <2>2. new[i].nonce = top + (i - Len(old))
    BY <2>1
  <2> QED BY <1>1, <2>2
<1> QED BY <1>1, <1>2, <1>3

\* A step of the server leaves the clients alone: what is kept and what was
\* handled stays, and pushes only grow.
LEMMA ServerKeepsRows ==
    ASSUME SessShape, \A c \in Conn : Placed(c) /\ Numbered(c),
           UNCHANGED <<line, prefetched, handled>>,
           \/ UNCHANGED <<pushes, pushed>>
           \/ \E d \in Devices, type \in {"inbound", "notice"}, ids \in Seq(Ids) : PushTo(d, type, ids)
    PROVE  /\ pushes' \in [Conn -> Seq(Frames)] /\ pushed' \in [Conn -> Nat]
           /\ \A c \in Conn : Numbered(c)'
           /\ \A c \in Conn : line[c] # "up" => pushes'[c] = pushes[c] /\ pushed'[c] = pushed[c]
<1>1. CASE UNCHANGED <<pushes, pushed>>
  BY <1>1 DEF SessShape, FramesTyped, Numbered
<1>2. ASSUME NEW d \in Devices, NEW type \in {"inbound", "notice"}, NEW ids \in Seq(Ids), PushTo(d, type, ids)
      PROVE  /\ pushes' \in [Conn -> Seq(Frames)] /\ pushed' \in [Conn -> Nat]
             /\ \A c \in Conn : Numbered(c)'
             /\ \A c \in Conn : line[c] # "up" => pushes'[c] = pushes[c] /\ pushed'[c] = pushed[c]
  <2>1. pushes' \in [Conn -> Seq(Frames)] /\ pushed' \in [Conn -> Nat]
    BY <1>2, PushNumbers
  <2>2. \A c \in Conn : line[c] # "up" => pushes'[c] = pushes[c] /\ pushed'[c] = pushed[c]
    BY <1>2, PushNumbers
  <2>3. ASSUME NEW c \in Conn, line[c] = "up"
        PROVE  Numbered(c)'
    <3>1. /\ Len(pushes'[c]) >= Len(pushes[c])
          /\ pushed'[c] = pushed[c] + (Len(pushes'[c]) - Len(pushes[c]))
          /\ \A i \in 1..Len(pushes[c]) : pushes'[c][i] = pushes[c][i]
          /\ \A i \in (Len(pushes[c]) + 1)..Len(pushes'[c]) :
                pushes'[c][i].nonce = pushed[c] + (i - Len(pushes[c]))
      BY <1>2, <2>3, PushNumbers
    <3>2. /\ pushed[c] = handled[c] + Len(prefetched[c]) + Len(pushes[c])
          /\ \A i \in 1..Len(prefetched[c]) : prefetched[c][i].nonce = handled[c] + i
          /\ \A i \in 1..Len(pushes[c]) : pushes[c][i].nonce = handled[c] + Len(prefetched[c]) + i
      BY <2>3 DEF Numbered
    <3>3. /\ Len(pushes[c]) \in Nat /\ Len(pushes'[c]) \in Nat /\ Len(prefetched[c]) \in Nat
          /\ handled[c] \in Nat /\ pushed[c] \in Nat
      BY <2>1 DEF SessShape, FramesTyped
    <3> DEFINE base == handled[c] + Len(prefetched[c])
    <3>4. base \in Nat /\ pushed[c] = base + Len(pushes[c])
      BY <3>2, <3>3
    <3>5. pushes[c] \in Seq(Frames) /\ pushes'[c] \in Seq(Frames)
      BY <2>1 DEF SessShape, FramesTyped
    <3>6. \A i \in 1..Len(pushes[c]) : pushes'[c][i] = pushes[c][i] /\ pushes[c][i].nonce = base + i
      BY <3>1, <3>2
    <3> HIDE DEF base
    <3>7. \A i \in 1..Len(pushes'[c]) : pushes'[c][i].nonce = base + i
      BY <3>1, <3>3, <3>4, <3>5, <3>6, NumbersGoOn
    <3>8. pushed'[c] = base + Len(pushes'[c])
      <4> DEFINE j == pushed[c]
                 k == Len(pushes[c])
                 n == Len(pushes'[c])
      <4>1. pushed'[c] = j + (n - k)
        BY <3>1
      <4>2. j \in Nat /\ k \in Nat /\ n \in Nat
        BY <3>3
      <4>3. base \in Nat /\ j = base + k
        BY <3>4
      <4>4. n = Len(pushes'[c])
        OBVIOUS
      <4> HIDE DEF j, k, n
      <4>5. j + (n - k) = base + n
        BY <4>2, <4>3, Shifted
      <4> QED BY <4>1, <4>4, <4>5
    <3>9. handled'[c] = handled[c] /\ prefetched'[c] = prefetched[c]
      OBVIOUS
    <3> QED BY <3>2, <3>7, <3>8, <3>9 DEF Numbered, base
  <2>4. \A c \in Conn : line[c] # "up" => Numbered(c)'
    BY DEF Numbered
  <2> QED BY <2>1, <2>2, <2>3, <2>4
<1> QED BY <1>1, <1>2

\* A step of the client c leaves the other connections alone.
Others(c) ==
    \A e \in Conn \ {c} :
       /\ line'[e] = line[e] /\ at'[e] = at[e] /\ prefetched'[e] = prefetched[e] /\ answers'[e] = answers[e]
       /\ handled'[e] = handled[e] /\ pushed'[e] = pushed[e] /\ pushes'[e] = pushes[e]
       /\ toServer'[e] = toServer[e]

LEMMA OthersStay ==
    ASSUME NEW c \in Conn, Others(c), NEW e \in Conn \ {c}, Steady(e)
    PROVE  Steady(e)'
  BY DEF Others, Steady, Placed, Numbered, Asked

\* The client hangs up.
LEMMA HungUp ==
    ASSUME SessShape, NEW c \in Conn, Hangup(c), line[c] = "up", UNCHANGED toServer,
           pushes' = pushes \/ pushes' = [pushes EXCEPT ![c] = Tail(@)],
           pushes' \in [Conn -> Seq(Frames)]
    PROVE  Others(c) /\ Steady(c)' /\ FramesTyped' /\ line'[c] = "down"
<1>1. /\ line'[c] = "down" /\ at'[c] = "idle" /\ answers'[c] = <<>> /\ prefetched'[c] = <<>>
      /\ pushed'[c] = 0 /\ handled'[c] = 0
  BY DEF SessShape, LinesTyped, FramesTyped, Hangup
<1>2. Others(c)
  BY DEF SessShape, LinesTyped, FramesTyped, Hangup, Others
<1>3. FramesTyped'
  <2>1. <<>> \in Seq(Frames) /\ 0 \in Nat
    OBVIOUS
  <2> QED BY <2>1 DEF SessShape, FramesTyped, Hangup
<1> QED BY <1>1, <1>2, <1>3 DEF Steady, Placed, Numbered, Asked

ClientAction(c) ==
    \/ Connect(c) \/ ReadChallenge(c) \/ ReadReady(c) \/ ReadOk(c) \/ ReadError(c)
    \/ KeepFrame(c) \/ HandlePush(c) \/ DropAnswer(c) \/ LineBreaks(c)

LEMMA FramesAre ==
    ASSUME FramesTyped, NEW c \in Conn
    PROVE  /\ \A q \in {pushes[c], answers[c], prefetched[c]} : q \in Seq(Frames)
           /\ \A q \in Seq(Frames) : q # <<>> =>
                 /\ Head(q) \in Frames /\ Head(q).nonce \in Nat /\ Head(q).id \in Ids /\ Head(q) = q[1]
                 /\ Tail(q) \in Seq(Frames) /\ Len(q) \in Nat /\ Len(q) > 0 /\ Len(Tail(q)) = Len(q) - 1
                 /\ \A i \in 1..Len(q) - 1 : Tail(q)[i] = q[i + 1]
<1>1. \A q \in {pushes[c], answers[c], prefetched[c]} : q \in Seq(Frames)
  BY DEF FramesTyped
<1>2. ASSUME NEW q \in Seq(Frames), q # <<>>
      PROVE  /\ Head(q) \in Frames /\ Head(q).nonce \in Nat /\ Head(q).id \in Ids /\ Head(q) = q[1]
             /\ Tail(q) \in Seq(Frames) /\ Len(q) \in Nat /\ Len(q) > 0 /\ Len(Tail(q)) = Len(q) - 1
             /\ \A i \in 1..Len(q) - 1 : Tail(q)[i] = q[i + 1]
  <2>1. Head(q) \in Frames /\ Head(q) = q[1]
    BY <1>2
  <2>2. Tail(q) \in Seq(Frames) /\ Len(Tail(q)) = Len(q) - 1 /\ Len(q) \in Nat /\ Len(q) > 0
    BY <1>2
  <2>3. \A i \in 1..Len(q) - 1 : Tail(q)[i] = q[i + 1]
    BY <1>2
  <2> QED BY <2>1, <2>2, <2>3 DEF Frames, Ids
<1> QED BY <1>1, <1>2

LEMMA SendsTyped ==
    ASSUME NEW t \in {"none", "open", "auth", "upload", "extend", "list", "ack"}, NEW n \in Nat, NEW m \in Ids
    PROVE  /\ Frame(t, n, m) \in [type : {"none", "open", "auth", "upload", "extend", "list", "ack"},
                                  nonce : Nat, id : Ids]
           /\ Frame(t, n, m).type = t /\ Frame(t, n, m).nonce = n /\ Frame(t, n, m).id = m
  BY DEF Frame

\* What every step of the client c gives.
ClientGives(c) == LinesTyped' /\ FramesTyped' /\ Others(c) /\ Steady(c)'

LEMMA ConnectSteady ==
    ASSUME SessShape, NEW c \in Conn, Steady(c), Connect(c)
    PROVE  ClientGives(c)
<1>1. Frame("open", 0, NoId) \in [type : {"none", "open", "auth", "upload", "extend", "list", "ack"}, nonce : Nat, id : Ids]
      /\ Frame("open", 0, NoId).type = "open"
  BY SendsTyped DEF Ids
<1>2. LinesTyped' /\ FramesTyped'
  <2>1. rivalled' \subseteq Conn
    BY DEF Connect, SessShape, LinesTyped, Rivals
  <2>2. FramesTyped'
    BY DEF Connect, SessShape, FramesTyped
  <2>3. line' \in [Conn -> {"none", "up", "down"}] /\ at' \in [Conn -> {"idle", "opening", "authing", "ready", "asking"}]
    BY DEF Connect, SessShape, LinesTyped
  <2>4. toServer' \in [Conn -> [type : {"none", "open", "auth", "upload", "extend", "list", "ack"}, nonce : Nat, id : Ids]]
    BY <1>1 DEF Connect, SessShape, LinesTyped
  <2> QED BY <2>1, <2>2, <2>3, <2>4 DEF Connect, SessShape, LinesTyped, storeVars
<1>3. Others(c)
  BY DEF Connect, SessShape, LinesTyped, FramesTyped, Others
<1>4. /\ line'[c] = "up" /\ at'[c] = "opening" /\ toServer'[c].type = "open"
      /\ answers'[c] = <<>> /\ pushes'[c] = <<>> /\ prefetched'[c] = <<>> /\ pushed'[c] = 0 /\ handled'[c] = 0
  BY <1>1 DEF Connect, SessShape, LinesTyped, Steady, Placed
<1>5. Steady(c)'
  BY <1>4 DEF Steady, Placed, Numbered, Asked
<1> QED BY <1>2, <1>3, <1>5 DEF ClientGives

LEMMA ReadChallengeSteady ==
    ASSUME SessShape, NEW c \in Conn, Steady(c), ReadChallenge(c)
    PROVE  ClientGives(c)
<1>1. at[c] = "opening" /\ answers[c] # <<>>
  BY DEF ReadChallenge, Answered, Waits, Wanted
<1>2. Head(answers[c]).nonce \in Nat /\ Tail(answers[c]) \in Seq(Frames) /\ Len(Tail(answers[c])) = Len(answers[c]) - 1
  BY <1>1, FramesAre DEF SessShape
<1> DEFINE sent == Frame("auth", Head(answers[c]).nonce, NoId)
<1>3. sent \in [type : {"none", "open", "auth", "upload", "extend", "list", "ack"}, nonce : Nat, id : Ids]
      /\ sent.type = "auth"
  BY <1>2, SendsTyped DEF Ids
<1>4. /\ answers' = [answers EXCEPT ![c] = Tail(answers[c])] /\ toServer' = [toServer EXCEPT ![c] = sent]
      /\ at' = [at EXCEPT ![c] = "authing"] /\ waited' = [waited EXCEPT ![c] = 0]
      /\ UNCHANGED <<storeVars, line, auth, registry, pushes, prefetched, handled, queued,
                   pushed, rivalled, refused, backlog>>
  BY DEF ReadChallenge, ReadAnswer, Ask
<1> HIDE DEF sent
<1>5. LinesTyped' /\ FramesTyped'
  BY <1>2, <1>3, <1>4 DEF SessShape, LinesTyped, FramesTyped, storeVars
<1>6. Others(c)
  BY <1>4 DEF SessShape, LinesTyped, FramesTyped, Others
<1>7. Tail(answers[c]) = <<>>
  <2>1. Len(answers[c]) = 1
    BY <1>1 DEF Steady, Asked
  <2>2. Len(Tail(answers[c])) = 0
    BY <1>2, <2>1
  <2> QED BY <1>2, <2>2, NoFrames
<1>8. /\ line'[c] = line[c] /\ at'[c] = "authing" /\ toServer'[c].type = "auth" /\ answers'[c] = <<>>
      /\ pushes'[c] = pushes[c] /\ prefetched'[c] = prefetched[c] /\ pushed'[c] = pushed[c] /\ handled'[c] = handled[c]
  BY <1>3, <1>4, <1>7 DEF SessShape, LinesTyped, FramesTyped
<1>9. Steady(c)'
  BY <1>1, <1>8 DEF Steady, Placed, Numbered, Asked
<1> QED BY <1>5, <1>6, <1>9 DEF ClientGives

LEMMA ReadReadySteady ==
    ASSUME SessShape, NEW c \in Conn, Steady(c), ReadReady(c)
    PROVE  ClientGives(c)
<1>1. at[c] = "authing" /\ answers[c] # <<>>
  BY DEF ReadReady, Answered, Waits, Wanted
<1>2. Head(answers[c]).nonce \in Nat /\ Tail(answers[c]) \in Seq(Frames) /\ Len(Tail(answers[c])) = Len(answers[c]) - 1
  BY <1>1, FramesAre DEF SessShape
<1>3. toServer[c].type = "none"
  BY <1>1 DEF Steady, Asked
<1>4. \E sent \in [type : {"none", "open", "auth", "upload", "extend", "list", "ack"}, nonce : Nat, id : Ids],
         next \in {"ready", "asking"} :
         /\ sent.type \notin {"open", "auth"}
         /\ answers' = [answers EXCEPT ![c] = Tail(answers[c])] /\ toServer' = [toServer EXCEPT ![c] = sent]
         /\ at' = [at EXCEPT ![c] = next] /\ waited' = [waited EXCEPT ![c] = 0]
  <2>1. CASE c \in Worker
    <3>1. toServer' = [toServer EXCEPT ![c] = toServer[c]]
      BY <2>1 DEF ReadReady, SessShape, LinesTyped
    <3> QED BY <1>3, <2>1, <3>1 DEF ReadReady, ReadAnswer, SessShape, LinesTyped
  <2>2. CASE c \notin Worker
    <3>1. PICK t \in {"upload", "extend", "list"}, m \in Mail :
             Ask(c, Frame(t, IF t = "list" THEN 0 ELSE Head(answers[c]).nonce, m), "asking")
      BY <2>2 DEF ReadReady
    <3> DEFINE sent == Frame(t, IF t = "list" THEN 0 ELSE Head(answers[c]).nonce, m)
    <3>2. (IF t = "list" THEN 0 ELSE Head(answers[c]).nonce) \in Nat /\ m \in Ids
      BY <1>2 DEF Ids
    <3>3. sent \in [type : {"none", "open", "auth", "upload", "extend", "list", "ack"}, nonce : Nat, id : Ids]
          /\ sent.type = t
      BY <3>2, SendsTyped
    <3>4. toServer' = [toServer EXCEPT ![c] = sent] /\ at' = [at EXCEPT ![c] = "asking"] /\ waited' = [waited EXCEPT ![c] = 0]
      BY <3>1 DEF Ask
    <3> HIDE DEF sent
    <3> QED BY <3>3, <3>4 DEF ReadReady, ReadAnswer
  <2> QED BY <2>1, <2>2
<1>5. PICK sent \in [type : {"none", "open", "auth", "upload", "extend", "list", "ack"}, nonce : Nat, id : Ids],
           next \in {"ready", "asking"} :
         /\ sent.type \notin {"open", "auth"}
         /\ answers' = [answers EXCEPT ![c] = Tail(answers[c])] /\ toServer' = [toServer EXCEPT ![c] = sent]
         /\ at' = [at EXCEPT ![c] = next] /\ waited' = [waited EXCEPT ![c] = 0]
  BY <1>4
<1>6. UNCHANGED <<storeVars, line, auth, registry, pushes, prefetched, handled, queued,
                  pushed, rivalled, refused, backlog>>
  BY DEF ReadReady
<1>7. LinesTyped' /\ FramesTyped'
  BY <1>2, <1>5, <1>6 DEF SessShape, LinesTyped, FramesTyped, storeVars
<1>8. Others(c)
  BY <1>5, <1>6 DEF SessShape, LinesTyped, FramesTyped, Others
<1>9. /\ line'[c] = line[c] /\ at'[c] = next /\ toServer'[c] = sent
      /\ pushes'[c] = pushes[c] /\ prefetched'[c] = prefetched[c] /\ pushed'[c] = pushed[c] /\ handled'[c] = handled[c]
  BY <1>5, <1>6 DEF SessShape, LinesTyped, FramesTyped
<1>10. line[c] = "up" /\ next # "idle" /\ next \notin {"opening", "authing"}
  BY <1>1 DEF Steady, Placed
<1>11. Placed(c)' /\ Numbered(c)'
  BY <1>9, <1>10 DEF Steady, Placed, Numbered
<1>12. Asked(c)'
  BY <1>5, <1>9, <1>10 DEF Asked
<1> QED BY <1>7, <1>8, <1>11, <1>12 DEF ClientGives, Steady

LEMMA GivenUpSteady ==
    ASSUME SessShape, NEW c \in Conn, Steady(c), Hangup(c), line[c] = "up",
           pushes' = pushes \/ pushes' = [pushes EXCEPT ![c] = Tail(@)], pushes' \in [Conn -> Seq(Frames)],
           UNCHANGED <<storeVars, auth, registry, toServer, queued, backlog>>
    PROVE  ClientGives(c)
<1>1. Others(c) /\ Steady(c)' /\ FramesTyped'
  BY HungUp
<1>2. LinesTyped'
  BY DEF Hangup, SessShape, LinesTyped, storeVars
<1> QED BY <1>1, <1>2 DEF ClientGives

LEMMA AnswerEndsSteady ==
    ASSUME SessShape, NEW c \in Conn, Steady(c), ReadOk(c) \/ ReadError(c)
    PROVE  ClientGives(c)
<1>1. at[c] # "idle" /\ answers[c] # <<>> /\ line[c] = "up"
  BY DEF ReadOk, ReadError, Answered, Waits, Steady, Placed
<1>2. UNCHANGED <<storeVars, auth, registry, pushes, toServer, queued, backlog>>
  BY DEF ReadOk, ReadError
<1>3. CASE Hangup(c)
  <2>1. pushes' \in [Conn -> Seq(Frames)]
    BY <1>2 DEF SessShape, FramesTyped
  <2> QED BY <1>1, <1>2, <1>3, <2>1, GivenUpSteady
<1>4. CASE /\ at[c] \notin {"opening", "authing"} /\ ReadAnswer(c) /\ at' = [at EXCEPT ![c] = "ready"]
           /\ UNCHANGED <<line, prefetched, waited, handled, pushed, rivalled, refused>>
  <2>1. Tail(answers[c]) \in Seq(Frames)
    BY <1>1, FramesAre DEF SessShape
  <2>2. LinesTyped' /\ FramesTyped'
    BY <1>2, <1>4, <2>1 DEF SessShape, LinesTyped, FramesTyped, ReadAnswer, storeVars
  <2>3. Others(c)
    BY <1>2, <1>4 DEF SessShape, LinesTyped, FramesTyped, Others, ReadAnswer
  <2>4. /\ line'[c] = "up" /\ at'[c] = "ready" /\ toServer'[c] = toServer[c]
        /\ pushes'[c] = pushes[c] /\ prefetched'[c] = prefetched[c] /\ pushed'[c] = pushed[c] /\ handled'[c] = handled[c]
    BY <1>1, <1>2, <1>4 DEF SessShape, LinesTyped
  <2>5. toServer[c].type \notin {"open", "auth"}
    BY <1>1, <1>4 DEF Steady, Asked, SessShape, LinesTyped
  <2>6. Steady(c)'
    BY <1>1, <2>4, <2>5 DEF Steady, Placed, Numbered, Asked
  <2> QED BY <2>2, <2>3, <2>6 DEF ClientGives
<1>5. at[c] \in {"opening", "authing", "asking"}
  BY DEF ReadOk, ReadError, Answered, Waits
<1>6. ReadOk(c) => at[c] \notin {"opening", "authing"}
  BY DEF ReadOk, Wanted
<1> QED BY <1>3, <1>4, <1>5, <1>6 DEF ReadOk, ReadError

LEMMA KeepFrameSteady ==
    ASSUME SessShape, NEW c \in Conn, Steady(c), KeepFrame(c)
    PROVE  ClientGives(c)
<1>1. at[c] # "idle" /\ pushes[c] # <<>> /\ line[c] = "up" /\ pushes' = [pushes EXCEPT ![c] = Tail(pushes[c])]
  BY DEF KeepFrame, Waits, Steady, Placed
<1>2. UNCHANGED <<storeVars, auth, registry, toServer, queued, backlog>>
  BY DEF KeepFrame
<1>3. /\ Head(pushes[c]) \in Frames /\ Head(pushes[c]) = pushes[c][1] /\ Tail(pushes[c]) \in Seq(Frames)
      /\ Len(pushes[c]) \in Nat /\ Len(pushes[c]) > 0 /\ Len(Tail(pushes[c])) = Len(pushes[c]) - 1
      /\ \A i \in 1..Len(pushes[c]) - 1 : Tail(pushes[c])[i] = pushes[c][i + 1]
      /\ prefetched[c] \in Seq(Frames)
  BY <1>1, FramesAre DEF SessShape
<1>4. pushes' \in [Conn -> Seq(Frames)]
  BY <1>1, <1>3 DEF SessShape, FramesTyped
<1>5. CASE Hangup(c)
  BY <1>1, <1>2, <1>4, <1>5, GivenUpSteady
<1>6. ASSUME NEW next \in {at[c], "ready"}, next # at[c] => at[c] = "asking",
             prefetched' = [prefetched EXCEPT ![c] = Append(prefetched[c], Head(pushes[c]))],
             at' = [at EXCEPT ![c] = next], waited' = [waited EXCEPT ![c] = @ + 1],
             UNCHANGED <<line, answers, handled, pushed, rivalled, refused>>
      PROVE  ClientGives(c)
  <2> DEFINE kept == Append(prefetched[c], Head(pushes[c]))
  <2>1. /\ kept \in Seq(Frames) /\ Len(kept) = Len(prefetched[c]) + 1 /\ Len(prefetched[c]) \in Nat
        /\ \A i \in 1..Len(prefetched[c]) : kept[i] = prefetched[c][i]
        /\ kept[Len(prefetched[c]) + 1] = Head(pushes[c])
    BY <1>3
  <2> HIDE DEF kept
  <2>2. prefetched' = [prefetched EXCEPT ![c] = kept]
    BY <1>6 DEF kept
  <2>3. FramesTyped'
    BY <1>4, <1>6, <2>1, <2>2 DEF SessShape, FramesTyped
  <2>4. LinesTyped'
    BY <1>2, <1>6 DEF SessShape, LinesTyped, storeVars
  <2>5. Others(c)
    BY <1>1, <1>2, <1>6 DEF SessShape, LinesTyped, FramesTyped, Others
  <2>6. /\ line'[c] = "up" /\ at'[c] = next /\ toServer'[c] = toServer[c] /\ answers'[c] = answers[c]
        /\ pushes'[c] = Tail(pushes[c]) /\ prefetched'[c] = kept /\ pushed'[c] = pushed[c] /\ handled'[c] = handled[c]
        /\ next # "idle"
    BY <1>1, <1>2, <1>6, <2>2 DEF SessShape, LinesTyped, FramesTyped
  <2>7. Asked(c)'
    BY <1>6, <2>6 DEF Steady, Asked
  <2>8. Placed(c)'
    BY <2>6 DEF Placed
  <2>9. /\ pushed[c] = handled[c] + Len(prefetched[c]) + Len(pushes[c])
        /\ \A i \in 1..Len(prefetched[c]) : prefetched[c][i].nonce = handled[c] + i
        /\ \A i \in 1..Len(pushes[c]) : pushes[c][i].nonce = handled[c] + Len(prefetched[c]) + i
        /\ pushed[c] \in Nat /\ handled[c] \in Nat
    BY <1>1 DEF Steady, Numbered, SessShape, FramesTyped
  <2>10. \A i \in 1..Len(kept) : kept[i].nonce = handled[c] + i
    <3> TAKE i \in 1..Len(kept)
    <3>1. CASE i \in 1..Len(prefetched[c])
      BY <2>1, <2>9, <3>1
    <3>2. CASE i = Len(prefetched[c]) + 1
      <4>1. pushes[c][1].nonce = handled[c] + Len(prefetched[c]) + 1
        BY <1>3, <2>9
      <4>2. kept[i] = pushes[c][1]
        BY <1>3, <2>1, <3>2
      <4>3. handled[c] \in Nat /\ Len(prefetched[c]) \in Nat
        BY <2>1, <2>9
      <4> QED BY <3>2, <4>1, <4>2, <4>3, Sums
    <3> QED BY <2>1, <3>1, <3>2
  <2>11. \A i \in 1..Len(Tail(pushes[c])) : Tail(pushes[c])[i].nonce = handled[c] + Len(kept) + i
    <3> TAKE i \in 1..Len(Tail(pushes[c]))
    <3>1. i + 1 \in 1..Len(pushes[c]) /\ i \in 1..Len(pushes[c]) - 1
      BY <1>3
    <3>2. pushes[c][i + 1].nonce = handled[c] + Len(prefetched[c]) + (i + 1)
      BY <2>9, <3>1
    <3>3. Tail(pushes[c])[i] = pushes[c][i + 1]
      BY <1>3, <3>1
    <3>4. handled[c] \in Nat /\ Len(prefetched[c]) \in Nat /\ i \in Nat /\ Len(kept) = Len(prefetched[c]) + 1
      BY <2>1, <2>9
    <3>5. handled[c] + Len(prefetched[c]) + (i + 1) = handled[c] + Len(kept) + i
      BY <3>4, Sums
    <3> QED BY <3>2, <3>3, <3>5
  <2>12. pushed[c] = handled[c] + Len(kept) + Len(Tail(pushes[c]))
    BY <1>3, <2>1, <2>9
  <2>13. Numbered(c)'
    BY <2>6, <2>10, <2>11, <2>12 DEF Numbered
  <2> QED BY <2>3, <2>4, <2>5, <2>7, <2>8, <2>13 DEF ClientGives, Steady
<1>7. \/ Hangup(c)
      \/ \E next \in {at[c], "ready"} :
            /\ next # at[c] => at[c] = "asking"
            /\ prefetched' = [prefetched EXCEPT ![c] = Append(prefetched[c], Head(pushes[c]))]
            /\ at' = [at EXCEPT ![c] = next] /\ waited' = [waited EXCEPT ![c] = @ + 1]
            /\ UNCHANGED <<line, answers, handled, pushed, rivalled, refused>>
  BY DEF KeepFrame
<1> QED BY <1>5, <1>6, <1>7

LEMMA DropAnswerSteady ==
    ASSUME SessShape, NEW c \in Conn, Steady(c), DropAnswer(c)
    PROVE  ClientGives(c)
<1>1. at[c] = "ready" /\ Tail(answers[c]) \in Seq(Frames)
  BY FramesAre DEF DropAnswer, SessShape
<1>2. answers' = [answers EXCEPT ![c] = Tail(answers[c])]
      /\ UNCHANGED <<storeVars, line, auth, registry, pushes, toServer, clientVars, queued,
                     pushed, rivalled, refused, backlog>>
  BY DEF DropAnswer, ReadAnswer
<1>3. LinesTyped' /\ FramesTyped'
  BY <1>1, <1>2 DEF SessShape, LinesTyped, FramesTyped, storeVars, clientVars
<1>4. Others(c)
  BY <1>2 DEF SessShape, FramesTyped, Others, clientVars
<1>5. line[c] = "up"
  BY <1>1 DEF Steady, Placed
<1>6. Steady(c)'
  BY <1>1, <1>2, <1>5 DEF Steady, Placed, Numbered, Asked, clientVars
<1> QED BY <1>3, <1>4, <1>6 DEF ClientGives

LEMMA LineBreaksSteady ==
    ASSUME SessShape, NEW c \in Conn, Steady(c), LineBreaks(c)
    PROVE  ClientGives(c)
<1>1. pushes' \in [Conn -> Seq(Frames)] /\ line[c] = "up" /\ Hangup(c)
      /\ UNCHANGED <<storeVars, auth, registry, pushes, toServer, queued, backlog>>
  BY DEF LineBreaks, SessShape, FramesTyped
<1> QED BY <1>1, GivenUpSteady

\* The next frame is the next number, and what is left goes on from it.
LEMMA NextInOrder ==
    ASSUME SessShape, NEW c \in Conn, Steady(c), line[c] = "up", prefetched[c] \o pushes[c] # <<>>
    PROVE  LET next == NextPush(c)
               f    == next[1]
           IN  /\ f \in Frames /\ f.nonce = handled[c] + 1
               /\ next[2] \in Seq(Frames) /\ next[3] \in Seq(Frames)
               /\ pushed[c] = f.nonce + Len(next[3]) + Len(next[2])
               /\ \A i \in 1..Len(next[3]) : next[3][i].nonce = f.nonce + i
               /\ \A i \in 1..Len(next[2]) : next[2][i].nonce = f.nonce + Len(next[3]) + i
<1> DEFINE p == prefetched[c]
           q == pushes[c]
           h == handled[c]
<1>1. /\ p \in Seq(Frames) /\ q \in Seq(Frames) /\ h \in Nat /\ Len(p) \in Nat /\ Len(q) \in Nat
      /\ pushed[c] = h + Len(p) + Len(q)
      /\ \A i \in 1..Len(p) : p[i].nonce = h + i
      /\ \A i \in 1..Len(q) : q[i].nonce = h + Len(p) + i
  <2>1. p \in Seq(Frames) /\ q \in Seq(Frames) /\ h \in Nat
    BY DEF SessShape, FramesTyped
  <2>2. /\ pushed[c] = h + Len(p) + Len(q)
        /\ \A i \in 1..Len(p) : p[i].nonce = h + i
        /\ \A i \in 1..Len(q) : q[i].nonce = h + Len(p) + i
    BY DEF Steady, Numbered
  <2> HIDE DEF p, q, h
  <2>3. Len(p) \in Nat /\ Len(q) \in Nat
    BY <2>1
  <2> QED BY <2>1, <2>2, <2>3
<1>2. NextPush(c) = IF p # <<>> THEN <<Head(p), q, Tail(p)>> ELSE <<Head(q), Tail(q), p>>
  BY DEF NextPush
<1>3. p # <<>> \/ q # <<>>
  OBVIOUS
<1>4. \A s \in {p, q} : s # <<>> =>
         /\ Head(s) \in Frames /\ Head(s) = s[1] /\ Tail(s) \in Seq(Frames)
         /\ Len(s) > 0 /\ Len(Tail(s)) = Len(s) - 1
         /\ \A i \in 1..Len(s) - 1 : Tail(s)[i] = s[i + 1]
  BY FramesAre DEF SessShape
<1> HIDE DEF p, q, h
<1>5. CASE p # <<>>
  <2>1. NextPush(c)[1] = Head(p) /\ NextPush(c)[2] = q /\ NextPush(c)[3] = Tail(p)
    BY <1>2, <1>5
  <2>2. Head(p) \in Frames /\ Head(p).nonce = h + 1 /\ Tail(p) \in Seq(Frames) /\ Len(Tail(p)) = Len(p) - 1 /\ Len(p) > 0
    BY <1>1, <1>4, <1>5
  <2>3. \A i \in 1..Len(Tail(p)) : Tail(p)[i].nonce = h + 1 + i
    <3> TAKE i \in 1..Len(Tail(p))
    <3>1. i \in Nat /\ i \in 1..Len(p) - 1 /\ i + 1 \in 1..Len(p)
      BY <1>1, <2>2
    <3>2. Tail(p)[i].nonce = h + (i + 1)
      BY <1>1, <1>4, <1>5, <3>1
    <3> QED BY <1>1, <3>1, <3>2
  <2>4. h + 1 + Len(Tail(p)) = h + Len(p)
    BY <1>1, <2>2
  <2>5. pushed[c] = h + 1 + Len(Tail(p)) + Len(q)
    BY <1>1, <2>4
  <2>6. \A i \in 1..Len(q) : q[i].nonce = h + 1 + Len(Tail(p)) + i
    BY <1>1, <2>4
  <2> QED BY <1>1, <2>1, <2>2, <2>3, <2>5, <2>6 DEF h
<1>6. CASE p = <<>>
  <2>0. q # <<>> /\ Len(p) = 0
    BY <1>3, <1>6
  <2>1. NextPush(c)[1] = Head(q) /\ NextPush(c)[2] = Tail(q) /\ NextPush(c)[3] = p
    BY <1>2, <1>6
  <2>2. Head(q) \in Frames /\ Tail(q) \in Seq(Frames) /\ Len(Tail(q)) = Len(q) - 1 /\ Len(q) > 0 /\ Head(q) = q[1]
    BY <1>4, <2>0
  <2>3. q[1].nonce = h + Len(p) + 1
    BY <1>1, <2>2
  <2>4. Head(q).nonce = h + 1
    BY <1>1, <2>0, <2>2, <2>3
  <2>5. \A i \in 1..Len(Tail(q)) : Tail(q)[i].nonce = h + 1 + Len(p) + i
    <3> TAKE i \in 1..Len(Tail(q))
    <3>1. i \in Nat /\ i \in 1..Len(q) - 1 /\ i + 1 \in 1..Len(q)
      BY <1>1, <2>2
    <3>2. Tail(q)[i].nonce = h + Len(p) + (i + 1)
      BY <1>1, <1>4, <2>0, <3>1
    <3> QED BY <1>1, <2>0, <3>1, <3>2
  <2>6. pushed[c] = h + 1 + Len(p) + Len(Tail(q))
    BY <1>1, <2>0, <2>2
  <2>7. \A i \in 1..Len(p) : p[i].nonce = h + 1 + i
    BY <2>0
  <2> QED BY <1>1, <2>1, <2>2, <2>4, <2>5, <2>6, <2>7 DEF h
<1> QED BY <1>5, <1>6

LEMMA HandlePushSteady ==
    ASSUME SessShape, NEW c \in Conn, Steady(c), HandlePush(c)
    PROVE  ClientGives(c) /\ handled' = [handled EXCEPT ![c] = handled[c] + 1]
<1>1. at[c] = "ready" /\ line[c] = "up" /\ prefetched[c] \o pushes[c] # <<>> /\ toServer[c].type = "none"
  BY DEF HandlePush, Steady, Placed, Silent, Frame
<1> DEFINE f    == NextPush(c)[1]
           rest == NextPush(c)[2]
           kept == NextPush(c)[3]
<1>2. /\ f \in Frames /\ f.nonce = handled[c] + 1 /\ rest \in Seq(Frames) /\ kept \in Seq(Frames)
      /\ pushed[c] = f.nonce + Len(kept) + Len(rest)
      /\ \A i \in 1..Len(kept) : kept[i].nonce = f.nonce + i
      /\ \A i \in 1..Len(rest) : rest[i].nonce = f.nonce + Len(kept) + i
  BY <1>1, NextInOrder
<1>3. /\ pushes' = [pushes EXCEPT ![c] = rest] /\ prefetched' = [prefetched EXCEPT ![c] = kept]
      /\ handled' = [handled EXCEPT ![c] = f.nonce]
      /\ IF f.type = "inbound" THEN Ask(c, Frame("ack", 0, f.id), "asking") ELSE UNCHANGED <<toServer, at, waited>>
      /\ UNCHANGED <<storeVars, line, auth, registry, answers, queued, pushed, rivalled, refused, backlog>>
  BY DEF HandlePush
<1> HIDE DEF f, rest, kept
<1>4. f.id \in Ids /\ f.nonce \in Nat
  BY <1>2 DEF Frames, Ids
<1>5. \E sent \in [type : {"none", "open", "auth", "upload", "extend", "list", "ack"}, nonce : Nat, id : Ids],
         next \in {"ready", "asking"} :
         /\ sent.type \notin {"open", "auth"} /\ toServer' = [toServer EXCEPT ![c] = sent]
         /\ at' = [at EXCEPT ![c] = next] /\ waited' \in [Conn -> Nat]
  <2>1. CASE f.type = "inbound"
    <3>1. Frame("ack", 0, f.id) \in [type : {"none", "open", "auth", "upload", "extend", "list", "ack"}, nonce : Nat, id : Ids]
          /\ Frame("ack", 0, f.id).type = "ack"
      BY <1>4, SendsTyped
    <3>2. /\ toServer' = [toServer EXCEPT ![c] = Frame("ack", 0, f.id)] /\ at' = [at EXCEPT ![c] = "asking"]
          /\ waited' = [waited EXCEPT ![c] = 0]
      BY <1>3, <2>1 DEF Ask
    <3>3. waited' \in [Conn -> Nat]
      BY <3>2 DEF SessShape, FramesTyped
    <3> QED BY <3>1, <3>2, <3>3
  <2>2. CASE f.type # "inbound"
    <3>1. toServer' = [toServer EXCEPT ![c] = toServer[c]] /\ at' = [at EXCEPT ![c] = "ready"]
      BY <1>1, <1>3, <2>2 DEF SessShape, LinesTyped
    <3> QED BY <1>1, <1>3, <2>2, <3>1 DEF SessShape, LinesTyped, FramesTyped
  <2> QED BY <2>1, <2>2
<1>6. PICK sent \in [type : {"none", "open", "auth", "upload", "extend", "list", "ack"}, nonce : Nat, id : Ids],
           next \in {"ready", "asking"} :
         /\ sent.type \notin {"open", "auth"} /\ toServer' = [toServer EXCEPT ![c] = sent]
         /\ at' = [at EXCEPT ![c] = next] /\ waited' \in [Conn -> Nat]
  BY <1>5
<1>7. LinesTyped' /\ FramesTyped'
  BY <1>2, <1>3, <1>4, <1>6 DEF SessShape, LinesTyped, FramesTyped, storeVars
<1>8. Others(c)
  BY <1>3, <1>6 DEF SessShape, LinesTyped, FramesTyped, Others
<1>9. /\ line'[c] = "up" /\ at'[c] = next /\ toServer'[c] = sent /\ pushes'[c] = rest /\ prefetched'[c] = kept
      /\ pushed'[c] = pushed[c] /\ handled'[c] = f.nonce
  BY <1>1, <1>3, <1>6 DEF SessShape, LinesTyped, FramesTyped
<1>10. Placed(c)' /\ Asked(c)'
  BY <1>6, <1>9 DEF Placed, Asked
<1>11. Numbered(c)'
  BY <1>2, <1>9 DEF Numbered
<1> QED BY <1>2, <1>3, <1>7, <1>8, <1>10, <1>11 DEF ClientGives, Steady

\* A step of the server for the connection c.
ServerAction(c) ==
    \/ ServeOpen(c) \/ RefuseAuth(c) \/ ServeAuth(c) \/ DeliverPending(c)
    \/ RefuseOp(c) \/ ServeUpload(c) \/ ServeExtend(c) \/ ServeList(c) \/ ServeInboxAck(c)

Pushing ==
    \/ UNCHANGED <<pushes, pushed>>
    \/ \E d \in Devices, type \in {"inbound", "notice"}, ids \in Seq(Ids) : PushTo(d, type, ids)

\* No frame is read; the frame of a client that is gone is read; one is read
\* and answered.
Silently == UNCHANGED <<toServer, answers>>

Unheard(c) ==
    /\ line[c] # "none" /\ line[c] # "up"
    /\ toServer' = [toServer EXCEPT ![c] = Silent] /\ answers' = answers

Replied(c, f) ==
    /\ line[c] = "up" /\ toServer[c].type # "none"
    /\ toServer' = [toServer EXCEPT ![c] = Silent]
    /\ answers' = [answers EXCEPT ![c] = Append(answers[c], f)]
    /\ toServer[c].type = "open" => f.type = "challenge"
    /\ toServer[c].type = "auth" => f.type \in {"ready", "error"}

\* What the steps of the server have in common: one frame is taken and at most
\* one answered, and pushes only grow.
ServerGives(c) ==
    /\ UNCHANGED <<line, clientVars>> /\ Pushing
    /\ Silently \/ Unheard(c) \/ \E f \in Frames : Replied(c, f)
    /\ challenge' \in [Devices -> Nat] /\ opNonce' \in [Devices -> Nat] /\ issued' \in Nat
    /\ auth' \in [Conn -> BOOLEAN] /\ registry' \subseteq Conn
    /\ backlog' \subseteq Conn /\ queued' \subseteq Ids /\ IsFiniteSet(queued')
    /\ rivalled' \subseteq Conn /\ refused' \subseteq Conn

LEMMA ServerSteady ==
    ASSUME SessShape, \A e \in Conn : Steady(e), NEW c \in Conn, ServerGives(c)
    PROVE  SessShape' /\ \A e \in Conn : Steady(e)'
<1>1. /\ pushes' \in [Conn -> Seq(Frames)] /\ pushed' \in [Conn -> Nat]
      /\ \A e \in Conn : Numbered(e)'
      /\ \A e \in Conn : line[e] # "up" => pushes'[e] = pushes[e] /\ pushed'[e] = pushed[e]
  <2>1. UNCHANGED <<line, prefetched, handled>> /\ Pushing
    BY DEF ServerGives, clientVars
  <2> QED BY <2>1, ServerKeepsRows DEF Steady, Pushing
<1>2. Silent \in [type : {"none", "open", "auth", "upload", "extend", "list", "ack"}, nonce : Nat, id : Ids] /\ Silent.type = "none"
  BY SendsTyped DEF Silent, Ids
<1>3. toServer' \in [Conn -> [type : {"none", "open", "auth", "upload", "extend", "list", "ack"}, nonce : Nat, id : Ids]]
  BY <1>2 DEF ServerGives, Silently, Unheard, Replied, SessShape, LinesTyped
<1>4. answers' \in [Conn -> Seq(Frames)]
  <2>1. \A f \in Frames : Append(answers[c], f) \in Seq(Frames)
    BY DEF SessShape, FramesTyped
  <2>2. answers \in [Conn -> Seq(Frames)]
    BY DEF SessShape, FramesTyped
  <2>3. answers' = answers \/ \E f \in Frames : answers' = [answers EXCEPT ![c] = Append(answers[c], f)]
    BY DEF ServerGives, Silently, Unheard, Replied
  <2> QED BY <2>1, <2>2, <2>3
<1>5. SessShape'
  <2>1. LinesTyped'
    BY <1>3 DEF ServerGives, SessShape, LinesTyped, clientVars
  <2>2. FramesTyped'
    BY <1>1, <1>4 DEF ServerGives, SessShape, FramesTyped, clientVars
  <2> QED BY <2>1, <2>2 DEF SessShape
<1>6. ASSUME NEW e \in Conn
      PROVE  Placed(e)' /\ Asked(e)'
  <2>0. answers \in [Conn -> Seq(Frames)] /\ toServer = [x \in Conn |-> toServer[x]]
    BY DEF SessShape, LinesTyped, FramesTyped
  <2>1. line'[e] = line[e] /\ at'[e] = at[e] /\ prefetched'[e] = prefetched[e] /\ handled'[e] = handled[e]
    BY DEF ServerGives, clientVars
  <2>2. ASSUME line[e] # "up" => answers'[e] = answers[e], line[e] = "none" => toServer'[e] = toServer[e]
        PROVE  Placed(e)'
    <3>1. line[e] # "up" => pushes'[e] = pushes[e] /\ pushed'[e] = pushed[e]
      BY <1>1
    <3> QED BY <2>1, <2>2, <3>1 DEF Steady, Placed
  <2>3. CASE toServer'[e] = toServer[e] /\ answers'[e] = answers[e]
    <3>1. Asked(e)'
      BY <2>1, <2>3 DEF Steady, Asked
    <3> QED BY <2>2, <2>3, <3>1
  <2>4. CASE e = c /\ line[c] # "up" /\ line[c] # "none" /\ toServer'[c].type = "none" /\ answers'[c] = answers[c]
    <3>1. Asked(e)'
      BY <2>1, <2>4 DEF Steady, Placed, Asked
    <3> QED BY <2>2, <2>4, <3>1
  <2>5. ASSUME NEW f \in Frames, e = c, line[c] = "up", toServer'[c].type = "none", toServer[c].type # "none",
               answers'[c] = Append(answers[c], f),
               toServer[c].type = "open" => f.type = "challenge",
               toServer[c].type = "auth" => f.type \in {"ready", "error"}
        PROVE  Placed(e)' /\ Asked(e)'
    <3>1. Placed(e)'
      BY <2>2, <2>5
    <3>2. answers[c] = <<>> => Len(answers'[c]) = 1 /\ answers'[c][1] = f
      BY <2>0, <2>5
    <3>3. Asked(e)'
      BY <2>1, <2>5, <3>2 DEF Steady, Asked
    <3> QED BY <3>1, <3>3
  <2>6. Silently \/ Unheard(c) \/ \E f \in Frames : Replied(c, f)
    BY DEF ServerGives
  <2>7. CASE Silently
    BY <2>3, <2>7 DEF Silently
  <2>8. CASE Unheard(c)
    <3>1. CASE e = c
      <4>1. toServer'[c].type = "none"
        BY <1>2, <2>0, <2>8 DEF Unheard
      <4> QED BY <2>4, <2>8, <3>1, <4>1 DEF Unheard
    <3>2. CASE e # c
      <4>1. toServer'[e] = toServer[e]
        BY <2>0, <2>8, <3>2 DEF Unheard
      <4> QED BY <2>3, <2>8, <4>1 DEF Unheard
    <3> QED BY <3>1, <3>2
  <2>9. ASSUME NEW f \in Frames, Replied(c, f)
        PROVE  Placed(e)' /\ Asked(e)'
    <3>1. CASE e = c
      <4>1. toServer'[c].type = "none" /\ answers'[c] = Append(answers[c], f)
        BY <1>2, <2>0, <2>9 DEF Replied
      <4> QED BY <2>5, <2>9, <3>1, <4>1 DEF Replied
    <3>2. CASE e # c
      <4>1. toServer'[e] = toServer[e] /\ answers'[e] = answers[e]
        BY <2>0, <2>9, <3>2 DEF Replied
      <4> QED BY <2>3, <4>1
    <3> QED BY <3>1, <3>2
  <2> QED BY <2>6, <2>7, <2>8, <2>9
<1> QED BY <1>1, <1>5, <1>6 DEF Steady

\* Each answer is to what the client asked.
LEMMA Answering ==
    ASSUME SessShape, NEW c \in Conn, NEW t \in {"open", "auth", "upload", "extend", "list", "ack"},
           Listens(c), toServer[c].type = t, Taken(c), NEW f \in Frames, Answer(c, f),
           t = "open" => f.type = "challenge", t = "auth" => f.type \in {"ready", "error"}
    PROVE  Unheard(c) \/ \E g \in Frames : Replied(c, g)
<1>1. toServer' = [toServer EXCEPT ![c] = Silent] /\ line[c] # "none" /\ toServer[c].type # "none"
  BY DEF Taken, Listens
<1>2. CASE line[c] = "up"
  <2>1. answers' = [answers EXCEPT ![c] = Append(answers[c], f)]
    BY <1>2 DEF Answer
  <2>2. Replied(c, f)
    BY <1>1, <1>2, <2>1 DEF Replied
  <2> QED BY <2>2
<1>3. CASE line[c] # "up"
  <2>1. answers' = answers
    BY <1>3 DEF Answer, SessShape, FramesTyped
  <2> QED BY <1>1, <1>3, <2>1 DEF Unheard
<1> QED BY <1>2, <1>3

LEMMA NoncesTyped ==
    ASSUME LinesTyped, NEW d \in Devices
    PROVE  /\ Purged(challenge) \in [Devices -> Nat] /\ Purged(opNonce) \in [Devices -> Nat]
           /\ \A store \in [Devices -> Nat] : Issued(store, d) \in [Devices -> Nat] /\ [store EXCEPT ![d] = 0] \in [Devices -> Nat]
           /\ issued + 1 \in Nat
<1>1. challenge \in [Devices -> Nat] /\ opNonce \in [Devices -> Nat] /\ issued \in Nat
  BY DEF LinesTyped
<1>2. \A store \in [Devices -> Nat] : Purged(store) \in [Devices -> Nat]
  BY DEF Purged
<1>3. issued + 1 \in Nat
  BY <1>1
<1>4. \A store \in [Devices -> Nat] : Issued(store, d) \in [Devices -> Nat] /\ [store EXCEPT ![d] = 0] \in [Devices -> Nat]
  BY <1>3 DEF Issued
<1> QED BY <1>1, <1>2, <1>3, <1>4

LEMMA OwnerIsDevice == \A c \in Conn : OwnerOf[c] \in Devices
  BY DeliverySessionsAssumption DEF Devices

LEMMA LoginServed ==
    ASSUME SessShape, NEW c \in Conn, ServeOpen(c) \/ RefuseAuth(c) \/ ServeAuth(c)
    PROVE  ServerGives(c)
<1>1. OwnerOf[c] \in Devices /\ LinesTyped /\ NoId \in Ids
  BY OwnerIsDevice DEF SessShape, Ids
<1>2. /\ Purged(challenge) \in [Devices -> Nat] /\ Purged(opNonce) \in [Devices -> Nat] /\ issued + 1 \in Nat
      /\ \A store \in [Devices -> Nat] : Issued(store, OwnerOf[c]) \in [Devices -> Nat]
                                         /\ [store EXCEPT ![OwnerOf[c]] = 0] \in [Devices -> Nat]
  BY <1>1, NoncesTyped
<1>3. ASSUME ServeOpen(c)
      PROVE  ServerGives(c)
  <2>1. Frame("challenge", issued + 1, NoId) \in Frames /\ Frame("challenge", issued + 1, NoId).type = "challenge"
    BY <1>1, <1>2, FrameIsFrame DEF Frame
  <2>2. Unheard(c) \/ \E g \in Frames : Replied(c, g)
    BY <1>3, <2>1, Answering DEF ServeOpen
  <2>3. challenge' \in [Devices -> Nat] /\ opNonce' \in [Devices -> Nat] /\ issued' \in Nat
    BY <1>2, <1>3 DEF ServeOpen
  <2>4. auth' \in [Conn -> BOOLEAN]
    BY <1>1, <1>3 DEF ServeOpen, LinesTyped
  <2>5. UNCHANGED <<line, clientVars>> /\ Pushing
    BY <1>3 DEF ServeOpen, NoPush, Pushing
  <2> QED BY <1>1, <1>3, <2>2, <2>3, <2>4, <2>5 DEF ServeOpen, ServerGives, LinesTyped
<1>4. ASSUME RefuseAuth(c)
      PROVE  ServerGives(c)
  <2>1. Frame("error", 0, NoId) \in Frames /\ Frame("error", 0, NoId).type = "error"
    BY <1>1, FrameIsFrame DEF Frame
  <2>2. Unheard(c) \/ \E g \in Frames : Replied(c, g)
    BY <1>4, <2>1, Answering DEF RefuseAuth
  <2>3. challenge' \in [Devices -> Nat] /\ opNonce' \in [Devices -> Nat] /\ issued' \in Nat
    BY <1>1, <1>2, <1>4 DEF RefuseAuth, LinesTyped
  <2>4. refused' \subseteq Conn
    BY <1>1, <1>4 DEF RefuseAuth, LinesTyped
  <2>5. UNCHANGED <<line, clientVars>> /\ Pushing
    BY <1>4 DEF RefuseAuth, NoPush, Pushing
  <2> QED BY <1>1, <1>4, <2>2, <2>3, <2>4, <2>5 DEF RefuseAuth, ServerGives, LinesTyped
<1>5. ASSUME ServeAuth(c)
      PROVE  ServerGives(c)
  <2>1. Frame("ready", issued + 1, NoId) \in Frames /\ Frame("ready", issued + 1, NoId).type = "ready"
    BY <1>1, <1>2, FrameIsFrame DEF Frame
  <2>2. Unheard(c) \/ \E g \in Frames : Replied(c, g)
    BY <1>5, <2>1, Answering DEF ServeAuth
  <2>3. challenge' \in [Devices -> Nat] /\ opNonce' \in [Devices -> Nat] /\ issued' \in Nat
    BY <1>1, <1>2, <1>5 DEF ServeAuth, Ready, LinesTyped
  <2>4. auth' \in [Conn -> BOOLEAN] /\ registry' \subseteq Conn
    BY <1>1, <1>5 DEF ServeAuth, Ready, LinesTyped
  <2>5. rivalled' \subseteq Conn /\ backlog' \subseteq Conn
    BY <1>1, <1>5 DEF ServeAuth, Overtakes, Rivals, LinesTyped
  <2>6. UNCHANGED <<line, clientVars>> /\ Pushing
    BY <1>5 DEF ServeAuth, NoPush, Pushing
  <2> QED BY <1>1, <1>5, <2>2, <2>3, <2>4, <2>5, <2>6 DEF ServeAuth, ServerGives, LinesTyped
<1> QED BY <1>3, <1>4, <1>5

LEMMA PendingServed ==
    ASSUME SessShape, NEW c \in Conn, DeliverPending(c)
    PROVE  ServerGives(c)
<1> DEFINE mine == IF OwnerOf[c] = Reader THEN queued ELSE {}
<1>1. LinesTyped /\ queued \subseteq Ids /\ IsFiniteSet(queued) /\ OwnerOf[c] \in Devices
  BY OwnerIsDevice DEF SessShape, LinesTyped
<1>2. mine \subseteq Ids /\ IsFiniteSet(mine)
  BY <1>1, FS_EmptySet
<1>3. PICK s \in [1..Cardinality(mine) -> mine] : PushTo(OwnerOf[c], "inbound", s)
  BY DEF DeliverPending
<1> HIDE DEF mine
<1>4. Cardinality(mine) \in Nat
  BY <1>2, FS_CardinalityType
<1>5. s \in Seq(Ids)
  <2>1. s \in [1..Cardinality(mine) -> Ids]
    BY <1>2
  <2> QED BY <1>4, <2>1
<1>6. Pushing
  BY <1>1, <1>3, <1>5 DEF Pushing
<1>7. UNCHANGED <<line, clientVars, storeVars, toServer, answers, auth, registry, queued, rivalled, refused>> /\ backlog' \subseteq Conn
  BY <1>1 DEF DeliverPending, LinesTyped
<1> QED BY <1>1, <1>6, <1>7 DEF ServerGives, LinesTyped, storeVars, Silently

LEMMA RequestServed ==
    ASSUME SessShape, NEW c \in Conn, RefuseOp(c) \/ ServeUpload(c) \/ ServeExtend(c) \/ ServeList(c) \/ ServeInboxAck(c)
    PROVE  ServerGives(c)
<1>1. OwnerOf[c] \in Devices /\ LinesTyped /\ NoId \in Ids /\ Reader \in Devices /\ Writer \in Devices
  BY OwnerIsDevice DEF SessShape, Ids, Devices
<1>2. /\ issued + 1 \in Nat
      /\ \A store \in [Devices -> Nat] : Issued(store, OwnerOf[c]) \in [Devices -> Nat]
  BY <1>1, NoncesTyped
<1>3. /\ \A t \in {"ok", "error"}, n \in Nat : Frame(t, n, NoId) \in Frames /\ Frame(t, n, NoId).type = t
  BY <1>1, FrameIsFrame DEF Frame
<1>4. toServer[c].id \in Ids
  BY <1>1 DEF LinesTyped
<1>5. <<toServer[c].id>> \in Seq(Ids)
  BY <1>4
<1>6. ASSUME RefuseOp(c)
      PROVE  ServerGives(c)
  <2>1. Unheard(c) \/ \E g \in Frames : Replied(c, g)
    BY <1>3, <1>6, Answering DEF RefuseOp
  <2>2. opNonce' \in [Devices -> Nat] /\ refused' \subseteq Conn
    BY <1>1, <1>6 DEF RefuseOp, LinesTyped
  <2>3. UNCHANGED <<line, clientVars>> /\ Pushing
    BY <1>6 DEF RefuseOp, NoPush, Pushing
  <2> QED BY <1>1, <1>6, <2>1, <2>2, <2>3 DEF RefuseOp, ServerGives, LinesTyped
<1>7. UsesNonce(c) => /\ opNonce' \in [Devices -> Nat] /\ issued' \in Nat /\ rivalled' \subseteq Conn
  BY <1>1, <1>2 DEF UsesNonce, Overtakes, Rivals, LinesTyped
<1>8. ASSUME ServeUpload(c)
      PROVE  ServerGives(c)
  <2>1. Unheard(c) \/ \E g \in Frames : Replied(c, g)
    BY <1>2, <1>3, <1>8, Answering DEF ServeUpload
  <2>2. queued' \subseteq Ids /\ IsFiniteSet(queued')
    BY <1>1, <1>4, <1>8, FS_AddElement DEF ServeUpload, LinesTyped
  <2>3. UNCHANGED <<line, clientVars>> /\ Pushing
    BY <1>1, <1>5, <1>8 DEF ServeUpload, Pushing
  <2> QED BY <1>1, <1>7, <1>8, <2>1, <2>2, <2>3 DEF ServeUpload, ServerGives, LinesTyped
<1>9. ASSUME ServeExtend(c)
      PROVE  ServerGives(c)
  <2>1. \E f \in Frames : Answer(c, f)
    BY <1>2, <1>3, <1>9 DEF ServeExtend
  <2>2. Unheard(c) \/ \E g \in Frames : Replied(c, g)
    BY <1>9, <2>1, Answering DEF ServeExtend
  <2>3. UNCHANGED <<line, clientVars>> /\ Pushing
    BY <1>9 DEF ServeExtend, NoPush, Pushing
  <2> QED BY <1>1, <1>7, <1>9, <2>2, <2>3 DEF ServeExtend, ServerGives, LinesTyped
<1>10. ASSUME ServeList(c)
       PROVE  ServerGives(c)
  <2>1. \E f \in Frames : Answer(c, f)
    BY <1>3, <1>10 DEF ServeList
  <2>2. Unheard(c) \/ \E g \in Frames : Replied(c, g)
    BY <1>10, <2>1, Answering DEF ServeList
  <2>3. UNCHANGED <<line, clientVars>> /\ Pushing
    BY <1>10 DEF ServeList, NoPush, Pushing
  <2> QED BY <1>1, <1>10, <2>2, <2>3 DEF ServeList, ServerGives, LinesTyped, storeVars
<1>11. ASSUME ServeInboxAck(c)
       PROVE  ServerGives(c)
  <2>1. \E f \in Frames : Answer(c, f)
    BY <1>3, <1>11 DEF ServeInboxAck
  <2>2. Unheard(c) \/ \E g \in Frames : Replied(c, g)
    BY <1>11, <2>1, Answering DEF ServeInboxAck
  <2>3. Pushing
    BY <1>1, <1>5, <1>11 DEF ServeInboxAck, NoPush, Pushing
  <2>4. queued' \subseteq Ids /\ IsFiniteSet(queued')
    BY <1>1, <1>11, FS_RemoveElement DEF ServeInboxAck, LinesTyped
  <2>5. UNCHANGED <<line, clientVars>>
    BY <1>11 DEF ServeInboxAck
  <2> QED BY <1>1, <1>11, <2>2, <2>3, <2>4, <2>5 DEF ServeInboxAck, ServerGives, LinesTyped, storeVars
<1> QED BY <1>6, <1>8, <1>9, <1>10, <1>11

LEMMA SocketEndsSteady ==
    ASSUME SessShape, NEW c \in Conn, Steady(c), SocketEnds(c)
    PROVE  ClientGives(c)
<1>1. Silent \in [type : {"none", "open", "auth", "upload", "extend", "list", "ack"}, nonce : Nat, id : Ids] /\ Silent.type = "none"
  BY SendsTyped DEF Silent, Ids
<1>2. LinesTyped'
  BY <1>1 DEF SocketEnds, Taken, Unregister, SessShape, LinesTyped, storeVars, clientVars
<1>3. FramesTyped'
  BY DEF SocketEnds, SessShape, FramesTyped, clientVars
<1>4. Others(c)
  BY DEF SocketEnds, Taken, SessShape, LinesTyped, FramesTyped, Others, clientVars
<1>5. /\ line'[c] = "none" /\ at'[c] = at[c] /\ toServer'[c].type = "none" /\ pushes'[c] = <<>>
      /\ prefetched'[c] = prefetched[c] /\ answers'[c] = answers[c] /\ handled'[c] = handled[c] /\ pushed'[c] = pushed[c]
      /\ line[c] = "down"
  BY <1>1 DEF SocketEnds, Taken, SessShape, LinesTyped, FramesTyped, clientVars
<1>6. Steady(c)'
  BY <1>5 DEF Steady, Placed, Numbered, Asked
<1> QED BY <1>2, <1>3, <1>4, <1>6 DEF ClientGives

\* Every step is one of a client, of the server, or the time of a nonce passing.
LEMMA StepIs ==
    ASSUME SessionsNext
    PROVE  \E c \in Conn : ClientAction(c) \/ ServerAction(c) \/ SocketEnds(c) \/ NonceExpires(c)
  BY DEF SessionsNext, ClientAction, ServerAction

LEMMA ClientSteady ==
    ASSUME SessShape, NEW c \in Conn, Steady(c), ClientAction(c)
    PROVE  ClientGives(c)
  BY ConnectSteady, ReadChallengeSteady, ReadReadySteady, AnswerEndsSteady, KeepFrameSteady,
     HandlePushSteady, DropAnswerSteady, LineBreaksSteady DEF ClientAction

LEMMA ServerServes ==
    ASSUME SessShape, NEW c \in Conn, ServerAction(c)
    PROVE  ServerGives(c)
  BY LoginServed, PendingServed, RequestServed DEF ServerAction

ConnsSteady == SessShape /\ \A c \in Conn : Steady(c)

LEMMA StepsSteady ==
    ASSUME ConnsSteady, SessionsNext
    PROVE  ConnsSteady'
<1>1. PICK c \in Conn : ClientAction(c) \/ ServerAction(c) \/ SocketEnds(c) \/ NonceExpires(c)
  BY StepIs
<1>2. CASE ClientGives(c)
  <2>1. \A e \in Conn \ {c} : Steady(e)'
    BY <1>2, OthersStay DEF ConnsSteady, ClientGives
  <2> QED BY <1>2, <2>1 DEF ConnsSteady, ClientGives, SessShape
<1>3. CASE ServerAction(c)
  BY <1>3, ServerServes, ServerSteady DEF ConnsSteady
<1>4. CASE NonceExpires(c)
  <2>1. UNCHANGED <<challenge, opNonce, issued, socketVars, clientVars, queued, pushed, rivalled, refused, backlog>>
    BY <1>4 DEF NonceExpires
  <2>2. SessShape'
    BY <2>1 DEF ConnsSteady, SessShape, LinesTyped, FramesTyped, socketVars, clientVars
  <2>3. \A e \in Conn : Steady(e)'
    BY <2>1 DEF ConnsSteady, Steady, Placed, Numbered, Asked, socketVars, clientVars
  <2> QED BY <2>2, <2>3 DEF ConnsSteady
<1>5. ClientAction(c) \/ SocketEnds(c) => ClientGives(c)
  BY ClientSteady, SocketEndsSteady DEF ConnsSteady
<1> QED BY <1>1, <1>2, <1>3, <1>4, <1>5

LEMMA StartSteady == SessionsInit => ConnsSteady
<1> SUFFICES ASSUME SessionsInit PROVE ConnsSteady
  OBVIOUS
<1>1. Silent \in [type : {"none", "open", "auth", "upload", "extend", "list", "ack"}, nonce : Nat, id : Ids] /\ Silent.type = "none"
  BY SendsTyped DEF Silent, Ids
<1>2. IsFiniteSet({}) /\ <<>> \in Seq(Frames)
  BY FS_EmptySet
<1>3. LinesTyped
  BY <1>1, <1>2 DEF SessionsInit, LinesTyped, Devices
<1>4. FramesTyped
  BY <1>2 DEF SessionsInit, FramesTyped
<1>5. \A c \in Conn : Steady(c)
  BY <1>1 DEF SessionsInit, Steady, Placed, Numbered, Asked
<1> QED BY <1>3, <1>4, <1>5 DEF ConnsSteady, SessShape

LEMMA AlwaysSteady == SessionsSpec => []ConnsSteady
<1>1. ConnsSteady /\ [SessionsNext]_sessionVars => ConnsSteady'
  <2> SUFFICES ASSUME ConnsSteady, [SessionsNext]_sessionVars
               PROVE  ConnsSteady'
    OBVIOUS
  <2>1. CASE SessionsNext
    BY <2>1, StepsSteady
  <2>2. CASE UNCHANGED sessionVars
    <3>1. SessShape'
      BY <2>2 DEF sessionVars, storeVars, socketVars, clientVars, ConnsSteady, SessShape, LinesTyped, FramesTyped
    <3>2. \A e \in Conn : Steady(e)'
      BY <2>2 DEF sessionVars, storeVars, socketVars, clientVars, ConnsSteady, Steady, Placed, Numbered, Asked
    <3> QED BY <3>1, <3>2 DEF ConnsSteady
  <2> QED BY <2>1, <2>2
<1> QED BY <1>1, StartSteady, PTL DEF SessionsSpec

(* Each session hands its pushes on in the order in which the server sent  *)
(* them, none left out and none twice, whatever the client waited for when *)
(* they came (recv_until_type, recv_push).                                 *)
THEOREM PushesComeInOrder == SessionsSpec => PushesInOrder
<1>1. ASSUME ConnsSteady, SessionsNext
      PROVE  \A c \in Conn : handled'[c] \in {handled[c], handled[c] + 1, 0}
  <2>0. handled \in [Conn -> Nat] /\ SessShape /\ \A e \in Conn : Steady(e)
    BY <1>1 DEF ConnsSteady, SessShape, FramesTyped
  <2>1. PICK c \in Conn : ClientAction(c) \/ ServerAction(c) \/ SocketEnds(c) \/ NonceExpires(c)
    BY <1>1, StepIs
  <2>2. CASE handled' = handled
    BY <2>2
  <2>3. CASE Hangup(c)
    <3>1. handled' = [handled EXCEPT ![c] = 0]
      BY <2>3 DEF Hangup
    <3> QED BY <2>0, <3>1
  <2>4. CASE HandlePush(c)
    <3>1. handled' = [handled EXCEPT ![c] = handled[c] + 1]
      BY <2>0, <2>4, HandlePushSteady
    <3> QED BY <2>0, <3>1
  <2>5. ServerAction(c) => handled' = handled
    <3> SUFFICES ASSUME ServerAction(c) PROVE handled' = handled
      OBVIOUS
    <3>1. ServerGives(c)
      BY <2>0, ServerServes
    <3> QED BY <3>1 DEF ServerGives, clientVars
  <2>6. ClientAction(c) => handled' = handled \/ Hangup(c) \/ HandlePush(c)
    BY DEF ClientAction, Connect, ReadChallenge, ReadReady, ReadOk, ReadError, KeepFrame, DropAnswer, LineBreaks, clientVars
  <2>7. SocketEnds(c) \/ NonceExpires(c) => handled' = handled
    BY DEF SocketEnds, NonceExpires, clientVars
  <2> QED BY <2>1, <2>2, <2>3, <2>4, <2>5, <2>6, <2>7
<1>2. ConnsSteady /\ [SessionsNext]_sessionVars
         => [\A c \in Conn : handled'[c] \in {handled[c], handled[c] + 1, 0}]_sessionVars
  BY <1>1
<1> QED BY <1>2, AlwaysSteady, PTL DEF SessionsSpec, PushesInOrder

(***************************************************************************)
(* Who is turned down.  A connection that no other of its identity got in  *)
(* the way of holds the nonce the server expects of it; two that log in at *)
(* once are both marked.                                                   *)
(***************************************************************************)
Expected(c) ==
    LET d == OwnerOf[c] IN
    /\ at[c] = "opening" /\ toServer[c].type = "none" =>
          challenge[d] = answers[c][1].nonce /\ challenge[d] # 0
    /\ toServer[c].type = "auth" => challenge[d] = toServer[c].nonce /\ challenge[d] # 0
    /\ at[c] = "authing" /\ toServer[c].type = "none" /\ answers[c][1].type = "ready" /\ c \notin Worker =>
          auth[c] /\ opNonce[d] = answers[c][1].nonce /\ opNonce[d] # 0
    /\ toServer[c].type \in {"upload", "extend"} =>
          auth[c] /\ opNonce[d] = toServer[c].nonce /\ opNonce[d] # 0

RivalsKnown ==
    \A c, d \in Conn :
       c # d /\ OwnerOf[c] = OwnerOf[d] /\ LoggingIn(c) /\ LoggingIn(d) /\ line[c] = "up" => c \in rivalled

NoncesKnown ==
    over = {} =>
       /\ refused \subseteq rivalled
       /\ \A c \in Conn : line[c] = "up" /\ c \notin rivalled => Expected(c)

\* No connection begins a login and no mark goes while a line is up.
LEMMA RivalsStay ==
    ASSUME RivalsKnown, \A e \in Conn : LoggingIn(e)' => LoggingIn(e),
           \A e \in Conn : line'[e] = "up" => line[e] = "up" /\ (e \in rivalled => e \in rivalled')
    PROVE  RivalsKnown'
<1> SUFFICES ASSUME NEW c \in Conn, NEW d \in Conn, c # d, OwnerOf[c] = OwnerOf[d],
                    LoggingIn(c)', LoggingIn(d)', line'[c] = "up"
             PROVE  c \in rivalled'
  BY DEF RivalsKnown
<1>1. LoggingIn(c) /\ LoggingIn(d) /\ line[c] = "up"
  OBVIOUS
<1> QED BY <1>1 DEF RivalsKnown

\* A step of the client c that does not connect.
LEMMA ClientRivals ==
    ASSUME SessShape, NEW c \in Conn, Steady(c), RivalsKnown, Others(c), line'[c] # "none",
           \/ UNCHANGED rivalled /\ line'[c] = "up" /\ line[c] = "up"
              /\ (at'[c] \in {"opening", "authing"} => at[c] \in {"opening", "authing"})
           \/ rivalled' = rivalled \ {c} /\ line'[c] = "down" /\ line[c] = "up" /\ at'[c] = "idle" /\ toServer'[c] = toServer[c]
    PROVE  RivalsKnown'
<1>1. \A e \in Conn : LoggingIn(e)' => LoggingIn(e)
  <2> SUFFICES ASSUME NEW e \in Conn, LoggingIn(e)'
               PROVE  LoggingIn(e)
    OBVIOUS
  <2>1. CASE e # c
    BY <2>1 DEF LoggingIn, Others
  <2>2. CASE e = c
    BY <2>2 DEF LoggingIn, Steady, Asked, Placed, SessShape, LinesTyped
  <2> QED BY <2>1, <2>2
<1>2. \A e \in Conn : line'[e] = "up" => line[e] = "up" /\ (e \in rivalled => e \in rivalled')
  BY DEF Others
<1> QED BY <1>1, <1>2, RivalsStay

LEMMA ConnectRivals ==
    ASSUME SessShape, NEW c \in Conn, Steady(c), RivalsKnown, Connect(c)
    PROVE  RivalsKnown'
<1>1. Others(c) /\ line'[c] = "up"
  BY DEF Connect, SessShape, LinesTyped, FramesTyped, Others
<1> DEFINE rivals == {d \in Rivals(c) : LoggingIn(d)}
<1>2. rivalled' = IF rivals = {} THEN rivalled ELSE rivalled \cup {d \in rivals : line[d] = "up"} \cup {c}
  BY DEF Connect
<1>3. ASSUME NEW e \in Conn \ {c}
      PROVE  (LoggingIn(e)' <=> LoggingIn(e)) /\ line'[e] = line[e]
  BY <1>1 DEF LoggingIn, Others
<1> SUFFICES ASSUME NEW e \in Conn, NEW d \in Conn, e # d, OwnerOf[e] = OwnerOf[d],
                    LoggingIn(e)', LoggingIn(d)', line'[e] = "up"
             PROVE  e \in rivalled'
  BY DEF RivalsKnown
<1>4. CASE e = c
  <2>1. d \in rivals
    BY <1>3, <1>4 DEF Rivals
  <2> QED BY <1>2, <1>4, <2>1
<1>5. CASE d = c
  <2>1. e \in rivals /\ line[e] = "up"
    BY <1>3, <1>5 DEF Rivals
  <2> QED BY <1>2, <2>1
<1>6. CASE e # c /\ d # c
  <2>1. LoggingIn(e) /\ LoggingIn(d) /\ line[e] = "up"
    BY <1>3, <1>6
  <2>2. e \in rivalled
    BY <2>1 DEF RivalsKnown
  <2> QED BY <1>2, <2>2
<1> QED BY <1>4, <1>5, <1>6

\* The nonces of the others stay as they are.
LEMMA OthersExpected ==
    ASSUME SessShape, NEW c \in Conn, Others(c), UNCHANGED <<challenge, opNonce, over>>,
           \A e \in Conn \ {c} : auth'[e] = auth[e] /\ (e \in rivalled => e \in rivalled'),
           NoncesKnown, refused' \subseteq refused, refused' # refused => c \notin refused',
           over = {} /\ line'[c] = "up" /\ c \notin rivalled' => Expected(c)',
           c \in refused' => (c \in rivalled => c \in rivalled')
    PROVE  NoncesKnown'
<1> SUFFICES ASSUME over = {}
             PROVE  /\ refused' \subseteq rivalled'
                    /\ \A e \in Conn : line'[e] = "up" /\ e \notin rivalled' => Expected(e)'
  BY DEF NoncesKnown
<1>1. refused' \subseteq rivalled'
  <2> SUFFICES ASSUME NEW e \in refused' PROVE e \in rivalled'
    OBVIOUS
  <2>1. e \in rivalled /\ e \in Conn
    BY DEF NoncesKnown, SessShape, LinesTyped
  <2> QED BY <2>1
<1>2. ASSUME NEW e \in Conn \ {c}, line'[e] = "up", e \notin rivalled'
      PROVE  Expected(e)'
  <2>1. Expected(e)
    BY <1>2 DEF NoncesKnown, Others
  <2> QED BY <2>1 DEF Expected, Others
<1> QED BY <1>1, <1>2

LEMMA ClientWatched ==
    ASSUME SessShape, NEW c \in Conn, Steady(c), RivalsKnown, NoncesKnown, ClientAction(c)
    PROVE  RivalsKnown' /\ NoncesKnown'
<1>0. ClientGives(c)
  BY ClientSteady
<1>1. UNCHANGED <<challenge, opNonce, over, auth>> /\ Others(c)
  BY <1>0 DEF ClientAction, Connect, ReadChallenge, ReadReady, ReadOk, ReadError, KeepFrame, HandlePush,
              DropAnswer, LineBreaks, storeVars, ClientGives
<1>2. CASE Hangup(c) /\ line[c] = "up" /\ toServer' = toServer
  <2>1. line'[c] = "down" /\ at'[c] = "idle" /\ rivalled' = rivalled \ {c} /\ refused' = refused \ {c}
    BY <1>2 DEF Hangup, SessShape, LinesTyped
  <2>2. RivalsKnown'
    BY <1>1, <1>2, <2>1, ClientRivals
  <2>3. NoncesKnown'
    BY <1>1, <2>1, OthersExpected
  <2> QED BY <2>2, <2>3
<1>3. ASSUME Connect(c)
      PROVE  RivalsKnown' /\ NoncesKnown'
  <2>1. RivalsKnown'
    BY <1>3, ConnectRivals
  <2>2. toServer'[c].type = "open" /\ at'[c] = "opening"
    BY <1>3 DEF Connect, SessShape, LinesTyped, Frame
  <2>3. rivalled \subseteq rivalled' /\ refused' = refused
    BY <1>3 DEF Connect
  <2>4. Expected(c)'
    BY <2>2 DEF Expected
  <2>5. NoncesKnown'
    BY <1>1, <2>3, <2>4, OthersExpected
  <2> QED BY <2>1, <2>5
<1>4. ASSUME line[c] = "up", line' = line, rivalled' = rivalled, refused' = refused,
             at'[c] \in {"opening", "authing"} => at[c] \in {"opening", "authing"},
             over = {} /\ c \notin rivalled /\ Expected(c) => Expected(c)'
      PROVE  RivalsKnown' /\ NoncesKnown'
  <2>1. RivalsKnown'
    BY <1>1, <1>4, ClientRivals
  <2>2. over = {} /\ line'[c] = "up" /\ c \notin rivalled' => Expected(c)'
    BY <1>4 DEF NoncesKnown
  <2>3. NoncesKnown'
    BY <1>1, <1>4, <2>2, OthersExpected
  <2> QED BY <2>1, <2>3
<1>5. ASSUME ReadChallenge(c)
      PROVE  RivalsKnown' /\ NoncesKnown'
  <2>1. at[c] = "opening" /\ answers[c] # <<>> /\ line[c] = "up" /\ answers[c] \in Seq(Frames)
    BY <1>5 DEF ReadChallenge, Answered, Waits, Wanted, Steady, Placed, SessShape, FramesTyped
  <2>2. toServer[c].type = "none" /\ Head(answers[c]) = answers[c][1]
    BY <2>1 DEF Steady, Asked
  <2>3. /\ toServer'[c].type = "auth" /\ toServer'[c].nonce = answers[c][1].nonce /\ at'[c] = "authing"
        /\ UNCHANGED <<line, rivalled, refused>>
    BY <1>5, <2>2 DEF ReadChallenge, Ask, Frame, SessShape, LinesTyped
  <2>4. Expected(c) => Expected(c)'
    BY <1>1, <2>1, <2>2, <2>3 DEF Expected
  <2> QED BY <1>4, <2>1, <2>3, <2>4
<1>6. ASSUME ReadReady(c)
      PROVE  RivalsKnown' /\ NoncesKnown'
  <2>1. at[c] = "authing" /\ answers[c] # <<>> /\ line[c] = "up" /\ answers[c] \in Seq(Frames) /\ Head(answers[c]).type = "ready"
    BY <1>6 DEF ReadReady, Answered, Waits, Wanted, Steady, Placed, SessShape, FramesTyped
  <2>2. toServer[c].type = "none" /\ Head(answers[c]) = answers[c][1]
    BY <2>1 DEF Steady, Asked
  <2>3. UNCHANGED <<line, rivalled, refused>>
    BY <1>6 DEF ReadReady
  <2>4. CASE c \in Worker
    <3>1. at'[c] = "ready" /\ toServer'[c] = toServer[c]
      BY <1>6, <2>4 DEF ReadReady, SessShape, LinesTyped
    <3>2. Expected(c)'
      BY <2>2, <3>1 DEF Expected
    <3> QED BY <1>4, <2>1, <2>3, <3>1, <3>2
  <2>5. CASE c \notin Worker
    <3>1. PICK t \in {"upload", "extend", "list"}, m \in Mail :
             Ask(c, Frame(t, IF t = "list" THEN 0 ELSE Head(answers[c]).nonce, m), "asking")
      BY <1>6, <2>5 DEF ReadReady
    <3>2. at'[c] = "asking" /\ toServer'[c] = Frame(t, IF t = "list" THEN 0 ELSE Head(answers[c]).nonce, m)
      BY <3>1 DEF Ask, SessShape, LinesTyped
    <3>3. toServer'[c].type = t /\ (t # "list" => toServer'[c].nonce = answers[c][1].nonce)
      BY <2>2, <3>2 DEF Frame
    <3>4. Expected(c) => Expected(c)'
      BY <1>1, <2>1, <2>2, <2>5, <3>2, <3>3 DEF Expected
    <3> QED BY <1>4, <2>1, <2>3, <3>2, <3>4
  <2> QED BY <2>4, <2>5
<1>7. ASSUME line[c] = "up", line' = line, rivalled' = rivalled, refused' = refused, toServer'[c] = toServer[c],
             \/ at'[c] = at[c] /\ answers'[c] = answers[c]
             \/ at'[c] = "ready"
      PROVE  RivalsKnown' /\ NoncesKnown'
  <2>1. Expected(c) => Expected(c)'
    BY <1>1, <1>7 DEF Expected
  <2> QED BY <1>4, <1>7, <2>1
<1>8. ASSUME ReadOk(c) \/ ReadError(c)
      PROVE  RivalsKnown' /\ NoncesKnown'
  <2>1. line[c] = "up" /\ toServer' = toServer
    BY <1>8 DEF ReadOk, ReadError, Answered, Waits, Steady, Placed
  <2>2. Hangup(c) \/ (at' = [at EXCEPT ![c] = "ready"] /\ UNCHANGED <<line, rivalled, refused>>)
    BY <1>8 DEF ReadOk, ReadError
  <2> QED BY <1>2, <1>7, <2>1, <2>2 DEF SessShape, LinesTyped
<1>9. ASSUME KeepFrame(c)
      PROVE  RivalsKnown' /\ NoncesKnown'
  <2>1. line[c] = "up" /\ toServer' = toServer
    BY <1>9 DEF KeepFrame, Waits, Steady, Placed
  <2>2. \/ Hangup(c)
        \/ /\ at' = [at EXCEPT ![c] = at[c]] \/ at' = [at EXCEPT ![c] = "ready"]
           /\ UNCHANGED <<line, rivalled, refused, answers>>
    BY <1>9 DEF KeepFrame
  <2> QED BY <1>2, <1>7, <2>1, <2>2 DEF SessShape, LinesTyped
<1>10. ASSUME HandlePush(c)
       PROVE  RivalsKnown' /\ NoncesKnown'
  <2>1. line[c] = "up" /\ at[c] = "ready" /\ toServer[c].type = "none" /\ UNCHANGED <<line, rivalled, refused>>
    BY <1>10 DEF HandlePush, Steady, Placed, Silent, Frame
  <2>2. \/ at'[c] = "asking" /\ toServer'[c].type = "ack"
        \/ at'[c] = "ready" /\ toServer'[c].type = "none"
    BY <1>10, <2>1 DEF HandlePush, Ask, Frame, SessShape, LinesTyped
  <2>3. Expected(c)'
    BY <2>2 DEF Expected
  <2> QED BY <1>4, <2>1, <2>2, <2>3
<1>11. ASSUME DropAnswer(c)
       PROVE  RivalsKnown' /\ NoncesKnown'
  <2>1. line[c] = "up" /\ at[c] = "ready" /\ UNCHANGED <<line, rivalled, refused, toServer, at>>
    BY <1>11 DEF DropAnswer, Steady, Placed, clientVars
  <2> QED BY <1>7, <2>1
<1>12. ASSUME LineBreaks(c)
       PROVE  RivalsKnown' /\ NoncesKnown'
  BY <1>2, <1>12 DEF LineBreaks
<1> QED BY <1>3, <1>5, <1>6, <1>8, <1>9, <1>10, <1>11, <1>12 DEF ClientAction

\* A step of the server for c: the other connections keep what Expected reads of
\* them, and the client of c stays where it is.
LEMMA ServerLeaves ==
    ASSUME SessShape, NEW c \in Conn, ServerGives(c)
    PROVE  /\ UNCHANGED <<line, at>>
           /\ \A e \in Conn \ {c} : toServer'[e] = toServer[e] /\ answers'[e] = answers[e]
           /\ toServer'[c] = toServer[c] \/ toServer'[c].type = "none"
<1>1. UNCHANGED <<line, at>>
  BY DEF ServerGives, clientVars
<1>2. Silent.type = "none"
  BY DEF Silent, Frame
<1>3. toServer = [x \in Conn |-> toServer[x]] /\ answers = [x \in Conn |-> answers[x]]
  BY DEF SessShape, LinesTyped, FramesTyped
<1>4. toServer' = toServer \/ toServer' = [toServer EXCEPT ![c] = Silent]
  BY DEF ServerGives, Silently, Unheard, Replied
<1>5. answers' = answers \/ \E f \in Frames : answers' = [answers EXCEPT ![c] = Append(answers[c], f)]
  BY DEF ServerGives, Silently, Unheard, Replied
<1>6. \A e \in Conn \ {c} : toServer'[e] = toServer[e]
  BY <1>3, <1>4
<1>7. \A e \in Conn \ {c} : answers'[e] = answers[e]
  BY <1>3, <1>5
<1>8. toServer'[c] = toServer[c] \/ toServer'[c].type = "none"
  BY <1>2, <1>3, <1>4
<1> QED BY <1>1, <1>6, <1>7, <1>8

LEMMA ServerRivals ==
    ASSUME SessShape, RivalsKnown, NEW c \in Conn, ServerGives(c), rivalled \subseteq rivalled'
    PROVE  RivalsKnown'
<1>1. \A e \in Conn : LoggingIn(e)' => LoggingIn(e)
  BY ServerLeaves DEF LoggingIn
<1>2. \A e \in Conn : line'[e] = "up" => line[e] = "up" /\ (e \in rivalled => e \in rivalled')
  BY ServerLeaves
<1> QED BY <1>1, <1>2, RivalsStay

\* While c logs in, no other connection of its identity does without a mark.
LEMMA LoginAlone ==
    ASSUME SessShape, RivalsKnown, NEW c \in Conn, LoggingIn(c), NEW e \in Conn \ {c}, OwnerOf[e] = OwnerOf[c],
           Steady(e), line[e] = "up", e \notin rivalled
    PROVE  at[e] \in {"ready", "asking"} /\ toServer[e].type \notin {"open", "auth"}
<1>1. ~LoggingIn(e)
  BY DEF RivalsKnown
<1>2. at[e] \in {"ready", "asking"}
  BY <1>1 DEF LoggingIn, Steady, Placed, SessShape, LinesTyped
<1> QED BY <1>2 DEF Steady, Asked

\* The client of a frame is where it sent the frame from.
LEMMA SenderIs ==
    ASSUME SessShape, NEW c \in Conn, Steady(c), Listens(c)
    PROVE  /\ toServer[c].type \in {"open", "auth"} => LoggingIn(c)
           /\ line[c] = "up" /\ toServer[c].type = "open" => at[c] = "opening" /\ answers[c] = <<>>
           /\ line[c] = "up" /\ toServer[c].type = "auth" => at[c] = "authing" /\ answers[c] = <<>>
           /\ toServer[c].type \in {"upload", "extend", "list", "ack"} => at[c] \notin {"opening", "authing"}
<1>1. line[c] \in {"up", "down"} /\ at[c] \in {"idle", "opening", "authing", "ready", "asking"}
  BY DEF SessShape, LinesTyped, Listens
<1>2. line[c] = "up" /\ toServer[c].type = "open" => at[c] = "opening" /\ answers[c] = <<>>
  BY <1>1 DEF Steady, Placed, Asked
<1>3. line[c] = "up" /\ toServer[c].type = "auth" => at[c] = "authing" /\ answers[c] = <<>>
  BY <1>1 DEF Steady, Placed, Asked
<1>4. toServer[c].type \in {"upload", "extend", "list", "ack"} => at[c] \notin {"opening", "authing"}
  BY DEF Steady, Asked
<1> QED BY <1>1, <1>2, <1>3, <1>4 DEF LoggingIn

LEMMA Watching ==
    ASSUME SessShape, NEW c \in Conn, NoncesKnown, ServerGives(c), UNCHANGED over, rivalled \subseteq rivalled',
           over = {} => refused' \subseteq rivalled',
           over = {} /\ line[c] = "up" /\ c \notin rivalled' => Expected(c)',
           \A e \in Conn \ {c} : over = {} /\ line[e] = "up" /\ e \notin rivalled' /\ Expected(e) => Expected(e)'
    PROVE  NoncesKnown'
<1> SUFFICES ASSUME over = {}, NEW e \in Conn, line'[e] = "up", e \notin rivalled'
             PROVE  Expected(e)'
  BY DEF NoncesKnown
<1>1. line[e] = "up" /\ e \notin rivalled
  BY ServerLeaves
<1>2. Expected(e)
  BY <1>1 DEF NoncesKnown
<1> QED BY <1>1, <1>2

LEMMA OpenWatched ==
    ASSUME ConnsSteady, NEW c \in Conn, RivalsKnown, NoncesKnown, ServeOpen(c)
    PROVE  RivalsKnown' /\ NoncesKnown'
<1>0. SessShape /\ ServerGives(c) /\ rivalled' = rivalled /\ refused' = refused /\ over' = over /\ \A e \in Conn : Steady(e)
  BY LoginServed DEF ConnsSteady, ServeOpen
<1>1. RivalsKnown'
  BY <1>0, ServerRivals
<1>2. Listens(c) /\ toServer[c].type = "open" /\ LoggingIn(c)
  BY <1>0, SenderIs DEF ServeOpen
<1>3. OwnerOf \in [Conn -> Devices] /\ challenge \in [Devices -> Nat] /\ opNonce \in [Devices -> Nat] /\ issued \in Nat
  BY <1>0, DeliverySessionsAssumption DEF Devices, SessShape, LinesTyped
<1>4. ASSUME over = {}
      PROVE  challenge' = [challenge EXCEPT ![OwnerOf[c]] = issued + 1] /\ opNonce' = opNonce
  <2>1. Purged(challenge) = challenge /\ Purged(opNonce) = opNonce
    BY <1>3, <1>4 DEF Purged
  <2> QED BY <2>1 DEF ServeOpen, Issued
<1>5. \A e \in Conn \ {c} : auth'[e] = auth[e]
  BY <1>0 DEF ServeOpen, SessShape, LinesTyped
<1>6. ASSUME over = {}, line[c] = "up"
      PROVE  Expected(c)'
  <2>1. at[c] = "opening" /\ answers[c] = <<>>
    BY <1>0, <1>2, <1>6, SenderIs
  <2>2. at'[c] = "opening" /\ toServer'[c].type = "none"
    BY <1>0, <1>2, <2>1, ServerLeaves DEF ServeOpen, Taken, SessShape, LinesTyped, Silent, Frame
  <2>3. answers'[c] = <<Frame("challenge", issued + 1, NoId)>>
    BY <1>0, <1>6, <2>1 DEF ServeOpen, Answer, SessShape, FramesTyped
  <2>4. answers'[c][1].nonce = issued + 1
    BY <2>3 DEF Frame
  <2>5. challenge'[OwnerOf[c]] = issued + 1 /\ issued + 1 # 0
    BY <1>3, <1>4, <1>6
  <2> QED BY <2>2, <2>4, <2>5 DEF Expected
<1>7. ASSUME NEW e \in Conn \ {c}, over = {}, line[e] = "up", e \notin rivalled, Expected(e)
      PROVE  Expected(e)'
  <2>1. at'[e] = at[e] /\ toServer'[e] = toServer[e] /\ answers'[e] = answers[e] /\ opNonce' = opNonce
    BY <1>0, <1>4, <1>7, ServerLeaves
  <2>2. CASE OwnerOf[e] = OwnerOf[c]
    <3>1. at[e] \in {"ready", "asking"} /\ toServer[e].type \notin {"open", "auth"}
      BY <1>0, <1>2, <1>7, <2>2, LoginAlone
    <3> QED BY <1>5, <1>7, <2>1, <3>1 DEF Expected
  <2>3. CASE OwnerOf[e] # OwnerOf[c]
    <3>1. challenge'[OwnerOf[e]] = challenge[OwnerOf[e]]
      BY <1>3, <1>4, <1>7, <2>3
    <3> QED BY <1>5, <1>7, <2>1, <3>1 DEF Expected
  <2> QED BY <2>2, <2>3
<1>8. over = {} => refused' \subseteq rivalled'
  BY <1>0 DEF NoncesKnown
<1>9. NoncesKnown'
  BY <1>0, <1>6, <1>7, <1>8, Watching
<1> QED BY <1>1, <1>9

LEMMA RefusalWatched ==
    ASSUME ConnsSteady, NEW c \in Conn, RivalsKnown, NoncesKnown, RefuseAuth(c)
    PROVE  RivalsKnown' /\ NoncesKnown'
<1>0. SessShape /\ ServerGives(c) /\ rivalled' = rivalled /\ over' = over /\ \A e \in Conn : Steady(e)
  BY LoginServed DEF ConnsSteady, RefuseAuth
<1>1. RivalsKnown'
  BY <1>0, ServerRivals
<1>2. Listens(c) /\ toServer[c].type = "auth" /\ LoggingIn(c)
  BY <1>0, SenderIs DEF RefuseAuth
<1>3. OwnerOf \in [Conn -> Devices] /\ challenge \in [Devices -> Nat]
  BY <1>0, DeliverySessionsAssumption DEF Devices, SessShape, LinesTyped
<1>4. over = {} /\ line[c] = "up" => c \in rivalled
  BY <1>2 DEF NoncesKnown, Expected, RefuseAuth, SessionValid
<1>5. over = {} => refused' \subseteq rivalled'
  BY <1>0, <1>4 DEF RefuseAuth, NoncesKnown
<1>6. challenge' = [challenge EXCEPT ![OwnerOf[c]] = 0] /\ opNonce' = opNonce /\ auth' = auth
  BY DEF RefuseAuth
<1>7. ASSUME NEW e \in Conn \ {c}, line[e] = "up", e \notin rivalled, Expected(e)
      PROVE  Expected(e)'
  <2>1. at'[e] = at[e] /\ toServer'[e] = toServer[e] /\ answers'[e] = answers[e]
    BY <1>0, <1>7, ServerLeaves
  <2>2. CASE OwnerOf[e] = OwnerOf[c]
    <3>1. at[e] \in {"ready", "asking"} /\ toServer[e].type \notin {"open", "auth"}
      BY <1>0, <1>2, <1>7, <2>2, LoginAlone
    <3> QED BY <1>6, <1>7, <2>1, <3>1 DEF Expected
  <2>3. CASE OwnerOf[e] # OwnerOf[c]
    <3>1. challenge'[OwnerOf[e]] = challenge[OwnerOf[e]]
      BY <1>3, <1>6, <1>7, <2>3
    <3> QED BY <1>6, <1>7, <2>1, <3>1 DEF Expected
  <2> QED BY <2>2, <2>3
<1>8. NoncesKnown'
  BY <1>0, <1>4, <1>5, <1>7, Watching
<1> QED BY <1>1, <1>8

\* A new nonce for an operation of the identity: who held the old one is marked.
LEMMA OvertakenMarked ==
    ASSUME SessShape, NEW c \in Conn, ServerGives(c), NEW e \in Conn \ {c}, Expected(e), line[e] = "up", e \notin rivalled',
           Overtakes(c), opNonce' = Issued(opNonce, OwnerOf[c]), auth'[e] = auth[e],
           \/ challenge'[OwnerOf[e]] = challenge[OwnerOf[e]]
           \/ at[e] \in {"ready", "asking"} /\ toServer[e].type \notin {"open", "auth"}
    PROVE  Expected(e)'
<1>1. at'[e] = at[e] /\ toServer'[e] = toServer[e] /\ answers'[e] = answers[e]
  BY ServerLeaves
<1>2. CASE OwnerOf[e] = OwnerOf[c]
  <2>1. ~auth[e]
    BY <1>2 DEF Overtakes, Rivals
  <2> QED BY <1>1, <2>1 DEF Expected
<1>3. CASE OwnerOf[e] # OwnerOf[c]
  <2>1. OwnerOf \in [Conn -> Devices] /\ opNonce \in [Devices -> Nat]
    BY DeliverySessionsAssumption DEF Devices, SessShape, LinesTyped
  <2>2. opNonce'[OwnerOf[e]] = opNonce[OwnerOf[e]]
    BY <1>3, <2>1 DEF Issued
  <2> QED BY <1>1, <2>2 DEF Expected
<1> QED BY <1>2, <1>3

LEMMA AuthWatched ==
    ASSUME ConnsSteady, NEW c \in Conn, RivalsKnown, NoncesKnown, ServeAuth(c)
    PROVE  RivalsKnown' /\ NoncesKnown'
<1>0. SessShape /\ ServerGives(c) /\ refused' = refused /\ over' = over /\ (\A e \in Conn : Steady(e)) /\ Ready(c) /\ Overtakes(c)
  BY LoginServed DEF ConnsSteady, ServeAuth
<1>1. rivalled \subseteq rivalled'
  BY <1>0 DEF Overtakes
<1>2. RivalsKnown'
  BY <1>0, <1>1, ServerRivals
<1>3. Listens(c) /\ toServer[c].type = "auth" /\ LoggingIn(c)
  BY <1>0, SenderIs DEF ServeAuth
<1>4. OwnerOf \in [Conn -> Devices] /\ challenge \in [Devices -> Nat] /\ opNonce \in [Devices -> Nat] /\ issued \in Nat
      /\ auth \in [Conn -> BOOLEAN]
  BY <1>0, DeliverySessionsAssumption DEF Devices, SessShape, LinesTyped
<1>5. /\ challenge' = [challenge EXCEPT ![OwnerOf[c]] = 0] /\ opNonce' = Issued(opNonce, OwnerOf[c])
      /\ auth' = [auth EXCEPT ![c] = TRUE]
  BY <1>0 DEF Ready
<1>6. ASSUME line[c] = "up"
      PROVE  Expected(c)'
  <2>1. at[c] = "authing" /\ answers[c] = <<>>
    BY <1>0, <1>3, <1>6, SenderIs
  <2>2. at'[c] = "authing" /\ toServer'[c].type = "none"
    BY <1>0, <2>1, ServerLeaves DEF ServeAuth, Taken, SessShape, LinesTyped, Silent, Frame
  <2>3. answers'[c] = <<Frame("ready", issued + 1, NoId)>>
    BY <1>0, <1>6, <2>1 DEF ServeAuth, Answer, SessShape, FramesTyped
  <2>4. answers'[c][1].nonce = issued + 1
    BY <2>3 DEF Frame
  <2>5. opNonce'[OwnerOf[c]] = issued + 1 /\ issued + 1 # 0 /\ auth'[c]
    BY <1>4, <1>5 DEF Issued
  <2> QED BY <2>2, <2>4, <2>5 DEF Expected
<1>7. ASSUME NEW e \in Conn \ {c}, line[e] = "up", e \notin rivalled', Expected(e)
      PROVE  Expected(e)'
  <2>1. auth'[e] = auth[e] /\ e \notin rivalled
    BY <1>1, <1>4, <1>5, <1>7
  <2>2. \/ challenge'[OwnerOf[e]] = challenge[OwnerOf[e]]
        \/ at[e] \in {"ready", "asking"} /\ toServer[e].type \notin {"open", "auth"}
    <3>1. CASE OwnerOf[e] = OwnerOf[c]
      BY <1>0, <1>3, <1>7, <2>1, <3>1, LoginAlone
    <3>2. CASE OwnerOf[e] # OwnerOf[c]
      BY <1>4, <1>5, <1>7, <3>2
    <3> QED BY <3>1, <3>2
  <2> QED BY <1>0, <1>5, <1>7, <2>1, <2>2, OvertakenMarked
<1>8. over = {} => refused' \subseteq rivalled'
  BY <1>0, <1>1 DEF NoncesKnown
<1>9. NoncesKnown'
  BY <1>0, <1>1, <1>6, <1>7, <1>8, Watching
<1> QED BY <1>2, <1>9

\* An operation: its client waits for the answer and nothing is expected of it.
LEMMA RequestWatched ==
    ASSUME ConnsSteady, NEW c \in Conn, RivalsKnown, NoncesKnown,
           RefuseOp(c) \/ ServeUpload(c) \/ ServeExtend(c) \/ ServeList(c) \/ ServeInboxAck(c)
    PROVE  RivalsKnown' /\ NoncesKnown'
<1>0. SessShape /\ ServerGives(c) /\ over' = over /\ \A e \in Conn : Steady(e)
  BY RequestServed DEF ConnsSteady, RefuseOp, ServeUpload, ServeExtend, ServeList, ServeInboxAck, storeVars
<1>1. Listens(c) /\ Taken(c) /\ toServer[c].type \in {"upload", "extend", "list", "ack"} /\ auth' = auth /\ challenge' = challenge
  BY DEF RefuseOp, ServeUpload, ServeExtend, ServeList, ServeInboxAck, storeVars
<1>2. Expected(c)'
  <2>1. at'[c] \notin {"opening", "authing"}
    BY <1>0, <1>1, SenderIs, ServerLeaves
  <2>2. toServer'[c].type = "none"
    BY <1>0, <1>1 DEF Taken, SessShape, LinesTyped, Silent, Frame
  <2> QED BY <2>1, <2>2 DEF Expected
<1>3. CASE UsesNonce(c) /\ refused' = refused
  <2>1. Overtakes(c) /\ opNonce' = Issued(opNonce, OwnerOf[c]) /\ rivalled \subseteq rivalled'
    BY <1>3 DEF UsesNonce, Overtakes
  <2>2. RivalsKnown'
    BY <1>0, <2>1, ServerRivals
  <2>3. \A e \in Conn \ {c} : line[e] = "up" /\ e \notin rivalled' /\ Expected(e) => Expected(e)'
    BY <1>0, <1>1, <2>1, OvertakenMarked
  <2>4. over = {} => refused' \subseteq rivalled'
    BY <1>3, <2>1 DEF NoncesKnown
  <2>5. NoncesKnown'
    BY <1>0, <1>2, <2>1, <2>3, <2>4, Watching
  <2> QED BY <2>2, <2>5
<1>4. ASSUME rivalled' = rivalled, over = {} => opNonce' = opNonce, over = {} => refused' \subseteq rivalled
      PROVE  RivalsKnown' /\ NoncesKnown'
  <2>1. RivalsKnown'
    BY <1>0, <1>4, ServerRivals
  <2>2. ASSUME NEW e \in Conn \ {c}, over = {}, Expected(e)
        PROVE  Expected(e)'
    <3>1. at'[e] = at[e] /\ toServer'[e] = toServer[e] /\ answers'[e] = answers[e] /\ opNonce' = opNonce
      BY <1>0, <1>4, <2>2, ServerLeaves
    <3> QED BY <1>1, <2>2, <3>1 DEF Expected
  <2>3. NoncesKnown'
    BY <1>0, <1>2, <1>4, <2>2, Watching
  <2> QED BY <2>1, <2>3
<1>5. CASE RefuseOp(c)
  <2>1. rivalled' = rivalled
    BY <1>5 DEF RefuseOp
  <2>2. opNonce \in [Devices -> Nat]
    BY <1>0 DEF SessShape, LinesTyped
  <2>3. over = {} => opNonce' = opNonce
    BY <1>5, <2>2 DEF RefuseOp
  <2>4. over = {} /\ line[c] = "up" => c \in rivalled
    BY <1>5 DEF RefuseOp, NoncesKnown, Expected, OpValid
  <2>5. over = {} => refused' \subseteq rivalled
    BY <1>5, <2>4 DEF RefuseOp, NoncesKnown
  <2> QED BY <1>4, <2>1, <2>3, <2>5
<1>6. CASE ServeUpload(c) \/ ServeExtend(c)
  BY <1>3, <1>6 DEF ServeUpload, ServeExtend
<1>7. CASE ServeList(c) \/ ServeInboxAck(c)
  <2>1. rivalled' = rivalled /\ opNonce' = opNonce /\ refused' = refused
    BY <1>7 DEF ServeList, ServeInboxAck, storeVars
  <2>2. over = {} => refused' \subseteq rivalled
    BY <2>1 DEF NoncesKnown
  <2> QED BY <1>4, <2>1, <2>2
<1> QED BY <1>5, <1>6, <1>7

LEMMA PendingWatched ==
    ASSUME ConnsSteady, NEW c \in Conn, RivalsKnown, NoncesKnown, DeliverPending(c)
    PROVE  RivalsKnown' /\ NoncesKnown'
<1>1. UNCHANGED <<challenge, opNonce, over, line, auth, answers, toServer, at, rivalled, refused>>
  BY DEF DeliverPending, storeVars, clientVars
<1>2. RivalsKnown'
  BY <1>1 DEF RivalsKnown, LoggingIn
<1>3. NoncesKnown'
  BY <1>1 DEF NoncesKnown, Expected
<1> QED BY <1>2, <1>3

LEMMA EndWatched ==
    ASSUME ConnsSteady, NEW c \in Conn, RivalsKnown, NoncesKnown, SocketEnds(c) \/ NonceExpires(c)
    PROVE  RivalsKnown' /\ NoncesKnown'
<1>1. CASE SocketEnds(c)
  <2>1. SessShape /\ Steady(c)
    BY DEF ConnsSteady
  <2>2. Others(c)
    BY <1>1, <2>1, SocketEndsSteady DEF ClientGives
  <2>3. line'[c] = "none" /\ UNCHANGED <<challenge, opNonce, over, at, rivalled, refused>> /\ line[c] = "down"
    BY <1>1, <2>1 DEF SocketEnds, SessShape, LinesTyped, storeVars, clientVars
  <2>4. ~LoggingIn(c)'
    BY <2>1, <2>3 DEF LoggingIn, Steady, Placed
  <2>5. \A e \in Conn : LoggingIn(e)' => LoggingIn(e)
    BY <2>2, <2>3, <2>4 DEF LoggingIn, Others
  <2>6. \A e \in Conn : line'[e] = "up" => line[e] = "up" /\ (e \in rivalled => e \in rivalled')
    BY <2>2, <2>3 DEF Others
  <2>7. RivalsKnown'
    BY <2>5, <2>6, RivalsStay
  <2>8. \A e \in Conn \ {c} : auth'[e] = auth[e]
    BY <1>1, <2>1 DEF SocketEnds, SessShape, LinesTyped
  <2>9. NoncesKnown'
    BY <2>1, <2>2, <2>3, <2>8, OthersExpected
  <2> QED BY <2>7, <2>9
<1>2. CASE NonceExpires(c)
  <2>1. over' # {} /\ UNCHANGED <<line, at, toServer, rivalled>>
    BY <1>2 DEF NonceExpires, socketVars, clientVars
  <2>2. RivalsKnown'
    BY <2>1 DEF RivalsKnown, LoggingIn
  <2>3. NoncesKnown'
    BY <2>1 DEF NoncesKnown
  <2> QED BY <2>2, <2>3
<1> QED BY <1>1, <1>2

LEMMA StepsWatched ==
    ASSUME ConnsSteady, RivalsKnown, NoncesKnown, SessionsNext
    PROVE  RivalsKnown' /\ NoncesKnown'
<1>1. PICK c \in Conn : ClientAction(c) \/ ServerAction(c) \/ SocketEnds(c) \/ NonceExpires(c)
  BY StepIs
<1>2. CASE ClientAction(c)
  BY <1>2, ClientWatched DEF ConnsSteady
<1>3. CASE ServerAction(c)
  BY <1>3, OpenWatched, RefusalWatched, AuthWatched, RequestWatched, PendingWatched DEF ServerAction
<1>4. CASE SocketEnds(c) \/ NonceExpires(c)
  BY <1>4, EndWatched
<1> QED BY <1>1, <1>2, <1>3, <1>4

(* While no nonce ran out, a connection the server turns down is one that  *)
(* another connection of its identity got in the way of: a device whose    *)
(* worker is logged in and that asks one thing at a time is always served  *)
(* (take_session_valid, take_op_valid, handle_session_open).               *)
THEOREM RivalsAloneRefuse == SessionsSpec => []OnlyRivalsRefuse
<1> DEFINE Watchful == ConnsSteady /\ RivalsKnown /\ NoncesKnown
<1>1. SessionsInit => Watchful
  <2> SUFFICES ASSUME SessionsInit PROVE Watchful
    OBVIOUS
  <2>1. ConnsSteady
    BY StartSteady
  <2>2. \A c \in Conn : line[c] = "none" /\ ~LoggingIn(c)
    BY DEF SessionsInit, LoggingIn
  <2>3. RivalsKnown /\ NoncesKnown
    BY <2>2 DEF RivalsKnown, NoncesKnown, SessionsInit
  <2> QED BY <2>1, <2>3
<1>2. Watchful /\ [SessionsNext]_sessionVars => Watchful'
  <2> SUFFICES ASSUME Watchful, [SessionsNext]_sessionVars
               PROVE  Watchful'
    OBVIOUS
  <2>1. CASE SessionsNext
    BY <2>1, StepsSteady, StepsWatched
  <2>2. CASE UNCHANGED sessionVars
    <3>1. ConnsSteady'
      <4>1. SessShape'
        BY <2>2 DEF sessionVars, storeVars, socketVars, clientVars, ConnsSteady, SessShape, LinesTyped, FramesTyped
      <4>2. \A e \in Conn : Steady(e)'
        BY <2>2 DEF sessionVars, storeVars, socketVars, clientVars, ConnsSteady, Steady, Placed, Numbered, Asked
      <4> QED BY <4>1, <4>2 DEF ConnsSteady
    <3>2. RivalsKnown'
      BY <2>2 DEF sessionVars, socketVars, clientVars, RivalsKnown, LoggingIn
    <3>3. NoncesKnown'
      BY <2>2 DEF sessionVars, storeVars, socketVars, clientVars, NoncesKnown, Expected
    <3> QED BY <3>1, <3>2, <3>3
  <2> QED BY <2>1, <2>2
<1>3. Watchful => OnlyRivalsRefuse
  BY DEF NoncesKnown, OnlyRivalsRefuse
<1> QED BY <1>1, <1>2, <1>3, PTL DEF SessionsSpec

(***************************************************************************)
(* How far the numbers of the sessions go.  Each connection has the server *)
(* issue at most three nonces, a challenge, the one it gets when it is     *)
(* ready and the one that replaces it: what is still due of a connection   *)
(* is counted in tickets.                                                  *)
(***************************************************************************)
Due(c) ==
    CASE toServer[c].type = "open" -> 3
      [] toServer[c].type = "auth" -> 2
      [] toServer[c].type \in {"upload", "extend"} -> 1
      [] toServer[c].type = "none" /\ at[c] = "opening" -> 2
      [] toServer[c].type = "none" /\ at[c] = "authing" -> 1
      [] OTHER -> 0

Tickets == {t \in Conn \X (1..3) : t[2] <= Due(t[1])}

NoncesPaid == IsFiniteSet(Tickets) /\ issued + Cardinality(Tickets) <= 3 * connects

\* What a connection holds is bounded.
Bounded(c) ==
    /\ toServer[c].nonce <= issued
    /\ toServer[c].type = "upload" => toServer[c].id \in Mail
    /\ \A i \in 1..Len(answers[c]) : answers[c][i].nonce <= issued
    /\ waited[c] <= WaitLimit
    /\ Waits(c) => waited[c] < WaitLimit
    /\ at[c] = "idle" => waited[c] = 0

StoreBounded ==
    /\ \A d \in Devices : challenge[d] <= issued /\ opNonce[d] <= issued
    /\ over \subseteq 0..issued /\ queued \subseteq Mail
    /\ connects \in 0..MaxConnects /\ mishaps \in 0..MaxMishaps

LEMMA DueIs == \A c \in Conn : Due(c) \in 0..3
  BY DEF Due

LEMMA PartIsLess ==
    ASSUME NEW A, NEW B, IsFiniteSet(A), B \subseteq A, B # A
    PROVE  Cardinality(B) < Cardinality(A)
<1>1. IsFiniteSet(B) /\ Cardinality(B) <= Cardinality(A) /\ Cardinality(A) # Cardinality(B)
  BY FS_Subset
<1>2. Cardinality(A) \in Nat /\ Cardinality(B) \in Nat
  BY <1>1, FS_CardinalityType
<1> QED BY <1>1, <1>2

LEMMA OneMore ==
    ASSUME NEW A, NEW x, IsFiniteSet(A)
    PROVE  IsFiniteSet(A \cup {x}) /\ Cardinality(A \cup {x}) \in Nat /\ Cardinality(A \cup {x}) <= Cardinality(A) + 1
<1>1. Cardinality(A) \in Nat
  BY FS_CardinalityType
<1>2. IsFiniteSet(A \cup {x}) /\ Cardinality(A \cup {x}) = IF x \in A THEN Cardinality(A) ELSE Cardinality(A) + 1
  BY FS_AddElement
<1> QED BY <1>1, <1>2

\* A ticket is used for each nonce, and nobody gets one but by connecting.
LEMMA TicketsUsed ==
    ASSUME NoncesPaid, issued \in Nat, connects \in Nat, connects' = connects,
           \A e \in Conn : Due(e)' <= Due(e),
           \/ issued' = issued
           \/ issued' = issued + 1 /\ \E c \in Conn : Due(c)' < Due(c)
    PROVE  NoncesPaid'
<1>1. \A e \in Conn : Due(e) \in 0..3 /\ Due(e)' \in 0..3
  BY DEF Due
<1>2. Tickets' \subseteq Tickets
  <2> SUFFICES ASSUME NEW t \in Conn \X (1..3), t[2] <= Due(t[1])'
               PROVE  t[2] <= Due(t[1])
    BY DEF Tickets
  <2>1. t[1] \in Conn /\ t[2] \in 1..3
    OBVIOUS
  <2> QED BY <1>1, <2>1
<1>3. IsFiniteSet(Tickets) /\ Cardinality(Tickets) \in Nat /\ issued + Cardinality(Tickets) <= 3 * connects
  BY FS_CardinalityType DEF NoncesPaid
<1>4. IsFiniteSet(Tickets') /\ Cardinality(Tickets') \in Nat /\ Cardinality(Tickets') <= Cardinality(Tickets)
  BY <1>2, <1>3, FS_Subset, FS_CardinalityType
<1>5. CASE issued' = issued
  BY <1>3, <1>4, <1>5 DEF NoncesPaid
<1>6. ASSUME issued' = issued + 1, NEW c \in Conn, Due(c)' < Due(c)
      PROVE  NoncesPaid'
  <2> DEFINE used == <<c, Due(c)>>
  <2>1. Due(c) \in 1..3
    BY <1>1, <1>6
  <2>2. used \in Tickets
    BY <1>1, <2>1 DEF Tickets
  <2>3. used \notin Tickets'
    BY <1>1, <1>6 DEF Tickets
  <2> HIDE DEF used
  <2>4. Tickets' # Tickets
    BY <2>2, <2>3
  <2>5. Cardinality(Tickets') < Cardinality(Tickets)
    BY <1>2, <1>3, <2>4, PartIsLess
  <2>6. issued' + Cardinality(Tickets') <= 3 * connects'
    BY <1>3, <1>4, <1>6, <2>5
  <2> QED BY <1>4, <2>6 DEF NoncesPaid
<1> QED BY <1>5, <1>6

\* A connection pays for its three nonces when it is made.
LEMMA TicketsBought ==
    ASSUME SessShape, NEW c \in Conn, Steady(c), Connect(c), NoncesPaid, connects \in Nat
    PROVE  NoncesPaid'
<1>1. /\ issued' = issued /\ issued \in Nat /\ connects' = connects + 1
      /\ toServer' = [toServer EXCEPT ![c] = Frame("open", 0, NoId)] /\ at' = [at EXCEPT ![c] = "opening"]
  BY DEF Connect, storeVars, SessShape, LinesTyped
<1>2. \A e \in Conn \ {c} : Due(e)' = Due(e)
  BY <1>1 DEF Due, SessShape, LinesTyped
<1> DEFINE one == Tickets \cup {<<c, 1>>}
           two == one \cup {<<c, 2>>}
           three == two \cup {<<c, 3>>}
<1>3. Tickets' \subseteq three
  <2> SUFFICES ASSUME NEW t \in Conn \X (1..3), t[2] <= Due(t[1])', t \notin three
               PROVE  t[2] <= Due(t[1])
    BY DEF Tickets
  <2>1. t = <<t[1], t[2]>> /\ t[1] \in Conn /\ t[2] \in 1..3
    OBVIOUS
  <2>2. t[1] # c
    BY <2>1
  <2> QED BY <1>2, <2>1, <2>2
<1>4. IsFiniteSet(Tickets) /\ Cardinality(Tickets) \in Nat /\ issued + Cardinality(Tickets) <= 3 * connects
  BY FS_CardinalityType DEF NoncesPaid
<1>5. IsFiniteSet(one) /\ Cardinality(one) \in Nat /\ Cardinality(one) <= Cardinality(Tickets) + 1
  BY <1>4, OneMore
<1> HIDE DEF one
<1>6. IsFiniteSet(two) /\ Cardinality(two) \in Nat /\ Cardinality(two) <= Cardinality(one) + 1
  BY <1>5, OneMore
<1> HIDE DEF two
<1>7. IsFiniteSet(three) /\ Cardinality(three) \in Nat /\ Cardinality(three) <= Cardinality(two) + 1
  BY <1>6, OneMore
<1> HIDE DEF three
<1>8. IsFiniteSet(Tickets') /\ Cardinality(Tickets') <= Cardinality(three) /\ Cardinality(Tickets') \in Nat
  BY <1>3, <1>7, FS_Subset, FS_CardinalityType
<1>9. issued' + Cardinality(Tickets') <= 3 * connects'
  BY <1>1, <1>4, <1>5, <1>6, <1>7, <1>8
<1> QED BY <1>8, <1>9 DEF NoncesPaid

LEMMA HungUpBounded ==
    ASSUME SessShape, NEW c \in Conn, Hangup(c), UNCHANGED <<issued, toServer>>, Bounded(c)
    PROVE  Bounded(c)' /\ at'[c] = "idle" /\ \A e \in Conn \ {c} : waited'[e] = waited[e]
<1>1. at'[c] = "idle" /\ answers'[c] = <<>> /\ waited'[c] = 0 /\ toServer' = toServer
  BY DEF Hangup, SessShape, LinesTyped, FramesTyped
<1>2. \A e \in Conn \ {c} : waited'[e] = waited[e]
  BY DEF Hangup, SessShape, FramesTyped
<1>3. 0 < WaitLimit /\ WaitLimit \in Nat
  BY DeliverySessionsAssumption
<1> QED BY <1>1, <1>2, <1>3 DEF Bounded, Waits

\* What every step of the client c gives, but for the nonces.
ClientStays(c) ==
    /\ Bounded(c)' /\ \A e \in Conn \ {c} : waited'[e] = waited[e]
    /\ Due(c)' <= Due(c)

LEMMA AnswersBounded ==
    ASSUME SessShape, NEW c \in Conn, Bounded(c), answers[c] # <<>>
    PROVE  /\ Head(answers[c]).nonce <= issued /\ Head(answers[c]).nonce \in Nat
           /\ \A i \in 1..Len(Tail(answers[c])) : Tail(answers[c])[i].nonce <= issued
<1>1. /\ Head(answers[c]) = answers[c][1] /\ Head(answers[c]).nonce \in Nat
      /\ Len(answers[c]) \in Nat /\ Len(answers[c]) > 0 /\ Len(Tail(answers[c])) = Len(answers[c]) - 1
      /\ \A i \in 1..Len(answers[c]) - 1 : Tail(answers[c])[i] = answers[c][i + 1]
  BY FramesAre DEF SessShape
<1>2. \A i \in 1..Len(answers[c]) - 1 : i + 1 \in 1..Len(answers[c])
  BY <1>1
<1>3. 1 \in 1..Len(answers[c])
  BY <1>1
<1> QED BY <1>1, <1>2, <1>3 DEF Bounded

LEMMA ChallengeBounded ==
    ASSUME SessShape, NEW c \in Conn, Steady(c), Bounded(c), ReadChallenge(c)
    PROVE  ClientStays(c) /\ UNCHANGED issued
<1>1. at[c] = "opening" /\ answers[c] # <<>> /\ UNCHANGED issued
  BY DEF ReadChallenge, Answered, Waits, Wanted, storeVars
<1>2. toServer[c].type = "none"
  BY <1>1 DEF Steady, Asked
<1>3. /\ toServer'[c].type = "auth" /\ toServer'[c].nonce = Head(answers[c]).nonce /\ at'[c] = "authing"
      /\ answers'[c] = Tail(answers[c]) /\ waited'[c] = 0 /\ \A e \in Conn \ {c} : waited'[e] = waited[e]
  BY DEF ReadChallenge, ReadAnswer, Ask, Frame, SessShape, LinesTyped, FramesTyped
<1>4. 0 < WaitLimit /\ WaitLimit \in Nat
  BY DeliverySessionsAssumption
<1>5. Bounded(c)'
  <2>1. /\ toServer'[c].nonce <= issued' /\ toServer'[c].type # "upload"
        /\ \A i \in 1..Len(answers'[c]) : answers'[c][i].nonce <= issued'
    BY <1>1, <1>3, AnswersBounded
  <2>2. waited'[c] <= WaitLimit /\ waited'[c] < WaitLimit /\ waited'[c] = 0
    BY <1>3, <1>4
  <2> QED BY <2>1, <2>2 DEF Bounded
<1>6. Due(c)' = 2 /\ Due(c) = 2
  BY <1>1, <1>2, <1>3 DEF Due
<1> QED BY <1>1, <1>3, <1>5, <1>6 DEF ClientStays

LEMMA ReadyBounded ==
    ASSUME SessShape, NEW c \in Conn, Steady(c), Bounded(c), ReadReady(c)
    PROVE  ClientStays(c) /\ UNCHANGED issued
<1>1. at[c] = "authing" /\ answers[c] # <<>> /\ UNCHANGED issued /\ issued \in Nat
  BY DEF ReadReady, Answered, Waits, Wanted, storeVars, SessShape, LinesTyped
<1>2. toServer[c].type = "none"
  BY <1>1 DEF Steady, Asked
<1>3. 0 < WaitLimit /\ WaitLimit \in Nat
  BY DeliverySessionsAssumption
<1>4. /\ answers'[c] = Tail(answers[c])
      /\ waited'[c] = 0 /\ \A e \in Conn \ {c} : waited'[e] = waited[e]
      /\ \/ at'[c] = "ready" /\ toServer'[c] = toServer[c]
         \/ /\ at'[c] = "asking" /\ toServer'[c].type \in {"upload", "extend", "list"}
            /\ toServer'[c].id \in Mail /\ toServer'[c].nonce \in {0, Head(answers[c]).nonce}
  BY DEF ReadReady, ReadAnswer, Ask, Frame, SessShape, LinesTyped, FramesTyped
<1>5. Bounded(c)'
  BY <1>1, <1>3, <1>4, AnswersBounded DEF Bounded
<1>6. Due(c) = 1
  BY <1>1, <1>2 DEF Due
<1>7. Due(c)' <= 1
  BY <1>2, <1>4 DEF Due
<1> QED BY <1>1, <1>4, <1>5, <1>6, <1>7 DEF ClientStays

LEMMA AnswerEndsBounded ==
    ASSUME SessShape, NEW c \in Conn, Steady(c), Bounded(c), ReadOk(c) \/ ReadError(c)
    PROVE  ClientStays(c) /\ UNCHANGED issued
<1>1. answers[c] # <<>> /\ UNCHANGED <<issued, toServer>>
  BY DEF ReadOk, ReadError, Answered, storeVars
<1>2. Due(c) \in 0..3
  BY DueIs
<1>3. CASE Hangup(c)
  <2>1. Bounded(c)' /\ at'[c] = "idle" /\ \A e \in Conn \ {c} : waited'[e] = waited[e]
    BY <1>1, <1>3, HungUpBounded
  <2>2. Due(c)' <= Due(c)
    BY <1>1, <2>1 DEF Due
  <2> QED BY <1>1, <2>1, <2>2 DEF ClientStays
<1>4. CASE ReadAnswer(c) /\ at' = [at EXCEPT ![c] = "ready"] /\ waited' = waited
  <2>1. answers'[c] = Tail(answers[c]) /\ at'[c] = "ready"
    BY <1>4 DEF ReadAnswer, SessShape, LinesTyped, FramesTyped
  <2>2. Bounded(c)'
    BY <1>1, <1>4, <2>1, AnswersBounded DEF Bounded, Waits
  <2>3. Due(c)' <= Due(c)
    BY <1>1, <2>1 DEF Due
  <2> QED BY <1>1, <1>4, <2>2, <2>3 DEF ClientStays
<1> QED BY <1>3, <1>4 DEF ReadOk, ReadError

LEMMA KeepFrameBounded ==
    ASSUME SessShape, NEW c \in Conn, Steady(c), Bounded(c), KeepFrame(c)
    PROVE  ClientStays(c) /\ UNCHANGED issued
<1>1. Waits(c) /\ UNCHANGED <<issued, toServer>>
  BY DEF KeepFrame, storeVars
<1>2. WaitLimit \in Nat /\ waited[c] \in Nat /\ waited[c] < WaitLimit
  BY <1>1, DeliverySessionsAssumption DEF Bounded, SessShape, FramesTyped
<1>3. CASE Hangup(c)
  <2>1. Bounded(c)' /\ at'[c] = "idle" /\ \A e \in Conn \ {c} : waited'[e] = waited[e]
    BY <1>1, <1>3, HungUpBounded
  <2>2. Due(c)' <= Due(c)
    BY <1>1, <2>1 DEF Due
  <2> QED BY <1>1, <2>1, <2>2 DEF ClientStays
<1>4. CASE ~Hangup(c)
  <2>1. /\ waited'[c] = waited[c] + 1 /\ answers'[c] = answers[c] /\ \A e \in Conn \ {c} : waited'[e] = waited[e]
        /\ \/ waited[c] + 1 < WaitLimit /\ at'[c] = at[c]
           \/ at'[c] = "ready"
    BY <1>4 DEF KeepFrame, SessShape, LinesTyped, FramesTyped
  <2>2. at[c] # "idle"
    BY <1>1 DEF Waits
  <2>3. Bounded(c)'
    BY <1>1, <1>2, <2>1, <2>2 DEF Bounded, Waits
  <2>4. Due(c)' <= Due(c)
    BY <1>1, <2>1 DEF Due
  <2> QED BY <1>1, <2>1, <2>3, <2>4 DEF ClientStays
<1> QED BY <1>3, <1>4

LEMMA HandledBounded ==
    ASSUME SessShape, NEW c \in Conn, Steady(c), Bounded(c), HandlePush(c)
    PROVE  ClientStays(c) /\ UNCHANGED issued
<1>1. at[c] = "ready" /\ UNCHANGED <<issued, answers>> /\ toServer[c].type = "none" /\ issued \in Nat
  BY DEF HandlePush, storeVars, Silent, Frame, SessShape, LinesTyped
<1>2. 0 < WaitLimit /\ WaitLimit \in Nat
  BY DeliverySessionsAssumption
<1>3. \/ /\ toServer'[c].type = "ack" /\ toServer'[c].nonce = 0 /\ at'[c] = "asking" /\ waited'[c] = 0
         /\ \A e \in Conn \ {c} : waited'[e] = waited[e]
      \/ UNCHANGED <<toServer, at, waited>>
  BY DEF HandlePush, Ask, Frame, SessShape, LinesTyped, FramesTyped
<1>4. Bounded(c)'
  BY <1>1, <1>2, <1>3 DEF Bounded, Waits
<1>5. Due(c)' <= Due(c)
  BY <1>1, <1>3 DEF Due
<1> QED BY <1>1, <1>3, <1>4, <1>5 DEF ClientStays

LEMMA DroppedBounded ==
    ASSUME SessShape, NEW c \in Conn, Steady(c), Bounded(c), DropAnswer(c) \/ LineBreaks(c)
    PROVE  ClientStays(c) /\ UNCHANGED issued
<1>1. CASE DropAnswer(c)
  <2>1. answers[c] # <<>> /\ answers'[c] = Tail(answers[c]) /\ UNCHANGED <<issued, toServer, at, waited>>
    BY <1>1 DEF DropAnswer, ReadAnswer, storeVars, clientVars, SessShape, FramesTyped
  <2>2. Bounded(c)'
    BY <2>1, AnswersBounded DEF Bounded, Waits
  <2>3. Due(c)' = Due(c) /\ Due(c) \in 0..3
    BY <2>1, DueIs DEF Due
  <2> QED BY <2>1, <2>2, <2>3 DEF ClientStays
<1>2. CASE LineBreaks(c)
  <2>1. Hangup(c) /\ UNCHANGED <<issued, toServer>>
    BY <1>2 DEF LineBreaks, storeVars
  <2>2. Bounded(c)' /\ at'[c] = "idle" /\ \A e \in Conn \ {c} : waited'[e] = waited[e]
    BY <2>1, HungUpBounded
  <2>3. Due(c)' <= Due(c)
    BY <2>1, <2>2 DEF Due
  <2> QED BY <2>1, <2>2, <2>3 DEF ClientStays
<1> QED BY <1>1, <1>2

LEMMA ConnectBounded ==
    ASSUME SessShape, NEW c \in Conn, Steady(c), Bounded(c), Connect(c)
    PROVE  Bounded(c)' /\ (\A e \in Conn \ {c} : waited'[e] = waited[e]) /\ UNCHANGED issued
<1>1. /\ at[c] = "idle" /\ waited' = waited /\ answers' = answers /\ issued' = issued /\ issued \in Nat
      /\ toServer'[c].nonce = 0 /\ toServer'[c].type = "open" /\ at'[c] = "opening"
  BY DEF Connect, storeVars, Frame, SessShape, LinesTyped
<1>2. 0 < WaitLimit /\ WaitLimit \in Nat
  BY DeliverySessionsAssumption
<1> QED BY <1>1, <1>2 DEF Bounded
\* What every step of the server for c gives.
ServerStays(c) ==
    /\ \A e \in Conn : Bounded(e)' /\ (e # c => Due(e)' <= Due(e))
    /\ \/ issued' = issued /\ Due(c)' <= Due(c)
       \/ issued' = issued + 1 /\ Due(c)' < Due(c)

\* Its answer carries no nonce that is not issued.
LEMMA ServedBounded ==
    ASSUME SessShape, NEW c \in Conn, \A e \in Conn : Bounded(e), ServerGives(c), Taken(c),
           NEW f \in Frames, Answer(c, f), f.nonce <= issued', issued' \in Nat, issued <= issued',
           \/ issued' = issued /\ Due(c)' <= Due(c)
           \/ issued' = issued + 1 /\ Due(c)' < Due(c)
    PROVE  ServerStays(c)
<1>1. UNCHANGED <<at, waited>> /\ \A e \in Conn \ {c} : toServer'[e] = toServer[e] /\ answers'[e] = answers[e]
  BY ServerLeaves DEF ServerGives, clientVars
<1>2. issued \in Nat /\ \A e \in Conn : toServer[e].nonce \in Nat /\ answers[e] \in Seq(Frames)
  BY DEF SessShape, LinesTyped, FramesTyped
<1>3. ASSUME NEW e \in Conn, NEW i \in 1..Len(answers[e])
      PROVE  answers[e][i].nonce \in Nat
  <2>1. answers[e][i] \in Frames
    BY <1>2
  <2> QED BY <2>1 DEF Frames
<1>4. ASSUME NEW e \in Conn \ {c}
      PROVE  Bounded(e)' /\ Due(e)' <= Due(e)
  <2>1. Bounded(e)'
    BY <1>1, <1>2, <1>3 DEF Bounded, Waits
  <2>2. Due(e)' = Due(e) /\ Due(e) \in 0..3
    BY <1>1, DueIs DEF Due
  <2> QED BY <2>1, <2>2
<1>5. toServer'[c].nonce = 0 /\ toServer'[c].type = "none"
  BY DEF Taken, Silent, Frame, SessShape, LinesTyped
<1>6. answers'[c] = answers[c] \/ answers'[c] = Append(answers[c], f)
  BY DEF Answer, SessShape, FramesTyped
<1>7. \A i \in 1..Len(answers'[c]) : answers'[c][i].nonce <= issued'
  <2>1. CASE answers'[c] = answers[c]
    BY <1>2, <1>3, <2>1 DEF Bounded
  <2>2. CASE answers'[c] = Append(answers[c], f)
    <3>1. /\ Len(answers'[c]) = Len(answers[c]) + 1 /\ Len(answers[c]) \in Nat
          /\ answers'[c][Len(answers[c]) + 1] = f
          /\ \A i \in 1..Len(answers[c]) : answers'[c][i] = answers[c][i]
      BY <1>2, <2>2
    <3>2. \A i \in 1..Len(answers[c]) : answers'[c][i].nonce <= issued'
      BY <1>2, <1>3, <3>1 DEF Bounded
    <3> QED BY <3>1, <3>2
  <2> QED BY <1>6, <2>1, <2>2
<1>8. Bounded(c)'
  BY <1>1, <1>5, <1>7 DEF Bounded, Waits
<1> QED BY <1>4, <1>8 DEF ServerStays

\* A frame that is taken off leaves the connection with less that is due.
LEMMA DueFalls ==
    ASSUME SessShape, NEW c \in Conn, Steady(c), Listens(c), ServerGives(c), Taken(c)
    PROVE  /\ toServer[c].type = "open" => Due(c)' < Due(c)
           /\ toServer[c].type = "auth" => Due(c)' < Due(c)
           /\ toServer[c].type \in {"upload", "extend"} => Due(c)' < Due(c)
           /\ toServer[c].type # "none" => Due(c)' <= Due(c)
<1>1. at' = at /\ toServer'[c].type = "none"
  BY ServerLeaves DEF Taken, Silent, Frame, SessShape, LinesTyped
<1>2. at[c] = "opening" => toServer[c].type \in {"open", "none"}
  BY DEF Steady, Asked
<1>3. at[c] = "authing" => toServer[c].type \in {"auth", "none"}
  BY DEF Steady, Asked
<1>4. toServer[c].type \in {"none", "open", "auth", "upload", "extend", "list", "ack"}
  BY DEF SessShape, LinesTyped
<1>5. Due(c)' = IF at[c] = "opening" THEN 2 ELSE IF at[c] = "authing" THEN 1 ELSE 0
  BY <1>1 DEF Due
<1>6. CASE toServer[c].type = "open"
  <2>1. Due(c) = 3
    BY <1>6 DEF Due
  <2> QED BY <1>5, <1>6, <2>1
<1>7. CASE toServer[c].type = "auth"
  <2>1. Due(c) = 2
    BY <1>7 DEF Due
  <2> QED BY <1>2, <1>5, <1>7, <2>1
<1>8. CASE toServer[c].type \in {"upload", "extend"}
  <2>1. Due(c) = 1
    BY <1>8 DEF Due
  <2> QED BY <1>2, <1>3, <1>5, <1>8, <2>1
<1>9. CASE toServer[c].type \in {"list", "ack"}
  <2>1. Due(c) = 0
    BY <1>9 DEF Due
  <2> QED BY <1>2, <1>3, <1>5, <1>9, <2>1
<1> QED BY <1>4, <1>6, <1>7, <1>8, <1>9

LEMMA LoginBounded ==
    ASSUME ConnsSteady, NEW c \in Conn, \A e \in Conn : Bounded(e), StoreBounded,
           ServeOpen(c) \/ RefuseAuth(c) \/ ServeAuth(c)
    PROVE  ServerStays(c) /\ StoreBounded'
<1>0. SessShape /\ Steady(c) /\ ServerGives(c) /\ Listens(c) /\ Taken(c) /\ OwnerOf[c] \in Devices /\ NoId \in Ids
  BY LoginServed, OwnerIsDevice DEF ConnsSteady, ServeOpen, RefuseAuth, ServeAuth, Ids
<1>1. /\ challenge \in [Devices -> Nat] /\ opNonce \in [Devices -> Nat] /\ issued \in Nat
      /\ \A d \in Devices : challenge[d] <= issued /\ opNonce[d] <= issued
      /\ over \subseteq 0..issued
  BY <1>0 DEF SessShape, LinesTyped, StoreBounded
<1>2. \A t \in {"challenge", "ready", "error"}, n \in Nat : Frame(t, n, NoId) \in Frames /\ Frame(t, n, NoId).nonce = n
  BY <1>0, FrameIsFrame DEF Frame
<1>3. CASE ServeOpen(c)
  <2>1. issued' = issued + 1 /\ UNCHANGED <<over, queued, connects, mishaps>>
    BY <1>3 DEF ServeOpen
  <2>2. \A d \in Devices : challenge'[d] \in {0, challenge[d], issued + 1} /\ opNonce'[d] \in {0, opNonce[d]}
    BY <1>1, <1>3 DEF ServeOpen, Issued, Purged
  <2>3. StoreBounded'
    BY <1>1, <2>1, <2>2 DEF StoreBounded
  <2>4. Due(c)' < Due(c)
    BY <1>0, <1>3, DueFalls DEF ServeOpen
  <2>5. Answer(c, Frame("challenge", issued + 1, NoId))
    BY <1>3 DEF ServeOpen
  <2>6. ServerStays(c)
    BY <1>0, <1>1, <1>2, <2>1, <2>4, <2>5, ServedBounded
  <2> QED BY <2>3, <2>6
<1>4. CASE RefuseAuth(c)
  <2>1. UNCHANGED <<issued, opNonce, over, queued, connects, mishaps>>
    BY <1>4 DEF RefuseAuth
  <2>2. \A d \in Devices : challenge'[d] \in {0, challenge[d]}
    BY <1>1, <1>4 DEF RefuseAuth
  <2>3. StoreBounded'
    BY <1>1, <2>1, <2>2 DEF StoreBounded
  <2>4. Due(c)' <= Due(c)
    BY <1>0, <1>4, DueFalls DEF RefuseAuth
  <2>5. Answer(c, Frame("error", 0, NoId))
    BY <1>4 DEF RefuseAuth
  <2>6. ServerStays(c)
    BY <1>0, <1>1, <1>2, <2>1, <2>4, <2>5, ServedBounded
  <2> QED BY <2>3, <2>6
<1>5. CASE ServeAuth(c)
  <2>1. issued' = issued + 1 /\ UNCHANGED <<over, queued, connects, mishaps>>
    BY <1>5 DEF ServeAuth, Ready
  <2>2. \A d \in Devices : challenge'[d] \in {0, challenge[d]} /\ opNonce'[d] \in {issued + 1, opNonce[d]}
    BY <1>1, <1>5 DEF ServeAuth, Ready, Issued
  <2>3. StoreBounded'
    BY <1>1, <2>1, <2>2 DEF StoreBounded
  <2>4. Due(c)' < Due(c)
    BY <1>0, <1>5, DueFalls DEF ServeAuth
  <2>5. Answer(c, Frame("ready", issued + 1, NoId))
    BY <1>5 DEF ServeAuth
  <2>6. ServerStays(c)
    BY <1>0, <1>1, <1>2, <2>1, <2>4, <2>5, ServedBounded
  <2> QED BY <2>3, <2>6
<1> QED BY <1>3, <1>4, <1>5

LEMMA RequestBounded ==
    ASSUME ConnsSteady, NEW c \in Conn, \A e \in Conn : Bounded(e), StoreBounded,
           RefuseOp(c) \/ ServeUpload(c) \/ ServeExtend(c) \/ ServeList(c) \/ ServeInboxAck(c)
    PROVE  ServerStays(c) /\ StoreBounded'
<1>0. SessShape /\ Steady(c) /\ ServerGives(c) /\ Listens(c) /\ Taken(c) /\ OwnerOf[c] \in Devices /\ NoId \in Ids
  BY RequestServed, OwnerIsDevice DEF ConnsSteady, RefuseOp, ServeUpload, ServeExtend, ServeList, ServeInboxAck, Ids
<1>1. /\ challenge \in [Devices -> Nat] /\ opNonce \in [Devices -> Nat] /\ issued \in Nat
      /\ \A d \in Devices : challenge[d] <= issued /\ opNonce[d] <= issued
      /\ over \subseteq 0..issued /\ queued \subseteq Mail
  BY <1>0 DEF SessShape, LinesTyped, StoreBounded
<1>2. \A t \in {"ok", "error"}, n \in Nat : Frame(t, n, NoId) \in Frames /\ Frame(t, n, NoId).nonce = n
  BY <1>0, FrameIsFrame DEF Frame
<1>3. CASE RefuseOp(c)
  <2>1. UNCHANGED <<issued, challenge, over, queued, connects, mishaps>>
    BY <1>3 DEF RefuseOp
  <2>2. \A d \in Devices : opNonce'[d] \in {0, opNonce[d]}
    BY <1>1, <1>3 DEF RefuseOp
  <2>3. StoreBounded'
    BY <1>1, <2>1, <2>2 DEF StoreBounded
  <2>4. Due(c)' <= Due(c)
    BY <1>0, <1>3, DueFalls DEF RefuseOp
  <2>5. Answer(c, Frame("error", 0, NoId))
    BY <1>3 DEF RefuseOp
  <2>6. ServerStays(c)
    BY <1>0, <1>1, <1>2, <2>1, <2>4, <2>5, ServedBounded
  <2> QED BY <2>3, <2>6
<1>4. CASE ServeUpload(c) \/ ServeExtend(c)
  <2>1. issued' = issued + 1 /\ UNCHANGED <<challenge, over, connects, mishaps>>
    BY <1>4 DEF ServeUpload, ServeExtend, UsesNonce
  <2>2. \A d \in Devices : opNonce'[d] \in {issued + 1, opNonce[d]}
    BY <1>1, <1>4 DEF ServeUpload, ServeExtend, UsesNonce, Issued
  <2>3. queued' \subseteq Mail
    BY <1>1, <1>4 DEF ServeUpload, ServeExtend, Bounded
  <2>4. StoreBounded'
    BY <1>1, <2>1, <2>2, <2>3 DEF StoreBounded
  <2>5. Due(c)' < Due(c)
    BY <1>0, <1>4, DueFalls DEF ServeUpload, ServeExtend
  <2>6. \E f \in Frames : Answer(c, f) /\ f.nonce <= issued'
    <3>1. Answer(c, Frame("ok", issued + 1, NoId)) \/ Answer(c, Frame("error", 0, NoId))
      BY <1>4 DEF ServeUpload, ServeExtend
    <3> QED BY <1>1, <1>2, <2>1, <3>1
  <2>7. ServerStays(c)
    BY <1>0, <1>1, <2>1, <2>5, <2>6, ServedBounded
  <2> QED BY <2>4, <2>7
<1>5. CASE ServeList(c) \/ ServeInboxAck(c)
  <2>1. UNCHANGED <<issued, challenge, opNonce, over, connects, mishaps>>
    BY <1>5 DEF ServeList, ServeInboxAck, storeVars
  <2>2. queued' \subseteq Mail
    BY <1>1, <1>5 DEF ServeList, ServeInboxAck
  <2>3. StoreBounded'
    BY <1>1, <2>1, <2>2 DEF StoreBounded
  <2>4. Due(c)' <= Due(c)
    BY <1>0, <1>5, DueFalls DEF ServeList, ServeInboxAck
  <2>5. \E f \in Frames : Answer(c, f) /\ f.nonce <= issued'
    <3>1. Answer(c, Frame("ok", 0, NoId)) \/ Answer(c, Frame("error", 0, NoId))
      BY <1>5 DEF ServeList, ServeInboxAck
    <3> QED BY <1>1, <1>2, <2>1, <3>1
  <2>6. ServerStays(c)
    BY <1>0, <1>1, <2>1, <2>4, <2>5, ServedBounded
  <2> QED BY <2>3, <2>6
<1> QED BY <1>3, <1>4, <1>5

SessionsBounded ==
    ConnsSteady /\ StoreBounded /\ NoncesPaid /\ \A c \in Conn : Bounded(c)

\* A client: its own connection is bounded, the others do not change.
LEMMA ClientBounded ==
    ASSUME SessionsBounded, NEW c \in Conn, ClientAction(c)
    PROVE  StoreBounded' /\ NoncesPaid' /\ \A e \in Conn : Bounded(e)'
<1>0. SessShape /\ Steady(c) /\ Bounded(c) /\ ClientGives(c) /\ issued \in Nat /\ MaxConnects \in Nat /\ MaxMishaps \in Nat
      /\ connects \in Nat /\ mishaps \in Nat
  BY ClientSteady, DeliverySessionsAssumption DEF SessionsBounded, ConnsSteady, SessShape, LinesTyped, StoreBounded
<1>1. UNCHANGED <<challenge, opNonce, issued, over, queued>>
  BY DEF ClientAction, Connect, ReadChallenge, ReadReady, ReadOk, ReadError, KeepFrame, HandlePush,
         DropAnswer, LineBreaks, storeVars
<1>2. /\ connects' = connects \/ (connects < MaxConnects /\ connects' = connects + 1)
      /\ mishaps' = mishaps \/ (mishaps < MaxMishaps /\ mishaps' = mishaps + 1)
  BY DEF ClientAction, Connect, ReadChallenge, ReadReady, ReadOk, ReadError, KeepFrame, HandlePush,
         DropAnswer, LineBreaks, Mishap
<1>3. StoreBounded'
  <2>1. connects' \in 0..MaxConnects /\ mishaps' \in 0..MaxMishaps
    BY <1>0, <1>2 DEF SessionsBounded, StoreBounded
  <2> QED BY <1>1, <2>1 DEF SessionsBounded, StoreBounded
<1>4. Bounded(c)' /\ \A e \in Conn \ {c} : waited'[e] = waited[e]
  BY <1>0, ConnectBounded, ChallengeBounded, ReadyBounded, AnswerEndsBounded, KeepFrameBounded,
     HandledBounded, DroppedBounded DEF ClientAction, ClientStays
<1>5. \A e \in Conn \ {c} : Bounded(e)'
  BY <1>0, <1>1, <1>4 DEF SessionsBounded, Bounded, Waits, ClientGives, Others
<1>6. NoncesPaid'
  <2>1. CASE Connect(c)
    BY <1>0, <2>1, TicketsBought DEF SessionsBounded
  <2>2. CASE ~Connect(c)
    <3>1. Due(c)' <= Due(c)
      BY <1>0, <2>2, ChallengeBounded, ReadyBounded, AnswerEndsBounded, KeepFrameBounded,
         HandledBounded, DroppedBounded DEF ClientAction, ClientStays
    <3>2. ASSUME NEW e \in Conn \ {c}
          PROVE  Due(e)' <= Due(e)
      <4>1. Due(e)' = Due(e) /\ Due(e) \in 0..3
        BY <1>0, DueIs DEF ClientGives, Others, Due
      <4> QED BY <4>1
    <3>3. connects' = connects
      BY <2>2 DEF ClientAction, ReadChallenge, ReadReady, ReadOk, ReadError, KeepFrame, HandlePush,
                  DropAnswer, LineBreaks
    <3> QED BY <1>0, <1>1, <3>1, <3>2, <3>3, TicketsUsed DEF SessionsBounded
  <2> QED BY <2>1, <2>2
<1> QED BY <1>3, <1>4, <1>5, <1>6

LEMMA ServerBounded ==
    ASSUME SessionsBounded, NEW c \in Conn, ServerAction(c)
    PROVE  StoreBounded' /\ NoncesPaid' /\ \A e \in Conn : Bounded(e)'
<1>0. ConnsSteady /\ StoreBounded /\ issued \in Nat /\ connects \in Nat /\ NoncesPaid /\ \A e \in Conn : Bounded(e)
  BY DEF SessionsBounded, ConnsSteady, SessShape, LinesTyped, StoreBounded
<1>1. connects' = connects
  BY DEF ServerAction, ServeOpen, RefuseAuth, ServeAuth, DeliverPending, RefuseOp, ServeUpload, ServeExtend,
         ServeList, ServeInboxAck
<1>2. CASE ServerStays(c) /\ StoreBounded'
  <2>0. Due(c) \in 0..3 /\ Due(c)' \in 0..3
    BY DEF Due
  <2>1. NoncesPaid'
    <3>1. \A e \in Conn : Due(e)' <= Due(e)
      BY <1>2, <2>0 DEF ServerStays
    <3> QED BY <1>0, <1>1, <1>2, <3>1, TicketsUsed DEF ServerStays
  <2> QED BY <1>2, <2>1 DEF ServerStays
<1>3. CASE DeliverPending(c)
  <2>1. UNCHANGED <<challenge, opNonce, issued, over, queued, connects, mishaps, answers, toServer, at, waited>>
    BY <1>3 DEF DeliverPending, storeVars, clientVars
  <2> QED BY <1>0, <2>1 DEF StoreBounded, NoncesPaid, Tickets, Due, Bounded, Waits
<1> QED BY <1>0, <1>2, <1>3, LoginBounded, RequestBounded DEF ServerAction

LEMMA EndBounded ==
    ASSUME SessionsBounded, NEW c \in Conn, SocketEnds(c) \/ NonceExpires(c)
    PROVE  StoreBounded' /\ NoncesPaid' /\ \A e \in Conn : Bounded(e)'
<1>0. /\ SessShape /\ Steady(c) /\ issued \in Nat /\ connects \in Nat /\ mishaps \in Nat /\ MaxMishaps \in Nat
      /\ \A e \in Conn : toServer[e].nonce \in Nat
  BY DeliverySessionsAssumption DEF SessionsBounded, ConnsSteady, SessShape, LinesTyped, StoreBounded
<1>1. CASE SocketEnds(c)
  <2>1. /\ UNCHANGED <<challenge, opNonce, issued, over, queued, connects, mishaps, answers, at, waited>>
        /\ line[c] = "down" /\ toServer'[c].type = "none" /\ toServer'[c].nonce = 0
        /\ \A e \in Conn \ {c} : toServer'[e] = toServer[e]
    BY <1>0, <1>1 DEF SocketEnds, Taken, Silent, Frame, storeVars, clientVars, SessShape, LinesTyped
  <2>2. StoreBounded'
    BY <2>1 DEF SessionsBounded, StoreBounded
  <2>3. \A e \in Conn : Bounded(e)'
    BY <1>0, <2>1 DEF SessionsBounded, Bounded, Waits
  <2>4. Due(c)' = 0 /\ Due(c) \in 0..3
    BY <1>0, <2>1, DueIs DEF Due, Steady, Placed
  <2>5. ASSUME NEW e \in Conn \ {c}
        PROVE  Due(e)' <= Due(e)
    <3>1. Due(e)' = Due(e) /\ Due(e) \in 0..3
      BY <2>1, DueIs DEF Due
    <3> QED BY <3>1
  <2>6. NoncesPaid'
    BY <1>0, <2>1, <2>4, <2>5, TicketsUsed DEF SessionsBounded
  <2> QED BY <2>2, <2>3, <2>6
<1>2. CASE NonceExpires(c)
  <2>1. /\ UNCHANGED <<challenge, opNonce, issued, queued, connects, answers, toServer, at, waited>>
        /\ over' = over \cup {toServer[c].nonce} /\ mishaps < MaxMishaps /\ mishaps' = mishaps + 1
    BY <1>2 DEF NonceExpires, Mishap, socketVars, clientVars
  <2>2. toServer[c].nonce \in 0..issued
    BY <1>0 DEF SessionsBounded, Bounded
  <2>3. mishaps' \in 0..MaxMishaps
    BY <1>0, <2>1
  <2> QED BY <2>1, <2>2, <2>3 DEF SessionsBounded, StoreBounded, NoncesPaid, Tickets, Due, Bounded, Waits
<1> QED BY <1>1, <1>2

LEMMA StartBounded == SessionsInit => SessionsBounded
<1> SUFFICES ASSUME SessionsInit PROVE SessionsBounded
  OBVIOUS
<1>1. ConnsSteady
  BY StartSteady
<1>2. WaitLimit \in Nat \ {0} /\ MaxConnects \in Nat /\ MaxMishaps \in Nat
  BY DeliverySessionsAssumption
<1>3. StoreBounded
  BY <1>2 DEF SessionsInit, StoreBounded, Devices
<1>4. \A c \in Conn : Bounded(c) /\ Due(c) = 0
  BY <1>2 DEF SessionsInit, Bounded, Waits, Due, Silent, Frame
<1>5. NoncesPaid
  <2>1. Tickets = {}
    BY <1>4 DEF Tickets
  <2> QED BY <2>1, FS_EmptySet DEF NoncesPaid, SessionsInit
<1> QED BY <1>1, <1>3, <1>4, <1>5 DEF SessionsBounded

LEMMA StepsBounded == SessionsBounded /\ [SessionsNext]_sessionVars => SessionsBounded'
<1> SUFFICES ASSUME SessionsBounded, [SessionsNext]_sessionVars
             PROVE  SessionsBounded'
  OBVIOUS
<1>1. CASE SessionsNext
  <2>1. ConnsSteady'
    BY <1>1, StepsSteady DEF SessionsBounded
  <2>2. PICK c \in Conn : ClientAction(c) \/ ServerAction(c) \/ SocketEnds(c) \/ NonceExpires(c)
    BY <1>1, StepIs
  <2>3. StoreBounded' /\ NoncesPaid' /\ \A e \in Conn : Bounded(e)'
    BY <2>2, ClientBounded, ServerBounded, EndBounded
  <2> QED BY <2>1, <2>3 DEF SessionsBounded
<1>2. CASE UNCHANGED sessionVars
  <2>1. SessShape'
    BY <1>2 DEF sessionVars, storeVars, socketVars, clientVars, SessionsBounded, ConnsSteady, SessShape, LinesTyped, FramesTyped
  <2>2. \A e \in Conn : Steady(e)'
    BY <1>2 DEF sessionVars, storeVars, socketVars, clientVars, SessionsBounded, ConnsSteady, Steady, Placed, Numbered, Asked
  <2>3. StoreBounded' /\ NoncesPaid' /\ \A e \in Conn : Bounded(e)'
    BY <1>2 DEF sessionVars, storeVars, socketVars, clientVars, SessionsBounded, StoreBounded, NoncesPaid, Tickets, Due, Bounded, Waits
  <2> QED BY <2>1, <2>2, <2>3 DEF SessionsBounded, ConnsSteady
<1> QED BY <1>1, <1>2

(* The sessions keep their types and bounds: the server issues at most     *)
(* three nonces per connection, a client reads at most WaitLimit frames    *)
(* for one answer, and what is stored are messages that were uploaded      *)
(* (issue_session, issue_op_nonce, recv_until_type).                       *)
THEOREM SessionsTypeCorrect == SessionsSpec => []SessionsTypeOK
<1>1. SessionsBounded => SessionsTypeOK
  <2> SUFFICES ASSUME SessionsBounded PROVE SessionsTypeOK
    OBVIOUS
  <2>1. WaitLimit \in Nat /\ MaxConnects \in Nat /\ MaxMishaps \in Nat
    BY DeliverySessionsAssumption
  <2>2. /\ SessShape /\ LinesTyped /\ FramesTyped /\ issued \in Nat /\ connects \in Nat /\ connects <= MaxConnects
        /\ IsFiniteSet(Tickets) /\ Cardinality(Tickets) \in Nat /\ issued + Cardinality(Tickets) <= 3 * connects
    BY <2>1, FS_CardinalityType DEF SessionsBounded, ConnsSteady, SessShape, LinesTyped, StoreBounded, NoncesPaid
  <2>3. issued <= 3 * MaxConnects /\ 3 * MaxConnects \in Nat
    BY <2>1, <2>2
  <2>4. \A n \in Nat : n <= issued => n \in Nonce
    BY <2>2, <2>3 DEF Nonce
  <2>5. /\ issued \in Nonce /\ over \subseteq Nonce
        /\ challenge \in [{Writer, Reader} -> Nonce] /\ opNonce \in [{Writer, Reader} -> Nonce]
    <3>1. issued \in Nonce
      BY <2>2, <2>4
    <3>2. over \subseteq Nonce
      BY <2>2, <2>4 DEF SessionsBounded, StoreBounded
    <3>3. challenge \in [{Writer, Reader} -> Nonce] /\ opNonce \in [{Writer, Reader} -> Nonce]
      BY <2>2, <2>4 DEF SessionsBounded, StoreBounded, LinesTyped, Devices
    <3> QED BY <3>1, <3>2, <3>3
  <2>6. toServer \in [Conn -> ClientFrame]
    <3>1. \A c \in Conn : toServer[c].nonce \in Nonce
      BY <2>2, <2>4 DEF SessionsBounded, Bounded, LinesTyped
    <3> QED BY <2>2, <3>1 DEF LinesTyped, ClientFrame, Ids
  <2>7. waited \in [Conn -> 0..WaitLimit]
    BY <2>1, <2>2 DEF SessionsBounded, Bounded, FramesTyped
  <2> QED BY <2>2, <2>5, <2>6, <2>7 DEF SessionsTypeOK, LinesTyped, FramesTyped, SessionsBounded, StoreBounded
<1> QED BY <1>1, StartBounded, StepsBounded, PTL DEF SessionsSpec

-----------------------------------------------------------------------------
(* Streams: a call that the user ends is cut off.                          *)

StartOf(s) == [do |-> "start", stream |-> s]
StopOf(s) == [do |-> "stop", stream |-> s]

LEMMA OrdersAppended ==
    ASSUME NEW A, NEW q \in Seq(A), NEW os \in Seq(A)
    PROVE  /\ q \o os \in Seq(A) /\ Len(q \o os) = Len(q) + Len(os)
           /\ \A i \in 1..Len(q) : (q \o os)[i] = q[i]
           /\ \A i \in 1..Len(os) : (q \o os)[Len(q) + i] = os[i]
  OBVIOUS

LEMMA SmallRanges ==
    /\ \A n : n = 2 => 1..n = {1, 2}
    /\ \A n : n = 4 => 1..n = {1, 2, 3, 4}
    /\ \A n : n = 1 => 1..n = {1}
  OBVIOUS

LEMMA Streams ==
    /\ \A c \in MediaCall : Voice(c) \in Stream /\ Video(c) \in Stream
                            /\ Voice(c).call = c /\ Video(c).call = c
    /\ \A s \in Stream : s = Voice(s.call) \/ s = Video(s.call)
    /\ \A s \in Stream : StartOf(s) \in StreamOrder /\ StopOf(s) \in StreamOrder
  BY DEF Voice, Video, Stream, StartOf, StopOf, StreamOrder

LEMMA OrderInQueue ==
    ASSUME NEW q \in Seq(StreamOrder), NEW i \in 1..Len(q)
    PROVE  q[i] \in StreamOrder /\ q[i].stream \in Stream /\ q[i].stream.call \in MediaCall
<1>1. q[i] \in StreamOrder
  OBVIOUS
<1> QED BY <1>1 DEF StreamOrder, Stream

LEMMA StopsOfCall ==
    ASSUME NEW c \in MediaCall
    PROVE  /\ Stops(c) \in Seq(StreamOrder) /\ Len(Stops(c)) = 2
           /\ Stops(c)[1] = StopOf(Voice(c)) /\ Stops(c)[2] = StopOf(Video(c))
<1>1. Stops(c) = <<StopOf(Voice(c)), StopOf(Video(c))>>
  BY DEF Stops, StopOf
<1>2. StopOf(Voice(c)) \in StreamOrder /\ StopOf(Video(c)) \in StreamOrder
  BY Streams
<1> QED BY <1>1, <1>2

\* What end_call posts for the call it names and that of the snapshot.
StopsOfBoth(c, d) == Stops(c) \o (IF d = NoMedia THEN <<>> ELSE Stops(d))

LEMMA StopsPosted ==
    ASSUME NEW c \in MediaCall, NEW d \in MediaCall \union {NoMedia}
    PROVE  /\ StopsOfBoth(c, d) \in Seq(StreamOrder)
           /\ \A i \in 1..Len(StopsOfBoth(c, d)) : StopsOfBoth(c, d)[i].do = "stop"
           /\ \A s \in Stream : s.call \in {c, d} \ {NoMedia}
                  => \E i \in 1..Len(StopsOfBoth(c, d)) : StopsOfBoth(c, d)[i] = StopOf(s)
<1> DEFINE os == StopsOfBoth(c, d)
<1>o. os = Stops(c) \o (IF d = NoMedia THEN <<>> ELSE Stops(d))
  BY DEF StopsOfBoth
<1> DEFINE Goal == /\ os \in Seq(StreamOrder)
                   /\ \A i \in 1..Len(os) : os[i].do = "stop"
                   /\ \A s \in Stream : s.call \in {c, d} \ {NoMedia}
                          => \E i \in 1..Len(os) : os[i] = StopOf(s)
<1> HIDE DEF os
<1>1. /\ Stops(c) \in Seq(StreamOrder) /\ Len(Stops(c)) = 2
      /\ Stops(c)[1] = StopOf(Voice(c)) /\ Stops(c)[2] = StopOf(Video(c))
  BY StopsOfCall
<1>s. \A s \in Stream : StopOf(s).do = "stop"
  BY DEF StopOf
<1>2. ASSUME d = NoMedia PROVE Goal
  <2>1. os = Stops(c)
    BY <1>1, <1>2, <1>o
  <2>2. /\ os \in Seq(StreamOrder) /\ Len(os) = 2
        /\ os[1] = StopOf(Voice(c)) /\ os[2] = StopOf(Video(c))
    BY <1>1, <2>1
  <2>3. os[1].do = "stop" /\ os[2].do = "stop"
    BY <1>s, <2>2, Streams
  <2>4. \A i \in 1..Len(os) : i = 1 \/ i = 2
    BY <2>2
  <2>5. \A s \in Stream : s.call = c => os[1] = StopOf(s) \/ os[2] = StopOf(s)
    BY <2>2, Streams
  <2>6. 1 \in 1..Len(os) /\ 2 \in 1..Len(os)
    BY <2>2, SmallRanges
  <2> QED BY <1>2, <2>2, <2>3, <2>4, <2>5, <2>6
<1>3. ASSUME d # NoMedia PROVE Goal
  <2>0. /\ Stops(d) \in Seq(StreamOrder) /\ Len(Stops(d)) = 2
        /\ Stops(d)[1] = StopOf(Voice(d)) /\ Stops(d)[2] = StopOf(Video(d))
    BY <1>3, StopsOfCall
  <2>a. os = Stops(c) \o Stops(d)
    BY <1>3, <1>o
  <2>b. /\ os \in Seq(StreamOrder) /\ Len(os) = 4
        /\ \A i \in 1..2 : os[i] = Stops(c)[i]
        /\ \A i \in 1..2 : os[2 + i] = Stops(d)[i]
    <3>1. /\ os \in Seq(StreamOrder) /\ Len(os) = Len(Stops(c)) + Len(Stops(d))
          /\ \A i \in 1..Len(Stops(c)) : os[i] = Stops(c)[i]
          /\ \A i \in 1..Len(Stops(d)) : os[Len(Stops(c)) + i] = Stops(d)[i]
      BY <1>1, <2>0, <2>a, OrdersAppended
    <3>2. 2 + 2 = 4
      OBVIOUS
    <3> QED BY <1>1, <2>0, <3>1, <3>2
  <2>1. /\ os[1] = StopOf(Voice(c)) /\ os[2] = StopOf(Video(c))
        /\ os[3] = StopOf(Voice(d)) /\ os[4] = StopOf(Video(d))
    <3>1. 2 + 1 = 3 /\ 2 + 2 = 4 /\ 1 \in 1..2 /\ 2 \in 1..2
      OBVIOUS
    <3> QED BY <1>1, <2>0, <2>b, <3>1
  <2>2. os[1].do = "stop" /\ os[2].do = "stop" /\ os[3].do = "stop" /\ os[4].do = "stop"
    <3>1. /\ Voice(c) \in Stream /\ Video(c) \in Stream
          /\ Voice(d) \in Stream /\ Video(d) \in Stream
      BY <1>3, Streams
    <3> QED BY <1>s, <2>1, <3>1
  <2>3. \A s \in Stream : s.call = c => os[1] = StopOf(s) \/ os[2] = StopOf(s)
    BY <2>1, Streams
  <2>4. \A s \in Stream : s.call = d => os[3] = StopOf(s) \/ os[4] = StopOf(s)
    BY <2>1, Streams
  <2>5. \A i \in 1..Len(os) : i \in {1, 2, 3, 4}
    BY <2>b
  <2>6. 1..Len(os) = {1, 2, 3, 4}
    BY <2>b, SmallRanges
  <2>7. \A i \in 1..Len(os) : os[i].do = "stop"
    BY <2>2, <2>5
  <2> QED BY <1>3, <2>b, <2>3, <2>4, <2>6, <2>7
<1>4. Goal
  BY <1>2, <1>3
<1> QED BY <1>4 DEF os

\* What start_voice_call, start_video_call and accept_incoming_call post.
LEMMA StartsPosted ==
    ASSUME NEW c \in MediaCall, NEW os,
           os = Starts(<<Voice(c)>>) \/ os = Starts(<<Voice(c), Video(c)>>)
    PROVE  os \in Seq(StreamOrder) /\ \A i \in 1..Len(os) : os[i].do = "start" /\ os[i].stream.call = c
<1>1. StartOf(Voice(c)) \in StreamOrder /\ StartOf(Video(c)) \in StreamOrder
  BY Streams
<1>2. os = <<StartOf(Voice(c))>> \/ os = <<StartOf(Voice(c)), StartOf(Video(c))>>
  BY DEF Starts, StartOf
<1>3. \A s \in Stream : StartOf(s).do = "start" /\ StartOf(s).stream = s
  BY DEF StartOf
<1>4. CASE os = <<StartOf(Voice(c))>>
  <2>1. os \in Seq(StreamOrder) /\ Len(os) = 1 /\ os[1] = StartOf(Voice(c))
    BY <1>1, <1>4
  <2>2. 1..Len(os) = {1}
    BY <2>1, SmallRanges
  <2> QED BY <1>3, <2>1, <2>2, Streams
<1>5. CASE os = <<StartOf(Voice(c)), StartOf(Video(c))>>
  <2>1. /\ os \in Seq(StreamOrder) /\ Len(os) = 2
        /\ os[1] = StartOf(Voice(c)) /\ os[2] = StartOf(Video(c))
    BY <1>1, <1>5
  <2>2. 1..Len(os) = {1, 2}
    BY <2>1, SmallRanges
  <2> QED BY <1>3, <2>1, <2>2, Streams
<1> QED BY <1>2, <1>4, <1>5

-----------------------------------------------------------------------------
(* Media: types.                                                           *)

TypesOfCalls ==
    /\ callPhase \in [MediaCall -> CallPhase]
    /\ current \in MediaCall \union {NoMedia} /\ snapshot \in MediaCall \union {NoMedia}
    /\ orders \in Seq(StreamOrder) /\ ended \subseteq MediaCall

TypesOfStreams ==
    /\ entry \subseteq Stream /\ halted \subseteq Stream /\ capture \subseteq Stream
    /\ device \subseteq Stream /\ sink \subseteq Stream /\ device \subseteq capture
    /\ loop \in [Stream -> LoopPhase]
    /\ sealed \in [Stream -> 0..MaxSealed]
    /\ linked \in BOOLEAN /\ node \in BOOLEAN /\ breaks \in 0..MaxBreaks

LEMMA MediaTypesInParts == MediaTypeOK <=> TypesOfCalls /\ TypesOfStreams
  BY DEF MediaTypeOK, TypesOfCalls, TypesOfStreams

LEMMA MediaTypesInPartsNext == MediaTypeOK' <=> TypesOfCalls' /\ TypesOfStreams'
  BY DEF MediaTypeOK, TypesOfCalls, TypesOfStreams

\* A stop is under way for every stream of a call that the user has ended and
\* that has an entry, and behind every order to start one; a call that is
\* ended is gone for good, and only calls the device has seen are named.
Cut ==
    /\ \A c \in ended : callPhase[c] = "gone"
    /\ current # NoMedia => callPhase[current] # "new"
    /\ snapshot # NoMedia => callPhase[snapshot] # "new"
    /\ \A i \in 1..Len(orders) :
          orders[i].do = "start" => callPhase[orders[i].stream.call] # "new"
    /\ \A s \in Stream : s.call \in ended =>
          /\ s \in entry => \E j \in 1..Len(orders) : orders[j] = StopOf(s)
          /\ \A i \in 1..Len(orders) : orders[i] = StartOf(s)
                => \E j \in (i + 1)..Len(orders) : orders[j] = StopOf(s)

LEMMA NamedIsSeen ==
    ASSUME TypesOfCalls, Cut, NEW c \in NamedCall
    PROVE  c \in MediaCall /\ callPhase[c] # "new"
  BY DEF NamedCall, TypesOfCalls, Cut

\* The user dials or answers.
LEMMA StartKeepsCut ==
    ASSUME MediaTypeOK, Cut, NEW c \in MediaCall, DialMedia(c) \/ AnswerMedia(c)
    PROVE  MediaTypeOK' /\ Cut'
<1>0. TypesOfCalls /\ TypesOfStreams
  BY MediaTypesInParts
<1>1. /\ callPhase[c] \in {"new", "incoming"} /\ current' = c
      /\ UNCHANGED <<snapshot, entry, ended>>
  BY DEF DialMedia, AnswerMedia, tasks
<1>2. PICK ph \in {"outgoing", "connected"} : callPhase' = [callPhase EXCEPT ![c] = ph]
  BY DEF DialMedia, AnswerMedia
<1>3. /\ callPhase' \in [MediaCall -> CallPhase] /\ callPhase'[c] # "new"
      /\ \A d \in MediaCall \ {c} : callPhase'[d] = callPhase[d]
  BY <1>0, <1>2 DEF TypesOfCalls, CallPhase
<1>4. PICK os : /\ orders' = orders \o os
                /\ os = Starts(<<Voice(c)>>) \/ os = Starts(<<Voice(c), Video(c)>>)
  BY DEF DialMedia, AnswerMedia, Post
<1>5. os \in Seq(StreamOrder) /\ \A i \in 1..Len(os) : os[i].do = "start" /\ os[i].stream.call = c
  BY <1>4, StartsPosted
<1>6. /\ orders' \in Seq(StreamOrder) /\ Len(orders') = Len(orders) + Len(os)
      /\ \A i \in 1..Len(orders) : orders'[i] = orders[i]
      /\ \A i \in 1..Len(os) : orders'[Len(orders) + i] = os[i]
      /\ Len(orders) \in Nat /\ Len(os) \in Nat
  BY <1>0, <1>4, <1>5, OrdersAppended DEF TypesOfCalls
<1>7. \A i \in 1..Len(orders') :
          \/ i \in 1..Len(orders) /\ orders'[i] = orders[i]
          \/ orders'[i].do = "start" /\ orders'[i].stream.call = c
  <2> SUFFICES ASSUME NEW i \in 1..Len(orders'), i \notin 1..Len(orders)
               PROVE  orders'[i].do = "start" /\ orders'[i].stream.call = c
    BY <1>6
  <2>1. i - Len(orders) \in 1..Len(os) /\ Len(orders) + (i - Len(orders)) = i
    BY <1>6
  <2> QED BY <1>5, <1>6, <2>1
<1>8. MediaTypeOK'
  <2>1. TypesOfCalls'
    BY <1>0, <1>1, <1>3, <1>6 DEF TypesOfCalls
  <2>2. TypesOfStreams'
    BY <1>0 DEF DialMedia, AnswerMedia, tasks, devices, linkState, TypesOfStreams
  <2> QED BY <2>1, <2>2, MediaTypesInPartsNext
<1>9. c \notin ended
  BY <1>1 DEF Cut
<1>10. Cut'
  <2>1. \A d \in MediaCall : callPhase[d] # "new" => callPhase'[d] # "new"
    BY <1>3
  <2>2. \A d \in ended' : callPhase'[d] = "gone"
    BY <1>0, <1>1, <1>3, <1>9 DEF Cut, TypesOfCalls
  <2>3. /\ current' # NoMedia => callPhase'[current'] # "new"
        /\ snapshot' # NoMedia => callPhase'[snapshot'] # "new"
    BY <1>0, <1>1, <1>3, <2>1 DEF Cut, TypesOfCalls
  <2>4. \A i \in 1..Len(orders) : orders[i] \in StreamOrder /\ orders[i].stream.call \in MediaCall
    BY <1>0, OrderInQueue DEF TypesOfCalls
  <2>5. \A i \in 1..Len(orders') :
            orders'[i].do = "start" => callPhase'[orders'[i].stream.call] # "new"
    BY <1>3, <1>7, <2>1, <2>4 DEF Cut
  <2>6. ASSUME NEW s \in Stream, s.call \in ended'
        PROVE  /\ s \in entry' => \E j \in 1..Len(orders') : orders'[j] = StopOf(s)
               /\ \A i \in 1..Len(orders') : orders'[i] = StartOf(s)
                     => \E j \in (i + 1)..Len(orders') : orders'[j] = StopOf(s)
    <3>1. s.call \in ended /\ s.call # c
      BY <1>1, <1>9, <2>6
    <3>2. s \in entry' => \E j \in 1..Len(orders') : orders'[j] = StopOf(s)
      BY <1>1, <1>6, <3>1 DEF Cut
    <3>3. ASSUME NEW i \in 1..Len(orders'), orders'[i] = StartOf(s)
          PROVE  \E j \in (i + 1)..Len(orders') : orders'[j] = StopOf(s)
      <4>1. i \in 1..Len(orders) /\ orders[i] = StartOf(s)
        BY <1>7, <3>1, <3>3 DEF StartOf
      <4>2. PICK j \in (i + 1)..Len(orders) : orders[j] = StopOf(s)
        BY <3>1, <4>1 DEF Cut
      <4> QED BY <1>6, <4>1, <4>2
    <3> QED BY <3>2, <3>3
  <2> QED BY <2>2, <2>3, <2>5, <2>6 DEF Cut
<1> QED BY <1>8, <1>10

\* end_call.
LEMMA EndKeepsCut ==
    ASSUME MediaTypeOK, Cut, EndMedia
    PROVE  MediaTypeOK' /\ Cut'
<1>0. TypesOfCalls /\ TypesOfStreams
  BY MediaTypesInParts
<1>1. PICK c \in NamedCall :
          /\ orders' = orders \o (Stops(c) \o (IF snapshot = NoMedia THEN <<>> ELSE Stops(snapshot)))
          /\ ended' = ended \union ({c, snapshot} \ {NoMedia})
  BY DEF EndMedia, Post
<1>2. c \in MediaCall /\ callPhase[c] # "new"
  BY <1>0, NamedIsSeen
<1>3. /\ callPhase' = Forgotten /\ current' = NoMedia /\ snapshot' = NoMedia
      /\ UNCHANGED <<tasks, devices, linkState>>
  BY DEF EndMedia
<1>4. /\ callPhase' \in [MediaCall -> CallPhase]
      /\ \A d \in MediaCall : callPhase[d] # "new" => callPhase'[d] = "gone"
  BY <1>3 DEF Forgotten, CallPhase
<1> DEFINE os == StopsOfBoth(c, snapshot)
<1>5. /\ os \in Seq(StreamOrder)
      /\ \A i \in 1..Len(os) : os[i].do = "stop"
      /\ \A s \in Stream : s.call \in {c, snapshot} \ {NoMedia}
             => \E i \in 1..Len(os) : os[i] = StopOf(s)
  BY <1>0, <1>2, StopsPosted DEF TypesOfCalls
<1>6. orders' = orders \o os
  BY <1>1 DEF StopsOfBoth
<1> HIDE DEF os
<1>7. /\ orders' \in Seq(StreamOrder) /\ Len(orders') = Len(orders) + Len(os)
      /\ \A i \in 1..Len(orders) : orders'[i] = orders[i]
      /\ \A i \in 1..Len(os) : orders'[Len(orders) + i] = os[i]
      /\ Len(orders) \in Nat /\ Len(os) \in Nat
  BY <1>0, <1>5, <1>6, OrdersAppended DEF TypesOfCalls
<1>8. \A i \in 1..Len(orders') :
          \/ i \in 1..Len(orders) /\ orders'[i] = orders[i]
          \/ orders'[i].do = "stop"
  <2> SUFFICES ASSUME NEW i \in 1..Len(orders'), i \notin 1..Len(orders)
               PROVE  orders'[i].do = "stop"
    BY <1>7
  <2>1. i - Len(orders) \in 1..Len(os) /\ Len(orders) + (i - Len(orders)) = i
    BY <1>7
  <2> QED BY <1>5, <1>7, <2>1
<1>9. MediaTypeOK'
  <2>1. TypesOfCalls'
    BY <1>0, <1>1, <1>2, <1>3, <1>4, <1>7 DEF TypesOfCalls
  <2>2. TypesOfStreams'
    BY <1>0, <1>3 DEF tasks, devices, linkState, TypesOfStreams
  <2> QED BY <2>1, <2>2, MediaTypesInPartsNext
<1>10. Cut'
  <2>1. \A d \in ended' : callPhase'[d] = "gone"
    BY <1>0, <1>1, <1>2, <1>4 DEF Cut, TypesOfCalls
  <2>2. \A i \in 1..Len(orders) : orders[i] \in StreamOrder /\ orders[i].stream.call \in MediaCall
    BY <1>0, OrderInQueue DEF TypesOfCalls
  <2>3. \A i \in 1..Len(orders') :
            orders'[i].do = "start" => callPhase'[orders'[i].stream.call] # "new"
    BY <1>4, <1>8, <2>2 DEF Cut
  <2>4. ASSUME NEW s \in Stream, s.call \in {c, snapshot} \ {NoMedia}
        PROVE  \E k \in 1..Len(os) : orders'[Len(orders) + k] = StopOf(s)
    BY <1>5, <1>7, <2>4
  <2>5. ASSUME NEW s \in Stream, s.call \in ended'
        PROVE  /\ s \in entry' => \E j \in 1..Len(orders') : orders'[j] = StopOf(s)
               /\ \A i \in 1..Len(orders') : orders'[i] = StartOf(s)
                     => \E j \in (i + 1)..Len(orders') : orders'[j] = StopOf(s)
    <3>1. CASE s.call \in {c, snapshot} \ {NoMedia}
      <4>1. PICK k \in 1..Len(os) : orders'[Len(orders) + k] = StopOf(s)
        BY <2>4, <3>1
      <4>2. Len(orders) + k \in 1..Len(orders')
        BY <1>7
      <4>3. ASSUME NEW i \in 1..Len(orders'), orders'[i] = StartOf(s)
            PROVE  Len(orders) + k \in (i + 1)..Len(orders')
        <5>1. i \in 1..Len(orders)
          BY <1>8, <4>3 DEF StartOf
        <5> QED BY <1>7, <5>1
      <4> QED BY <4>1, <4>2, <4>3
    <3>2. CASE s.call \in ended
      <4>1. s \in entry' => \E j \in 1..Len(orders') : orders'[j] = StopOf(s)
        BY <1>3, <1>7, <3>2 DEF Cut, tasks
      <4>2. ASSUME NEW i \in 1..Len(orders'), orders'[i] = StartOf(s)
            PROVE  \E j \in (i + 1)..Len(orders') : orders'[j] = StopOf(s)
        <5>1. i \in 1..Len(orders) /\ orders[i] = StartOf(s)
          BY <1>8, <4>2 DEF StartOf
        <5>2. PICK j \in (i + 1)..Len(orders) : orders[j] = StopOf(s)
          BY <3>2, <5>1 DEF Cut
        <5> QED BY <1>7, <5>1, <5>2
      <4> QED BY <4>1, <4>2
    <3> QED BY <1>1, <2>5, <3>1, <3>2
  <2> QED BY <1>3, <2>1, <2>3, <2>5 DEF Cut
<1> QED BY <1>9, <1>10

\* The worker takes the first order.
LEMMA WorkerKeepsCut ==
    ASSUME MediaTypeOK, Cut, MediaWorker
    PROVE  MediaTypeOK' /\ Cut'
<1>0. TypesOfCalls /\ TypesOfStreams
  BY MediaTypesInParts
<1>1. orders # <<>> /\ orders' = Tail(orders) /\ UNCHANGED <<callPhase, current, ended>>
  BY DEF MediaWorker, StopStream, StartStream, Owed
<1>2. /\ orders' \in Seq(StreamOrder) /\ Len(orders) \in Nat \ {0}
      /\ Len(orders') = Len(orders) - 1
      /\ \A i \in 1..Len(orders') : orders'[i] = orders[i + 1]
      /\ Head(orders) = orders[1] /\ Todo = orders[1].stream /\ orders[1] \in StreamOrder
  BY <1>0, <1>1 DEF TypesOfCalls, Todo
<1>3. Todo \in Stream /\ Todo.call \in MediaCall
  BY <1>2 DEF StreamOrder, Stream
<1>4. \/ /\ orders[1] = StopOf(Todo) /\ entry' = entry \ {Todo}
         /\ UNCHANGED <<snapshot, loop, halted, sealed, devices, linkState>>
      \/ /\ orders[1] = StartOf(Todo)
         /\ \/ UNCHANGED <<entry, loop, devices, snapshot>>
            \/ /\ entry' = entry \union {Todo} /\ snapshot' = Todo.call
               /\ loop' = [loop EXCEPT ![Todo] = "running"]
               /\ capture' = capture \union {Todo} /\ sink' = sink \union {Todo}
               /\ device' = device \/ device' = device \union {Todo}
         /\ UNCHANGED <<halted, sealed, linkState>>
  BY <1>2 DEF MediaWorker, StopStream, StartStream, Owed, StartOf, StopOf, StreamOrder
<1>5. MediaTypeOK'
  <2>1. TypesOfCalls'
    BY <1>0, <1>1, <1>2, <1>3, <1>4 DEF TypesOfCalls
  <2>2. TypesOfStreams'
    BY <1>0, <1>3, <1>4 DEF TypesOfStreams, LoopPhase, devices, linkState
  <2> QED BY <2>1, <2>2, MediaTypesInPartsNext
<1>6. Cut'
  <2>1. \A i \in 1..Len(orders') : i + 1 \in 1..Len(orders)
    BY <1>2
  <2>2. \A i \in 1..Len(orders') :
            orders'[i].do = "start" => callPhase'[orders'[i].stream.call] # "new"
    BY <1>1, <1>2, <2>1 DEF Cut
  <2>3. snapshot' # NoMedia => callPhase'[snapshot'] # "new"
    <3>1. orders[1] = StartOf(Todo) => callPhase[Todo.call] # "new"
      BY <1>2 DEF Cut, StartOf
    <3> QED BY <1>1, <1>4, <3>1 DEF Cut
  <2>4. \A s \in Stream, j \in 2..Len(orders) : orders[j] = StopOf(s)
            => \E i \in 1..Len(orders') : i = j - 1 /\ orders'[i] = StopOf(s)
    <3> SUFFICES ASSUME NEW s \in Stream, NEW j \in 2..Len(orders), orders[j] = StopOf(s)
                 PROVE  j - 1 \in 1..Len(orders') /\ orders'[j - 1] = StopOf(s)
      OBVIOUS
    <3>1. j - 1 \in 1..Len(orders') /\ (j - 1) + 1 = j
      BY <1>2
    <3> QED BY <1>2, <3>1
  <2>5. ASSUME NEW s \in Stream, s.call \in ended'
        PROVE  /\ s \in entry' => \E j \in 1..Len(orders') : orders'[j] = StopOf(s)
               /\ \A i \in 1..Len(orders') : orders'[i] = StartOf(s)
                     => \E j \in (i + 1)..Len(orders') : orders'[j] = StopOf(s)
    <3>0. s.call \in ended
      BY <1>1, <2>5
    <3>1. ASSUME s \in entry' PROVE \E j \in 1..Len(orders') : orders'[j] = StopOf(s)
      <4>1. CASE orders[1] = StartOf(s)
        <5>1. PICK j \in 2..Len(orders) : orders[j] = StopOf(s)
          BY <1>2, <3>0, <4>1 DEF Cut
        <5> QED BY <2>4, <5>1
      <4>2. CASE orders[1] # StartOf(s)
        <5>1. s \in entry /\ orders[1] # StopOf(s)
          BY <1>4, <3>1, <4>2 DEF StopOf, StartOf
        <5>2. PICK j \in 1..Len(orders) : orders[j] = StopOf(s)
          BY <3>0, <5>1 DEF Cut
        <5>3. j \in 2..Len(orders)
          BY <1>2, <5>1, <5>2
        <5> QED BY <2>4, <5>2, <5>3
      <4> QED BY <4>1, <4>2
    <3>2. ASSUME NEW i \in 1..Len(orders'), orders'[i] = StartOf(s)
          PROVE  \E j \in (i + 1)..Len(orders') : orders'[j] = StopOf(s)
      <4>1. i + 1 \in 1..Len(orders) /\ orders[i + 1] = StartOf(s)
        BY <1>2, <2>1, <3>2
      <4>2. PICK j \in (i + 2)..Len(orders) : orders[j] = StopOf(s)
        <5>1. \E j \in ((i + 1) + 1)..Len(orders) : orders[j] = StopOf(s)
          BY <3>0, <4>1 DEF Cut
        <5> QED BY <5>1
      <4>3. j \in 2..Len(orders) /\ j - 1 \in (i + 1)..Len(orders')
        BY <1>2, <4>2
      <4> QED BY <2>4, <4>2, <4>3
    <3> QED BY <3>1, <3>2
  <2> QED BY <1>1, <2>2, <2>3, <2>5 DEF Cut
<1> QED BY <1>5, <1>6

\* Signals of the peer.
LEMMA SignalKeepsCut ==
    ASSUME MediaTypeOK, Cut, NEW c \in MediaCall, PeerSignals(c) \/ PeerHangsUp(c)
    PROVE  MediaTypeOK' /\ Cut'
<1>0. TypesOfCalls /\ TypesOfStreams
  BY MediaTypesInParts
<1>1. /\ UNCHANGED <<current, orders, ended>> /\ entry' \subseteq entry
      /\ snapshot' \in {snapshot, NoMedia}
      /\ \/ callPhase' = [callPhase EXCEPT ![c] = "gone"]
         \/ callPhase[c] # "gone" /\ \E ph \in {"incoming", "connected"} : callPhase' = [callPhase EXCEPT ![c] = ph]
  BY DEF PeerSignals, PeerHangsUp, tasks
<1>2. /\ callPhase' \in [MediaCall -> CallPhase]
      /\ \A d \in MediaCall : callPhase[d] # "new" => callPhase'[d] # "new"
      /\ \A d \in MediaCall : callPhase[d] = "gone" => callPhase'[d] = "gone"
  BY <1>0, <1>1 DEF TypesOfCalls, CallPhase
<1>3. MediaTypeOK'
  <2>1. TypesOfCalls'
    BY <1>0, <1>1, <1>2 DEF TypesOfCalls
  <2>2. TypesOfStreams'
    BY <1>0, <1>1 DEF PeerSignals, PeerHangsUp, tasks, devices, linkState, TypesOfStreams
  <2> QED BY <2>1, <2>2, MediaTypesInPartsNext
<1>4. Cut'
  <2>1. \A i \in 1..Len(orders) : orders[i] \in StreamOrder /\ orders[i].stream.call \in MediaCall
    BY <1>0, OrderInQueue DEF TypesOfCalls
  <2>2. \A i \in 1..Len(orders') :
            orders'[i].do = "start" => callPhase'[orders'[i].stream.call] # "new"
    BY <1>1, <1>2, <2>1 DEF Cut
  <2>3. /\ \A d \in ended' : callPhase'[d] = "gone"
        /\ current' # NoMedia => callPhase'[current'] # "new"
        /\ snapshot' # NoMedia => callPhase'[snapshot'] # "new"
    BY <1>0, <1>1, <1>2 DEF Cut, TypesOfCalls
  <2> QED BY <1>1, <2>2, <2>3 DEF Cut
<1> QED BY <1>3, <1>4

\* The tasks of a stream, the link and the node.
LEMMA TasksKeepCut ==
    ASSUME MediaTypeOK, Cut,
           \/ \E s \in Stream : Seal(s) \/ Write(s) \/ Tasks(s) \/ SinkEnds(s)
                                \/ CameraStops(s) \/ CameraFails(s)
           \/ LinkBreaks \/ LinkBack \/ NodeStops
    PROVE  MediaTypeOK' /\ Cut'
<1>0. TypesOfCalls /\ TypesOfStreams
  BY MediaTypesInParts
<1>1. CASE NodeStops
  <2>1. /\ orders' = <<>> /\ entry' = {} /\ UNCHANGED <<callPhase, current, snapshot, ended>>
        /\ sealed' = [s \in Stream |-> 0]
    BY <1>1 DEF NodeStops
  <2>2. TypesOfCalls'
    BY <1>0, <2>1 DEF TypesOfCalls
  <2>3. TypesOfStreams'
    <3>1. sealed' \in [Stream -> 0..MaxSealed]
      BY <2>1, MediaAssumption
    <3> QED BY <1>0, <1>1, <2>1, <3>1 DEF NodeStops, devices, TypesOfStreams
  <2>4. Cut'
    BY <2>1 DEF Cut
  <2> QED BY <2>2, <2>3, <2>4, MediaTypesInPartsNext
<1>2. CASE \/ \E s \in Stream : Seal(s) \/ Write(s) \/ Tasks(s) \/ SinkEnds(s)
                                \/ CameraStops(s) \/ CameraFails(s)
           \/ LinkBreaks \/ LinkBack
  <2>1. UNCHANGED <<callPhase, current, snapshot, orders, ended, entry>>
    BY <1>2 DEF Seal, Write, Tasks, LeaveLoop, SessionOver, SinkEnds, CameraStops, CameraFails,
                LinkBreaks, LinkBack, calls, tasks
  <2>2. TypesOfCalls' /\ Cut'
    BY <1>0, <2>1 DEF TypesOfCalls, Cut
  <2>3. ASSUME NEW s \in Stream,
               Seal(s) \/ Write(s) \/ Tasks(s) \/ SinkEnds(s) \/ CameraStops(s) \/ CameraFails(s)
        PROVE  TypesOfStreams'
    <3>1. sealed' \in [Stream -> 0..MaxSealed]
      <4>1. sealed[s] \in 0..MaxSealed /\ MaxSealed \in Nat
        BY <1>0, MediaAssumption DEF TypesOfStreams
      <4>2. \/ sealed' = sealed
            \/ sealed' = [sealed EXCEPT ![s] = 0]
            \/ sealed[s] < MaxSealed /\ sealed' = [sealed EXCEPT ![s] = sealed[s] + 1]
            \/ sealed[s] > 0 /\ sealed' = [sealed EXCEPT ![s] = sealed[s] - 1]
        BY <2>3 DEF Seal, Write, Tasks, LeaveLoop, SessionOver, SinkEnds, CameraStops, CameraFails, tasks
      <4> QED BY <1>0, <4>1, <4>2 DEF TypesOfStreams
    <3>2. loop' \in [Stream -> LoopPhase]
      BY <1>0, <2>3 DEF Seal, Write, Tasks, LeaveLoop, SessionOver, SinkEnds, CameraStops, CameraFails,
                        tasks, TypesOfStreams, LoopPhase
    <3>3. /\ halted' \subseteq Stream /\ sink' \subseteq Stream
          /\ \/ UNCHANGED <<capture, device>>
             \/ capture' = capture \ {s} /\ device' = device \ {s}
          /\ UNCHANGED <<entry, linked, node, breaks>>
      BY <1>0, <2>3 DEF Seal, Write, Tasks, LeaveLoop, SessionOver, SinkEnds, CameraStops, CameraFails,
                        tasks, devices, linkState, TypesOfStreams
    <3> QED BY <1>0, <3>1, <3>2, <3>3 DEF TypesOfStreams
  <2>4. ASSUME LinkBreaks \/ LinkBack PROVE TypesOfStreams'
    <3>1. breaks' \in 0..MaxBreaks
      BY <1>0, <2>4, MediaAssumption DEF LinkBreaks, LinkBack, TypesOfStreams
    <3> QED BY <1>0, <2>4, <3>1 DEF LinkBreaks, LinkBack, tasks, devices, TypesOfStreams
  <2> QED BY <1>2, <2>2, <2>3, <2>4, MediaTypesInPartsNext
<1> QED BY <1>1, <1>2

LEMMA CutStarts == MediaInit => MediaTypeOK /\ Cut
<1> SUFFICES ASSUME MediaInit PROVE MediaTypeOK /\ Cut
  OBVIOUS
<1>1. TypesOfCalls
  BY DEF MediaInit, TypesOfCalls, CallPhase
<1>2. TypesOfStreams
  <2>1. sealed \in [Stream -> 0..MaxSealed] /\ breaks \in 0..MaxBreaks
    BY MediaAssumption DEF MediaInit
  <2> QED BY <2>1 DEF MediaInit, TypesOfStreams, LoopPhase
<1>3. Cut
  BY DEF MediaInit, Cut
<1> QED BY <1>1, <1>2, <1>3, MediaTypesInParts

LEMMA CutStays == MediaTypeOK /\ Cut /\ [MediaNext]_mediaVars => MediaTypeOK' /\ Cut'
<1> SUFFICES ASSUME MediaTypeOK, Cut, [MediaNext]_mediaVars PROVE MediaTypeOK' /\ Cut'
  OBVIOUS
<1>1. CASE UNCHANGED mediaVars
  <2>1. UNCHANGED <<callPhase, current, snapshot, orders, ended, entry, loop, halted, sealed,
                    capture, device, sink, linked, node, breaks>>
    BY <1>1 DEF mediaVars, calls, tasks, devices, linkState
  <2> QED BY <2>1 DEF MediaTypeOK, Cut
<1>2. CASE MediaNext
  BY <1>2, StartKeepsCut, EndKeepsCut, WorkerKeepsCut, SignalKeepsCut, TasksKeepCut DEF MediaNext
<1> QED BY <1>1, <1>2

\* Every state of the streams has its type.
THEOREM MediaTypeCorrect == MediaSpec => []MediaTypeOK
  BY CutStarts, CutStays, PTL DEF MediaSpec

\* A call that the user has ended is cut off: when no order about one of its
\* streams is left, the stream has no entry, in whatever order the orders of
\* several calls, the signals of the peers and the end of the node come.
THEOREM EndedCallsAreCut == MediaSpec => []EndedCallIsCut
<1>1. MediaTypeOK /\ Cut => EndedCallIsCut
  <2> SUFFICES ASSUME MediaTypeOK, Cut, NEW s \in Stream, s.call \in ended, s \in entry
               PROVE  \E i \in DOMAIN orders : orders[i].stream = s
    BY DEF EndedCallIsCut
  <2>1. PICK j \in 1..Len(orders) : orders[j] = StopOf(s)
    BY DEF Cut
  <2>2. orders \in Seq(StreamOrder)
    BY DEF MediaTypeOK
  <2> QED BY <2>1, <2>2 DEF StopOf
<1> QED BY <1>1, CutStarts, CutStays, PTL DEF MediaSpec

----------------------------------------------------------------------------
(* The three parts side by side (MCDelivery).  They share no variable, and *)
(* a step moves one of them, so a behaviour of the whole is a behaviour of *)
(* each part.                                                              *)

LEMMA PartsStart == DeliveryInit => Init /\ SessionsInit /\ MediaInit
  BY DEF DeliveryInit

LEMMA PartsStep ==
    [DeliveryNext]_partVars =>
        [Next]_vars /\ [SessionsNext]_sessionVars /\ [MediaNext]_mediaVars
<1> SUFFICES ASSUME [DeliveryNext]_partVars
             PROVE  [Next]_vars /\ [SessionsNext]_sessionVars /\ [MediaNext]_mediaVars
  OBVIOUS
<1>1. CASE InDelivery /\ Next
  BY <1>1 DEF InDelivery
<1>2. CASE InSessions /\ SessionsNext
  BY <1>2 DEF InSessions
<1>3. CASE InMedia /\ MediaNext
  BY <1>3 DEF InMedia
<1>4. CASE UNCHANGED partVars
  BY <1>4 DEF partVars
<1> QED BY <1>1, <1>2, <1>3, <1>4 DEF DeliveryNext

\* A device that delivers messages, holds its connections and runs the media
\* of its calls is each of the three, whichever part moves when.
THEOREM DeviceIsItsParts == DeliverySpec => Spec /\ SessionsSpec /\ MediaSpec
  BY PartsStart, PartsStep, PTL DEF DeliverySpec, Spec, SessionsSpec, MediaSpec

\* Every state of the whole has its type: rows, ticks and threads of messages,
\* nonces, frames and waits of connections, orders and entries of streams.
THEOREM DeliveryTypeCorrect == DeliverySpec => []DeliveryTypeOK
<1>1. DeliveryTypeOK <=> TypeOK /\ SessionsTypeOK /\ MediaTypeOK
  BY DEF DeliveryTypeOK
<1> QED BY <1>1, DeviceIsItsParts, TypeCorrect, SessionsTypeCorrect, MediaTypeCorrect, PTL

\* What the parts promise alone they promise side by side: no accepted message
\* is lost, the ticks are truthful, an ended call is cut off, only a rival has
\* a request turned down and pushes are handled in the order they were sent,
\* provided the result of an upload is saved.
THEOREM PromisesSideBySide ==
    ASSUME ~PersistFails
    PROVE  DeliverySpec => /\ []NoAcceptedMessageLost
                           /\ []TicksAreTruthful
                           /\ []EndedCallIsCut
                           /\ []OnlyRivalsRefuse
                           /\ PushesInOrder
  BY DeviceIsItsParts, AcceptedIsNotLost, TicksTellTheTruth, EndedCallsAreCut,
     RivalsAloneRefuse, PushesComeInOrder, PTL
=============================================================================
