----------------------------- MODULE CallProofs -----------------------------
(***************************************************************************)
(* Proofs about calls: the signalling between two devices (CallSystem) and *)
(* the pictures on their way (VideoFrames), for every set of calls, any    *)
(* number of lost links and any depth of the buffers.                      *)
(***************************************************************************)
EXTENDS CallSystem, VideoFrames, FiniteSetTheorems, WellFoundedInduction, TLAPS

-----------------------------------------------------------------------------
(* Signalling: two devices that dial end in one call.                      *)

\* The other device is the other one.
LEMMA TwoDevices ==
    ASSUME NEW p \in Peer
    PROVE  /\ Other(p) \in Peer /\ Other(p) # p /\ Other(Other(p)) = p
           /\ \A r \in Peer : r = p \/ r = Other(p)
<1>1. IsFiniteSet(Peer \ {p}) /\ Cardinality(Peer \ {p}) = 1
  BY CallAssumption, FS_RemoveElement
<1>2. PICK q : Peer \ {p} = {q}
  BY <1>1, FS_Singleton
<1>3. q \in Peer /\ q # p /\ Peer = {p, q}
  BY <1>2
<1>4. Other(p) = q
  BY <1>3 DEF Other
<1>5. Other(q) = p
  BY <1>3 DEF Other
<1> QED BY <1>3, <1>4, <1>5

-----------------------------------------------------------------------------
(* Signalling: types.                                                      *)

TypesOfTable ==
    /\ call \in [Peer -> Call \cup {NoCall}]
    /\ target \in [Peer -> CallId \cup {NoCall}]
    /\ media \in [Peer -> CallId \cup {NoCall}]
    /\ streams \in [Peer -> SUBSET CallId]

TypesOfQueues ==
    /\ cmds \in [Peer -> Seq(Command)]
    /\ pending \in [Peer -> Seq(Signal)]
    /\ batch \in [Peer -> Seq(Signal)]
    /\ wire \in [Peer -> Seq(Signal)]

TypesOfMarks ==
    /\ flushing \in [Peer -> BOOLEAN] /\ ready \in [Peer -> BOOLEAN]
    /\ up \in BOOLEAN
    /\ caller \in [CallId -> Peer \cup {NoCall}]
    /\ happened \subseteq Events
    /\ ends \in 0..MaxEnds /\ drops \in 0..MaxDrops

CallShape == TypesOfTable /\ TypesOfQueues /\ TypesOfMarks

LEMMA CallTypesInParts == CallShape <=> CallTypeOK
  BY DEF CallShape, TypesOfTable, TypesOfQueues, TypesOfMarks, CallTypeOK

LEMMA OlderIsTyped ==
    /\ \A c \in Call : Older(c) \in Call /\ Older(c).id = c.id /\ Older(c).phase = c.phase
    /\ \A s \in Signal : Older(s) \in Signal /\ Older(s).id = s.id /\ Older(s).kind = s.kind
<1>0. RingAge \in Nat
  BY CallAssumption
<1>1. ASSUME NEW a \in Age PROVE (IF a > RingAge THEN a ELSE a + 1) \in Age
  BY <1>0 DEF Age
<1>2. ASSUME NEW c \in Call PROVE Older(c) \in Call /\ Older(c).id = c.id /\ Older(c).phase = c.phase
  BY <1>1 DEF Call, Older
<1>3. ASSUME NEW s \in Signal PROVE Older(s) \in Signal /\ Older(s).id = s.id /\ Older(s).kind = s.kind
  BY <1>1 DEF Signal, Older
<1> QED BY <1>2, <1>3

\* A queue grows older signal by signal.
LEMMA QueueGrowsOlder ==
    ASSUME NEW q \in [Peer -> Seq(Signal)]
    PROVE  /\ OlderAll(q) \in [Peer -> Seq(Signal)]
           /\ \A p \in Peer : /\ Len(OlderAll(q)[p]) = Len(q[p])
                              /\ \A i \in 1..Len(q[p]) : OlderAll(q)[p][i] = Older(q[p][i])
<1>1. ASSUME NEW p \in Peer
      PROVE  /\ OlderAll(q)[p] \in Seq(Signal) /\ Len(OlderAll(q)[p]) = Len(q[p])
             /\ \A i \in 1..Len(q[p]) : OlderAll(q)[p][i] = Older(q[p][i])
  <2>1. OlderAll(q)[p] = [i \in DOMAIN q[p] |-> Older(q[p][i])]
    BY DEF OlderAll
  <2>2. q[p] \in Seq(Signal) /\ DOMAIN q[p] = 1..Len(q[p]) /\ Len(q[p]) \in Nat
    OBVIOUS
  <2>3. \A i \in 1..Len(q[p]) : q[p][i] \in Signal
    BY <2>2
  <2>4. \A i \in 1..Len(q[p]) : Older(q[p][i]) \in Signal
    BY <2>3, OlderIsTyped
  <2> QED BY <2>1, <2>2, <2>4
<1>2. OlderAll(q) = [p \in Peer |-> OlderAll(q)[p]]
  BY DEF OlderAll
<1> QED BY <1>1, <1>2

LEMMA PutBackIsTyped ==
    ASSUME NEW q \in Seq(Signal), NEW signals \in Seq(Signal)
    PROVE  PutBack(q, signals) \in Seq(Signal)
<1> DEFINE room == IF Len(q) < QueueCap THEN QueueCap - Len(q) ELSE 0
           n == IF Len(signals) < room THEN Len(signals) ELSE room
           kept == SubSeq(signals, 1, n)
<1>1. room \in Nat
  BY CallAssumption
<1>2. n \in 0..Len(signals)
  <2> HIDE DEF room
  <2> QED BY <1>1
<1>3. kept \in Seq(Signal)
  <2> HIDE DEF n
  <2> QED BY <1>2
<1>4. Reverse(kept) \in Seq(Signal)
  <2> HIDE DEF kept
  <2>1. \A i \in 1..Len(kept) : Len(kept) - i + 1 \in 1..Len(kept)
    BY <1>3
  <2>2. \A i \in 1..Len(kept) : kept[Len(kept) - i + 1] \in Signal
    BY <1>3, <2>1
  <2> QED BY <1>3, <2>2 DEF Reverse
<1>5. PutBack(q, signals) = Reverse(kept) \o q
  BY DEF PutBack
<1> HIDE DEF kept
<1> QED BY <1>4, <1>5

\* The table takes calls.
LEMMA TableTakesCalls ==
    ASSUME NEW c \in Call \cup {NoCall}, NEW k \in Kind, NEW i \in CallId
    PROVE  /\ ApplyOutbound(c, k, i) \subseteq Call \cup {NoCall}
           /\ ApplyInbound(c, k, i) \subseteq Call \cup {NoCall}
<1>1. Fresh(i, "outgoing") \in Call /\ Fresh(i, "incoming") \in Call /\ Fresh(i, "connected") \in Call
  BY CallAssumption DEF Fresh, Call, Phase, Age
<1>2. ApplyOutbound(c, k, i) \subseteq Call \cup {NoCall}
  BY <1>1 DEF ApplyOutbound, InPhase, Named
<1>3. ApplyInbound(c, k, i) \subseteq Call \cup {NoCall}
  BY <1>1 DEF ApplyInbound, InPhase, Named, YieldsTo
<1> QED BY <1>2, <1>3

LEMMA FirstOfQueue ==
    ASSUME NEW S, NEW q \in Seq(S), q # <<>>
    PROVE  Head(q) \in S /\ Tail(q) \in Seq(S) /\ Len(Tail(q)) = Len(q) - 1
  OBVIOUS

LEMMA OrdersAreTyped ==
    ASSUME NEW i \in CallId
    PROVE  \A d \in Kind \cup {"start", "stop"} : Order(d, i) \in Command
  BY DEF Order, Command

LEMMA HubKeepsTypes ==
    ASSUME CallShape, NEW p \in Peer, Hub(p)
    PROVE  CallShape'
<1> USE DEF CallShape
<1>1. ASSUME NEW i \in CallId, Dial(p, i) PROVE CallShape'
  <2>1. TypesOfTable'
    <3>1. call[p] \in Call \cup {NoCall} /\ "invite" \in Kind
      BY DEF TypesOfTable, Kind
    <3>2. ApplyOutbound(call[p], "invite", i) \subseteq Call \cup {NoCall}
      BY <3>1, TableTakesCalls
    <3>3. PICK c \in ApplyOutbound(call[p], "invite", i) : call' = [call EXCEPT ![p] = c]
      BY <1>1 DEF Dial
    <3>4. call' \in [Peer -> Call \cup {NoCall}]
      BY <3>2, <3>3 DEF TypesOfTable
    <3> QED BY <1>1, <3>4 DEF Dial, TypesOfTable
  <2>2. TypesOfQueues'
    <3>1. Order("invite", i) \in Command /\ Order("start", i) \in Command
      BY OrdersAreTyped DEF Kind
    <3>2. <<Order("invite", i), Order("start", i)>> \in Seq(Command)
      BY <3>1
    <3>3. cmds' = [cmds EXCEPT ![p] = cmds[p] \o <<Order("invite", i), Order("start", i)>>]
      BY <1>1 DEF Dial, Orders
    <3>4. cmds' \in [Peer -> Seq(Command)]
      BY <3>2, <3>3 DEF TypesOfQueues
    <3> QED BY <1>1, <3>4 DEF Dial, queue, link, TypesOfQueues
  <2>3. TypesOfMarks'
    BY <1>1 DEF Dial, queue, link, TypesOfMarks
  <2> QED BY <2>1, <2>2, <2>3
<1>2. ASSUME Answer(p) PROVE CallShape'
  <2>0. call[p] \in Call /\ call[p].id \in CallId
    BY <1>2 DEF Answer, InPhase, TypesOfTable, Call
  <2>1. TypesOfTable'
    <3>1. "accept" \in Kind
      BY DEF Kind
    <3>2. call' \in [Peer -> Call \cup {NoCall}]
      BY <1>2, <2>0, <3>1, TableTakesCalls DEF Answer, TypesOfTable
    <3> QED BY <1>2, <2>0, <3>2 DEF Answer, TypesOfTable
  <2>2. TypesOfQueues'
    <3>1. Order("accept", call[p].id) \in Command /\ Order("start", call[p].id) \in Command
      BY <2>0, OrdersAreTyped DEF Kind
    <3>2. <<Order("accept", call[p].id), Order("start", call[p].id)>> \in Seq(Command)
      BY <3>1
    <3>3. cmds' = [cmds EXCEPT ![p] = cmds[p] \o <<Order("accept", call[p].id), Order("start", call[p].id)>>]
      BY <1>2 DEF Answer, Orders
    <3>4. cmds' \in [Peer -> Seq(Command)]
      BY <3>2, <3>3 DEF TypesOfQueues
    <3> QED BY <1>2, <3>4 DEF Answer, queue, link, TypesOfQueues
  <2>3. TypesOfMarks'
    BY <1>2 DEF Answer, Happened, Events, queue, link, TypesOfMarks
  <2> QED BY <2>1, <2>2, <2>3
<1>3. ASSUME End(p) PROVE CallShape'
  <2>0. EndTarget(p) \in CallId /\ (media[p] # NoCall => media[p] \in CallId)
    BY <1>3 DEF End, EndTarget, TypesOfTable, Call
  <2>1. TypesOfTable'
    BY <1>3 DEF End, TypesOfTable
  <2>2. TypesOfQueues'
    <3> DEFINE first == <<Order("hangup", EndTarget(p)), Order("stop", EndTarget(p))>>
               then == IF media[p] = NoCall THEN <<>>
                       ELSE <<Order("stop", media[p]), Order("hangup", media[p])>>
    <3>1. Order("hangup", EndTarget(p)) \in Command /\ Order("stop", EndTarget(p)) \in Command
      BY <2>0, OrdersAreTyped DEF Kind
    <3>2. first \in Seq(Command)
      BY <3>1
    <3>3. then \in Seq(Command)
      <4>1. CASE media[p] = NoCall
        BY <4>1
      <4>2. CASE media[p] # NoCall
        <5>1. Order("hangup", media[p]) \in Command /\ Order("stop", media[p]) \in Command
          BY <2>0, <4>2, OrdersAreTyped DEF Kind
        <5> QED BY <4>2, <5>1
      <4> QED BY <4>1, <4>2
    <3>4. cmds' = [cmds EXCEPT ![p] = cmds[p] \o (first \o then)]
      BY <1>3 DEF End, Orders
    <3> HIDE DEF first, then
    <3>5. first \o then \in Seq(Command)
      BY <3>2, <3>3
    <3>6. cmds' \in [Peer -> Seq(Command)]
      BY <3>4, <3>5 DEF TypesOfQueues
    <3> QED BY <1>3, <3>6 DEF End, queue, link, TypesOfQueues
  <2>3. TypesOfMarks'
    BY <1>3, CallAssumption DEF End, Happened, Events, queue, link, TypesOfMarks
  <2> QED BY <2>1, <2>2, <2>3
<1> QED BY <1>1, <1>2, <1>3 DEF Hub

LEMMA WorkerKeepsTypes ==
    ASSUME CallShape, NEW p \in Peer, Worker(p)
    PROVE  CallShape'
<1> USE DEF CallShape
<1>0. cmds[p] \in Seq(Command) /\ pending[p] \in Seq(Signal) /\ wire[p] \in Seq(Signal)
  BY DEF TypesOfQueues
<1>c. ASSUME cmds[p] # <<>>, CmdDone(p)
      PROVE  /\ NextCmd(p) \in Command /\ NextCmd(p).id \in CallId
             /\ cmds' \in [Peer -> Seq(Command)]
  <2>1. NextCmd(p) \in Command /\ Tail(cmds[p]) \in Seq(Command)
    BY <1>0, <1>c, FirstOfQueue DEF NextCmd
  <2>2. cmds' = [cmds EXCEPT ![p] = Tail(cmds[p])]
    BY <1>c DEF CmdDone
  <2> QED BY <2>1, <2>2 DEF TypesOfQueues, Command
<1>1. ASSUME TakeSignal(p) PROVE CallShape'
  <2> DEFINE d == NextCmd(p)
             entries == ApplyOutbound(call[p], d.do, d.id)
             s == [kind |-> d.do, id |-> d.id, age |-> 0]
  <2>1. d.do \in Kind /\ d.id \in CallId /\ cmds' \in [Peer -> Seq(Command)]
    BY <1>1, <1>c DEF TakeSignal
  <2>2. entries \subseteq Call \cup {NoCall} /\ s \in Signal
    <3>1. call[p] \in Call \cup {NoCall}
      BY DEF TypesOfTable
    <3>2. entries \subseteq Call \cup {NoCall}
      BY <2>1, <3>1, TableTakesCalls
    <3>3. 0 \in Age
      BY CallAssumption DEF Age
    <3> QED BY <2>1, <3>2, <3>3 DEF Signal
  <2>3. /\ \/ UNCHANGED <<call, pending, flushing>>
           \/ /\ \E c \in entries : call' = [call EXCEPT ![p] = c]
              /\ Enqueued(p, s)
              /\ flushing' = [flushing EXCEPT ![p] = TRUE]
        /\ UNCHANGED <<target, media, streams, ready, batch, link, history>>
    BY <1>1 DEF TakeSignal
  <2> HIDE DEF entries, s
  <2>4. call' \in [Peer -> Call \cup {NoCall}]
    BY <2>2, <2>3 DEF TypesOfTable
  <2>5. pending' \in [Peer -> Seq(Signal)]
    <3>1. Append(pending[p], s) \in Seq(Signal)
      BY <1>0, <2>2
    <3>2. CASE Enqueued(p, s)
      <4>1. pending' = [pending EXCEPT ![p] = Append(pending[p], s)]
        BY <3>2 DEF Enqueued
      <4> QED BY <3>1, <4>1 DEF TypesOfQueues
    <3>3. CASE UNCHANGED pending
      BY <3>3 DEF TypesOfQueues
    <3> QED BY <2>3, <3>2, <3>3
  <2>6. TypesOfTable'
    BY <2>3, <2>4 DEF TypesOfTable
  <2>7. TypesOfQueues'
    BY <2>1, <2>3, <2>5 DEF TypesOfQueues, link
  <2>8. TypesOfMarks'
    BY <2>3 DEF TypesOfMarks, link, history
  <2> QED BY <2>6, <2>7, <2>8
<1>2. ASSUME WorkerFlush(p) PROVE CallShape'
  <2>1. TypesOfTable'
    BY <1>2 DEF WorkerFlush, hub, table, TypesOfTable
  <2>2. TypesOfQueues'
    <3>1. wire[p] \o pending[p] \in Seq(Signal)
      BY <1>0
    <3>2. wire' = [wire EXCEPT ![p] = wire[p] \o pending[p]] \/ wire' = wire
      BY <1>2 DEF WorkerFlush
    <3>3. wire' \in [Peer -> Seq(Signal)]
      BY <3>1, <3>2 DEF TypesOfQueues
    <3>4. pending' \in [Peer -> Seq(Signal)]
      <4>1. pending' = [pending EXCEPT ![p] = <<>>] \/ pending' = pending
        BY <1>2 DEF WorkerFlush
      <4>2. <<>> \in Seq(Signal)
        OBVIOUS
      <4> QED BY <4>1, <4>2 DEF TypesOfQueues
    <3> QED BY <1>2, <3>3, <3>4 DEF WorkerFlush, hub, TypesOfQueues
  <2>3. TypesOfMarks'
    BY <1>2 DEF WorkerFlush, history, TypesOfMarks
  <2> QED BY <2>1, <2>2, <2>3
<1>3. ASSUME TakeStart(p) PROVE CallShape'
  <2>1. NextCmd(p).id \in CallId /\ cmds' \in [Peer -> Seq(Command)]
    BY <1>3, <1>c DEF TakeStart
  <2>2. TypesOfTable'
    BY <1>3, <2>1 DEF TakeStart, TypesOfTable
  <2>3. TypesOfQueues'
    BY <1>3, <2>1 DEF TakeStart, queue, link, TypesOfQueues
  <2>4. TypesOfMarks'
    BY <1>3 DEF TakeStart, queue, link, history, TypesOfMarks
  <2> QED BY <2>2, <2>3, <2>4
<1>4. ASSUME TakeStop(p) PROVE CallShape'
  <2>1. cmds' \in [Peer -> Seq(Command)]
    BY <1>4, <1>c DEF TakeStop
  <2>2. TypesOfTable'
    BY <1>4 DEF TakeStop, TypesOfTable
  <2>3. TypesOfQueues'
    BY <1>4, <2>1 DEF TakeStop, queue, link, TypesOfQueues
  <2>4. TypesOfMarks'
    BY <1>4 DEF TakeStop, queue, link, history, TypesOfMarks
  <2> QED BY <2>2, <2>3, <2>4
<1> QED BY <1>1, <1>2, <1>3, <1>4 DEF Worker

LEMMA SessionKeepsTypes ==
    ASSUME CallShape, NEW p \in Peer, Session(p) \/ OthersFlush(p)
    PROVE  CallShape'
<1> USE DEF CallShape
<1>0. pending[p] \in Seq(Signal) /\ batch[p] \in Seq(Signal) /\ wire[p] \in Seq(Signal)
      /\ <<>> \in Seq(Signal)
  BY DEF TypesOfQueues
<1>1. TypesOfTable'
  BY DEF Session, ReadyDrain, ReadySend, OthersFlush, hub, table, TypesOfTable
<1>2. TypesOfMarks'
  BY DEF Session, ReadyDrain, ReadySend, OthersFlush, hub, link, history, TypesOfMarks
<1>3. ASSUME ReadyDrain(p) PROVE TypesOfQueues'
  BY <1>0, <1>3 DEF ReadyDrain, hub, link, TypesOfQueues
<1>4. ASSUME ReadySend(p) PROVE TypesOfQueues'
  <2>1. wire[p] \o batch[p] \in Seq(Signal) /\ PutBack(pending[p], batch[p]) \in Seq(Signal)
    BY <1>0, PutBackIsTyped
  <2>2. wire' = [wire EXCEPT ![p] = wire[p] \o batch[p]] \/ wire' = wire
    BY <1>4 DEF ReadySend
  <2>3. pending' = [pending EXCEPT ![p] = PutBack(pending[p], batch[p])] \/ pending' = pending
    BY <1>4 DEF ReadySend
  <2>4. wire' \in [Peer -> Seq(Signal)] /\ pending' \in [Peer -> Seq(Signal)]
    BY <2>1, <2>2, <2>3 DEF TypesOfQueues
  <2> QED BY <1>4, <2>4 DEF ReadySend, hub, TypesOfQueues
<1>5. ASSUME OthersFlush(p) PROVE TypesOfQueues'
  <2>1. PutBack(<<>>, pending[p]) \in Seq(Signal)
    BY <1>0, PutBackIsTyped
  <2>2. pending' = [pending EXCEPT ![p] = PutBack(<<>>, pending[p])]
    BY <1>5 DEF OthersFlush
  <2> QED BY <1>5, <2>1, <2>2 DEF OthersFlush, hub, link, TypesOfQueues
<1> QED BY <1>1, <1>2, <1>3, <1>4, <1>5 DEF Session

LEMMA ReceiveKeepsTypes ==
    ASSUME CallShape, NEW p \in Peer, Receive(p)
    PROVE  CallShape'
<1> USE DEF CallShape
<1>0. Other(p) \in Peer
  BY TwoDevices
<1>1. Arrives(p) /\ Consumed(p)
  BY DEF Receive, ReceiveStaleInvite, ReceiveSignal, ReceiveHangup
<1>2. Arrival(p) \in Signal /\ Tail(wire[Other(p)]) \in Seq(Signal)
  BY <1>0, <1>1, FirstOfQueue DEF TypesOfQueues, Arrives, Arrival
<1>3. wire' \in [Peer -> Seq(Signal)]
  <2>1. wire' = [wire EXCEPT ![Other(p)] = Tail(wire[Other(p)])]
    BY <1>1 DEF Consumed
  <2> QED BY <1>2, <2>1 DEF TypesOfQueues
<1>4. Arrival(p).kind \in Kind /\ Arrival(p).id \in CallId
  BY <1>2 DEF Signal
<1>5. call[p] \in Call \cup {NoCall}
  BY DEF TypesOfTable
<1>6. ApplyInbound(call[p], Arrival(p).kind, Arrival(p).id) \subseteq Call \cup {NoCall}
  BY <1>4, <1>5, TableTakesCalls
<1>7. call' \in [Peer -> Call \cup {NoCall}]
  BY <1>6 DEF Receive, ReceiveStaleInvite, ReceiveSignal, ReceiveHangup, TypesOfTable
<1>8. TypesOfTable'
  BY <1>7 DEF Receive, ReceiveStaleInvite, ReceiveSignal, ReceiveHangup, TypesOfTable, hub
<1>9. TypesOfQueues'
  BY <1>3 DEF Receive, ReceiveStaleInvite, ReceiveSignal, ReceiveHangup, TypesOfQueues, hub, queue
<1>10. TypesOfMarks'
  BY DEF Receive, ReceiveStaleInvite, ReceiveSignal, ReceiveHangup, TypesOfMarks, queue, history,
         Happened, Events
<1> QED BY <1>8, <1>9, <1>10

LEMMA RestKeepsTypes ==
    ASSUME CallShape, LinkUp \/ LinkDown \/ TimePasses \/ \E p \in Peer : ExpireRing(p)
    PROVE  CallShape'
<1> USE DEF CallShape
<1>1. ASSUME NEW p \in Peer, ExpireRing(p) PROVE CallShape'
  <2>1. TypesOfTable'
    BY <1>1 DEF ExpireRing, hub, TypesOfTable
  <2>2. TypesOfQueues'
    BY <1>1 DEF ExpireRing, hub, queue, link, TypesOfQueues
  <2>3. TypesOfMarks'
    BY <1>1 DEF ExpireRing, queue, link, TypesOfMarks, Happened, Events
  <2> QED BY <2>1, <2>2, <2>3
<1>2. ASSUME LinkUp \/ LinkDown PROVE CallShape'
  <2>1. TypesOfTable'
    BY <1>2 DEF LinkUp, LinkDown, hub, table, TypesOfTable
  <2>2. TypesOfQueues'
    <3>1. [q \in Peer |-> <<>>] \in [Peer -> Seq(Signal)]
      OBVIOUS
    <3>2. wire' = wire \/ wire' = [q \in Peer |-> <<>>]
      BY <1>2 DEF LinkUp, LinkDown
    <3> QED BY <1>2, <3>1, <3>2 DEF LinkUp, LinkDown, hub, queue, TypesOfQueues
  <2>3. TypesOfMarks'
    <3>1. ends' \in 0..MaxEnds /\ drops' \in 0..MaxDrops
      BY <1>2, CallAssumption DEF LinkUp, LinkDown, history, TypesOfMarks
    <3>2. ready' \in [Peer -> BOOLEAN] /\ flushing' \in [Peer -> BOOLEAN] /\ up' \in BOOLEAN
      BY <1>2 DEF LinkUp, LinkDown, queue, TypesOfMarks
    <3>3. caller' = caller /\ happened' \subseteq Events
      BY <1>2 DEF LinkUp, LinkDown, history, TypesOfMarks, Happened, Events
    <3> QED BY <3>1, <3>2, <3>3 DEF TypesOfMarks
  <2> QED BY <2>1, <2>2, <2>3
<1>3. ASSUME TimePasses PROVE CallShape'
  <2>1. call' \in [Peer -> Call \cup {NoCall}]
    <3>1. \A p \in Peer : (IF call[p] = NoCall THEN NoCall ELSE Older(call[p])) \in Call \cup {NoCall}
      BY OlderIsTyped DEF TypesOfTable
    <3> QED BY <1>3, <3>1 DEF TimePasses
  <2>2. TypesOfTable'
    BY <1>3, <2>1 DEF TimePasses, hub, TypesOfTable
  <2>3. TypesOfQueues'
    BY <1>3, QueueGrowsOlder DEF TimePasses, hub, TypesOfQueues
  <2>4. TypesOfMarks'
    BY <1>3 DEF TimePasses, history, TypesOfMarks
  <2> QED BY <2>2, <2>3, <2>4
<1> QED BY <1>1, <1>2, <1>3

LEMMA StepKeepsTypes == CallShape /\ [CallNext]_callVars => CallShape'
<1> SUFFICES ASSUME CallShape, [CallNext]_callVars PROVE CallShape'
  OBVIOUS
<1>1. CASE UNCHANGED callVars
  BY <1>1 DEF CallShape, TypesOfTable, TypesOfQueues, TypesOfMarks, callVars, hub, table, queue,
              link, history
<1>2. CASE CallNext
  BY <1>2, HubKeepsTypes, WorkerKeepsTypes, SessionKeepsTypes, ReceiveKeepsTypes, RestKeepsTypes
     DEF CallNext
<1> QED BY <1>1, <1>2

LEMMA CallInitHasShape == CallInit => CallShape
<1> SUFFICES ASSUME CallInit PROVE CallShape
  OBVIOUS
<1>1. TypesOfTable
    BY DEF CallInit, TypesOfTable
<1>2. TypesOfQueues
    BY DEF CallInit, TypesOfQueues
<1>3. TypesOfMarks
  <2>1. ends \in 0..MaxEnds /\ drops \in 0..MaxDrops
      BY CallAssumption DEF CallInit
  <2>2. /\ flushing \in [Peer -> BOOLEAN] /\ ready \in [Peer -> BOOLEAN] /\ up \in BOOLEAN
          /\ caller \in [CallId -> Peer \cup {NoCall}] /\ happened \subseteq Events
      BY DEF CallInit
  <2> QED BY <2>1, <2>2 DEF TypesOfMarks
<1> QED BY <1>1, <1>2, <1>3 DEF CallShape

\* Every state of the signalling has its type, for every set of call ids and
\* any age, capacity, number of hangups and lost sessions.
THEOREM CallTypeCorrect == CallSpec => []CallTypeOK
  BY CallInitHasShape, StepKeepsTypes, CallTypesInParts, PTL DEF CallSpec

-----------------------------------------------------------------------------
(* As long as people only dial.                                            *)

\* The queue holds nothing, or the invite of the id p dialled.
OnlyInvite(q, p) ==
    q = <<>> \/ (Len(q) = 1 /\ q[1].kind = "invite" /\ caller[q[1].id] = p)

\* The hub's invite is yet to be taken by the worker.
Ordered(p) == cmds[p] # <<>> /\ cmds[p][1].do = "invite"

\* The invite of p is on its way.
UnderWay(p) == Ordered(p) \/ pending[p] # <<>> \/ batch[p] # <<>> \/ wire[p] # <<>>

\* The commands of one dial, whole or without the first.
OrdersOfDial(p) ==
    \/ cmds[p] = <<>>
    \/ \E i \in CallId : /\ caller[i] = p
                         /\ cmds[p] \in {<<Order("invite", i), Order("start", i)>>,
                                         <<Order("start", i)>>}

\* A device dials once, and its invite is in one place.
OneInvite(p) ==
    /\ OrdersOfDial(p)
    /\ OnlyInvite(pending[p], p) /\ OnlyInvite(batch[p], p) /\ OnlyInvite(wire[p], p)
    /\ Ordered(p) => pending[p] = <<>> /\ batch[p] = <<>> /\ wire[p] = <<>>
    /\ pending[p] # <<>> => batch[p] = <<>> /\ wire[p] = <<>>
    /\ batch[p] # <<>> => wire[p] = <<>> /\ up
    /\ \A i, j \in CallId : caller[i] = p /\ caller[j] = p => i = j
    /\ call[p] = NoCall => \A i \in CallId : caller[i] # p

\* The other device rings for the call id, or dials one that wins over it.
TakenBy(o, id) ==
    o # NoCall /\ \/ o.phase = "incoming" /\ o.id = id
                  \/ o.phase = "outgoing" /\ o.id < id

\* What the entry of p says about the other device.
EntryIsBacked(p) ==
    call[p] # NoCall =>
        /\ call[p].phase # "connected"
        /\ call[p].phase = "outgoing" =>
              /\ caller[call[p].id] = p
              /\ UnderWay(p) \/ TakenBy(call[Other(p)], call[p].id)
        /\ call[p].phase = "incoming" =>
              /\ call[Other(p)] # NoCall /\ call[Other(p)].phase = "outgoing"
              /\ call[Other(p)].id = call[p].id
              /\ \A i \in CallId : caller[i] = p => call[p].id < i


\* What Dial hands to the worker.
LEMMA DialOrders ==
    ASSUME NEW i \in CallId
    PROVE  /\ Order("invite", i).do = "invite" /\ Order("start", i).do = "start"
           /\ Order("invite", i).id = i
           /\ <<Order("invite", i), Order("start", i)>> # <<>>
           /\ <<Order("invite", i), Order("start", i)>>[1] = Order("invite", i)
           /\ Head(<<Order("invite", i), Order("start", i)>>) = Order("invite", i)
           /\ Tail(<<Order("invite", i), Order("start", i)>>) = <<Order("start", i)>>
           /\ <<Order("start", i)>> # <<>> /\ <<Order("start", i)>>[1] = Order("start", i)
           /\ Head(<<Order("start", i)>>) = Order("start", i)
           /\ Tail(<<Order("start", i)>>) = <<>>
  BY DEF Order

\* An invite is alone in its queue.
LEMMA InviteAlone ==
    ASSUME NEW q \in Seq(Signal), NEW p, OnlyInvite(q, p), q # <<>>
    PROVE  /\ Len(q) = 1 /\ Head(q) = q[1] /\ Tail(q) = <<>>
           /\ q[1] \in Signal /\ q[1].id \in CallId
           /\ q[1].kind = "invite" /\ caller[q[1].id] = p
<1>1. Len(q) = 1 /\ q[1].kind = "invite" /\ caller[q[1].id] = p
  BY DEF OnlyInvite
<1>2. q[1] \in Signal
  BY <1>1
<1>3. Head(q) = q[1]
  OBVIOUS
<1>4. Tail(q) \in Seq(Signal) /\ Len(Tail(q)) = 0
  BY <1>1, FirstOfQueue
<1>5. Tail(q) = <<>>
  <2>1. \A s \in Seq(Signal) : Len(s) = 0 => s = <<>>
    OBVIOUS
  <2> QED BY <1>4, <2>1
<1> QED BY <1>1, <1>2, <1>3, <1>5 DEF Signal

\* The invariant.
Dialled == \A p \in Peer : OneInvite(p) /\ EntryIsBacked(p)

\* The invite of one device moves on, the entries stay.
LEMMA InviteMoves ==
    ASSUME NEW p \in Peer, Dialled,
           UNCHANGED <<call, caller>>, up => up',
           \A r \in Peer \ {p} : /\ cmds'[r] = cmds[r] /\ pending'[r] = pending[r]
                                 /\ batch'[r] = batch[r] /\ wire'[r] = wire[r],
           OneInvite(p)',
           InPhase(call[p], "outgoing") /\ UnderWay(p) => UnderWay(p)'
    PROVE  Dialled'
<1>1. \A r \in Peer \ {p} : OneInvite(r)'
  BY DEF Dialled, OneInvite, OrdersOfDial, OnlyInvite, Ordered
<1>2. \A r \in Peer \ {p} : UnderWay(r) => UnderWay(r)'
  BY DEF UnderWay, Ordered
<1>3. \A r \in Peer : InPhase(call[r], "outgoing") /\ UnderWay(r) => UnderWay(r)'
  BY <1>2
<1>4. ASSUME NEW r \in Peer PROVE EntryIsBacked(r)'
  BY <1>3 DEF Dialled, EntryIsBacked, TakenBy, InPhase
<1> QED BY <1>1, <1>4 DEF Dialled

LEMMA WorkerKeepsDialled ==
    ASSUME CallShape, Dialled, NEW p \in Peer, Worker(p)
    PROVE  Dialled'
<1>0. /\ cmds[p] \in Seq(Command) /\ pending[p] \in Seq(Signal) /\ batch[p] \in Seq(Signal)
      /\ wire[p] \in Seq(Signal) /\ call[p] \in Call \cup {NoCall}
      /\ cmds \in [Peer -> Seq(Command)] /\ pending \in [Peer -> Seq(Signal)]
      /\ wire \in [Peer -> Seq(Signal)] /\ call \in [Peer -> Call \cup {NoCall}]
  BY DEF CallShape, TypesOfQueues, TypesOfTable
<1>1. OneInvite(p) /\ EntryIsBacked(p)
  BY DEF Dialled
<1>2. ASSUME cmds[p] # <<>>
      PROVE  \E i \in CallId : /\ caller[i] = p
                 /\ \/ /\ NextCmd(p) = Order("invite", i) /\ Ordered(p)
                       /\ Tail(cmds[p]) = <<Order("start", i)>>
                    \/ NextCmd(p) = Order("start", i) /\ ~Ordered(p) /\ Tail(cmds[p]) = <<>>
  <2>1. PICK i \in CallId : /\ caller[i] = p
                            /\ cmds[p] \in {<<Order("invite", i), Order("start", i)>>,
                                            <<Order("start", i)>>}
    BY <1>1, <1>2 DEF OneInvite, OrdersOfDial
  <2>2. CASE cmds[p] = <<Order("invite", i), Order("start", i)>>
    BY <1>2, <2>1, <2>2, DialOrders DEF NextCmd, Ordered
  <2>3. CASE cmds[p] = <<Order("start", i)>>
    BY <1>2, <2>1, <2>3, DialOrders DEF NextCmd, Ordered
  <2> QED BY <2>1, <2>2, <2>3
<1>3. ASSUME TakeSignal(p) PROVE Dialled'
  <2>1. cmds[p] # <<>> /\ NextCmd(p).do \in Kind
    BY <1>3 DEF TakeSignal
  <2>2. PICK i \in CallId : /\ caller[i] = p /\ NextCmd(p) = Order("invite", i) /\ Ordered(p)
                            /\ Tail(cmds[p]) = <<Order("start", i)>>
    BY <1>2, <2>1, DialOrders DEF Kind
  <2>3. NextCmd(p).do = "invite" /\ NextCmd(p).id = i
    BY <2>2, DialOrders
  <2>4. call[p] # NoCall /\ call[p].phase # "connected" /\ call[p] \in Call
    BY <1>0, <1>1, <2>2 DEF OneInvite, EntryIsBacked
  <2>5. pending[p] = <<>> /\ batch[p] = <<>> /\ wire[p] = <<>>
    BY <1>1, <2>2 DEF OneInvite
  <2>6. /\ cmds' = [cmds EXCEPT ![p] = <<Order("start", i)>>]
        /\ UNCHANGED <<batch, wire, up, caller>>
    BY <1>3, <2>2 DEF TakeSignal, CmdDone, link, history
  <2>7. /\ cmds'[p] = <<Order("start", i)>> /\ ~Ordered(p)'
        /\ OrdersOfDial(p)'
    <3>1. cmds'[p] = <<Order("start", i)>>
      BY <1>0, <2>6
    <3>2. ~Ordered(p)'
      BY <3>1, DialOrders DEF Ordered
    <3>3. OrdersOfDial(p)'
      BY <2>2, <2>6, <3>1 DEF OrdersOfDial
    <3> QED BY <3>1, <3>2, <3>3
  <2>8. CASE InPhase(call[p], "outgoing")
    <3>1. call[p].id = i
      <4>1. caller[call[p].id] = p /\ call[p].id \in CallId
        BY <1>1, <2>4, <2>8 DEF EntryIsBacked, InPhase, Call
      <4> QED BY <1>1, <2>2, <4>1 DEF OneInvite
    <3>2. ApplyOutbound(call[p], "invite", i) = {call[p]}
      BY <2>4, <2>8, <3>1 DEF ApplyOutbound, InPhase, Named
    <3>3. /\ call' = [call EXCEPT ![p] = call[p]]
          /\ pending' = [pending EXCEPT ![p] = Append(pending[p], [kind |-> "invite", id |-> i, age |-> 0])]
      BY <1>3, <2>3, <3>2 DEF TakeSignal, Enqueued
    <3>4. call' = call /\ pending'[p] = <<[kind |-> "invite", id |-> i, age |-> 0]>>
      BY <1>0, <2>5, <3>3
    <3>5. Len(pending'[p]) = 1 /\ pending'[p][1].kind = "invite" /\ pending'[p][1].id = i
          /\ pending'[p] # <<>>
      BY <3>4
    <3>6. OneInvite(p)'
      BY <1>1, <2>2, <2>4, <2>5, <2>6, <2>7, <3>4, <3>5 DEF OneInvite, OnlyInvite
    <3>7. UnderWay(p)'
      BY <3>5 DEF UnderWay
    <3> QED BY <1>0, <2>6, <3>3, <3>4, <3>6, <3>7, InviteMoves
  <2>9. CASE ~InPhase(call[p], "outgoing")
    <3>1. ApplyOutbound(call[p], "invite", i) = {}
      BY <2>4, <2>9 DEF ApplyOutbound, InPhase, Named
    <3>2. UNCHANGED <<call, pending>>
      BY <1>3, <2>3, <3>1 DEF TakeSignal
    <3>3. OneInvite(p)'
      BY <1>1, <2>4, <2>5, <2>6, <2>7, <3>2 DEF OneInvite, OnlyInvite
    <3> QED BY <1>0, <2>6, <2>9, <3>2, <3>3, InviteMoves
  <2> QED BY <2>8, <2>9
<1>4. ASSUME WorkerFlush(p) PROVE Dialled'
  <2>1. UNCHANGED <<call, caller, cmds, batch, up>>
    BY <1>4 DEF WorkerFlush, hub, table, history
  <2>2. CASE ~up \/ pending[p] = <<>>
    <3>1. UNCHANGED <<wire, pending>>
      <4>1. CASE ~up
        BY <1>4, <4>1 DEF WorkerFlush
      <4>2. CASE pending[p] = <<>>
        <5>1. wire[p] \o pending[p] = wire[p]
          BY <1>0, <4>2
        <5>2. \/ UNCHANGED <<wire, pending>>
              \/ /\ wire' = [wire EXCEPT ![p] = wire[p] \o pending[p]]
                 /\ pending' = [pending EXCEPT ![p] = <<>>]
          BY <1>4 DEF WorkerFlush
        <5> QED BY <1>0, <4>2, <5>1, <5>2
      <4> QED BY <2>2, <4>1, <4>2
    <3>2. OneInvite(p)' /\ (UnderWay(p) => UnderWay(p)')
      BY <1>1, <2>1, <3>1 DEF OneInvite, OrdersOfDial, OnlyInvite, Ordered, UnderWay
    <3> QED BY <2>1, <3>1, <3>2, InviteMoves
  <2>3. CASE up /\ pending[p] # <<>>
    <3>1. wire[p] = <<>> /\ batch[p] = <<>> /\ ~Ordered(p)
      BY <1>1, <2>3 DEF OneInvite
    <3>2. wire[p] \o pending[p] = pending[p]
      BY <1>0, <3>1
    <3>3. /\ wire' = [wire EXCEPT ![p] = pending[p]]
          /\ pending' = [pending EXCEPT ![p] = <<>>]
      BY <1>4, <2>3, <3>2 DEF WorkerFlush
    <3>4. wire'[p] = pending[p] /\ pending'[p] = <<>>
      BY <1>0, <3>3
    <3>5. OneInvite(p)' /\ UnderWay(p)'
      BY <1>1, <2>1, <2>3, <3>1, <3>4 DEF OneInvite, OrdersOfDial, OnlyInvite, Ordered, UnderWay
    <3> QED BY <1>0, <2>1, <3>3, <3>5, InviteMoves
  <2> QED BY <2>2, <2>3
<1>5. ASSUME TakeStart(p) PROVE Dialled'
  <2>1. cmds[p] # <<>> /\ NextCmd(p).do = "start"
    BY <1>5 DEF TakeStart
  <2>2. ~Ordered(p) /\ Tail(cmds[p]) = <<>>
    BY <1>2, <2>1, DialOrders
  <2>3. /\ cmds' = [cmds EXCEPT ![p] = <<>>]
        /\ UNCHANGED <<call, caller, pending, batch, wire, up>>
    BY <1>5, <2>2 DEF TakeStart, CmdDone, queue, link, history
  <2>4. cmds'[p] = <<>>
    BY <1>0, <2>3
  <2>5. OneInvite(p)' /\ (UnderWay(p) => UnderWay(p)')
    BY <1>1, <2>2, <2>3, <2>4 DEF OneInvite, OrdersOfDial, OnlyInvite, Ordered, UnderWay
  <2> QED BY <1>0, <2>3, <2>5, InviteMoves
<1>6. ASSUME TakeStop(p) PROVE FALSE
  BY <1>2, <1>6, DialOrders DEF TakeStop
<1> QED BY <1>3, <1>4, <1>5, <1>6 DEF Worker

LEMMA SessionKeepsDialled ==
    ASSUME CallShape, Dialled, NEW p \in Peer, Session(p) \/ OthersFlush(p)
    PROVE  Dialled'
<1>0. /\ pending[p] \in Seq(Signal) /\ batch[p] \in Seq(Signal) /\ wire[p] \in Seq(Signal)
      /\ pending \in [Peer -> Seq(Signal)] /\ batch \in [Peer -> Seq(Signal)]
      /\ wire \in [Peer -> Seq(Signal)]
  BY DEF CallShape, TypesOfQueues
<1>1. OneInvite(p) /\ EntryIsBacked(p)
  BY DEF Dialled
<1>2. ASSUME ReadyDrain(p) PROVE Dialled'
  <2>1. UNCHANGED <<call, caller, cmds, wire, up>> /\ batch[p] = <<>>
    BY <1>2 DEF ReadyDrain, hub, table, link, history
  <2>2. CASE UNCHANGED <<batch, pending>>
    <3>1. OneInvite(p)' /\ (UnderWay(p) => UnderWay(p)')
      BY <1>1, <2>1, <2>2 DEF OneInvite, OrdersOfDial, OnlyInvite, Ordered, UnderWay
    <3> QED BY <2>1, <2>2, <3>1, InviteMoves
  <2>3. CASE ~UNCHANGED <<batch, pending>>
    <3>1. /\ up /\ batch' = [batch EXCEPT ![p] = pending[p]]
          /\ pending' = [pending EXCEPT ![p] = <<>>]
      BY <1>2, <2>3 DEF ReadyDrain
    <3>2. batch'[p] = pending[p] /\ pending'[p] = <<>>
      BY <1>0, <3>1
    <3>3. OneInvite(p)' /\ (UnderWay(p) => UnderWay(p)')
      BY <1>1, <2>1, <3>1, <3>2 DEF OneInvite, OrdersOfDial, OnlyInvite, Ordered, UnderWay
    <3> QED BY <1>0, <2>1, <3>1, <3>3, InviteMoves
  <2> QED BY <2>2, <2>3
<1>3. ASSUME ReadySend(p) PROVE Dialled'
  <2>1. UNCHANGED <<call, caller, cmds, up>> /\ batch[p] # <<>>
    BY <1>3 DEF ReadySend, hub, table, history
  <2>2. up /\ wire[p] = <<>> /\ pending[p] = <<>> /\ ~Ordered(p)
    BY <1>1, <2>1 DEF OneInvite
  <2>3. wire[p] \o batch[p] = batch[p]
    BY <1>0, <2>2
  <2>4. /\ wire' = [wire EXCEPT ![p] = batch[p]]
        /\ batch' = [batch EXCEPT ![p] = <<>>] /\ pending' = pending
    BY <1>3, <2>2, <2>3 DEF ReadySend
  <2>5. wire'[p] = batch[p] /\ batch'[p] = <<>>
    BY <1>0, <2>4
  <2>6. OneInvite(p)' /\ UnderWay(p)'
    BY <1>1, <2>1, <2>2, <2>4, <2>5 DEF OneInvite, OrdersOfDial, OnlyInvite, Ordered, UnderWay
  <2> QED BY <1>0, <2>1, <2>4, <2>6, InviteMoves
<1>4. ~OthersFlush(p)
  <2>1. pending[p] = <<>> \/ Len(pending[p]) = 1
    BY <1>1 DEF OneInvite, OnlyInvite
  <2>2. ~(Len(pending[p]) > 1)
    <3>1. CASE pending[p] = <<>>
      BY <3>1
    <3>2. CASE Len(pending[p]) = 1
      BY <3>2
    <3> QED BY <2>1, <3>1, <3>2
  <2> QED BY <2>2 DEF OthersFlush
<1> QED BY <1>2, <1>3, <1>4 DEF Session

\* A first dial.
LEMMA DialKeepsDialled ==
    ASSUME CallShape, Dialled, NEW p \in Peer, NEW i \in CallId, Dial(p, i)
    PROVE  Dialled'
<1>0. /\ cmds \in [Peer -> Seq(Command)] /\ call \in [Peer -> Call \cup {NoCall}]
      /\ caller \in [CallId -> Peer \cup {NoCall}]
      /\ pending[p] \in Seq(Signal) /\ batch[p] \in Seq(Signal) /\ wire[p] \in Seq(Signal)
      /\ Other(p) \in Peer /\ Other(p) # p /\ Other(Other(p)) = p
      /\ \A r \in Peer : r = p \/ r = Other(p)
  BY TwoDevices DEF CallShape, TypesOfQueues, TypesOfTable, TypesOfMarks
<1>1. /\ OneInvite(p) /\ EntryIsBacked(p)
      /\ OneInvite(Other(p)) /\ EntryIsBacked(Other(p))
  BY <1>0 DEF Dialled
<1>2. caller[i] = NoCall /\ NoCall \notin Peer
  BY CallAssumption DEF Dial
<1>3. PICK c \in ApplyOutbound(call[p], "invite", i) : call' = [call EXCEPT ![p] = c]
  BY DEF Dial
<1>4. call[p] = NoCall /\ c = Fresh(i, "outgoing")
  <2>1. ~(InPhase(call[p], "outgoing") /\ Named(call[p], i))
    BY <1>1, <1>2 DEF InPhase, Named, EntryIsBacked
  <2>2. call[p] = NoCall
    BY <1>3, <2>1 DEF ApplyOutbound
  <2> QED BY <1>3, <2>2 DEF ApplyOutbound, InPhase
<1>5. \A j \in CallId : caller[j] # p
  BY <1>1, <1>4 DEF OneInvite
<1>6. cmds[p] = <<>> /\ pending[p] = <<>> /\ batch[p] = <<>> /\ wire[p] = <<>>
  BY <1>0, <1>1, <1>5, InviteAlone DEF OneInvite, OrdersOfDial
<1>7. /\ call'[p] = c /\ call'[Other(p)] = call[Other(p)] /\ c # NoCall
      /\ c.id = i /\ c.phase = "outgoing"
  <2>1. c \in Call
    BY <1>4, CallAssumption DEF Fresh, Call, Phase, Age
  <2> QED BY <1>0, <1>3, <1>4, <2>1, CallNulls DEF Fresh
<1>8. /\ cmds' = [cmds EXCEPT ![p] = cmds[p] \o <<Order("invite", i), Order("start", i)>>]
      /\ caller' = [caller EXCEPT ![i] = p]
      /\ UNCHANGED <<pending, batch, wire, up>>
  BY DEF Dial, Orders, queue, link
<1>9. cmds'[p] = <<Order("invite", i), Order("start", i)>>
  BY <1>0, <1>6, <1>8
<1>10. /\ cmds'[Other(p)] = cmds[Other(p)]
       /\ caller'[i] = p /\ \A j \in CallId \ {i} : caller'[j] = caller[j]
  BY <1>0, <1>8
<1>11. OneInvite(p)' /\ UnderWay(p)'
  <2>1. OrdersOfDial(p)' /\ Ordered(p)'
    <3>1. Ordered(p)'
      <4> DEFINE both == <<Order("invite", i), Order("start", i)>>
      <4>1. both # <<>> /\ both[1].do = "invite"
        BY DialOrders
      <4>2. cmds'[p] = both
        BY <1>9
      <4> HIDE DEF both
      <4>3. cmds'[p] # <<>> /\ cmds'[p][1].do = "invite"
        BY <4>1, <4>2
      <4> QED BY <4>3 DEF Ordered
    <3>2. OrdersOfDial(p)'
      BY <1>9, <1>10 DEF OrdersOfDial
    <3> QED BY <3>1, <3>2
  <2> QED BY <1>5, <1>6, <1>7, <1>8, <1>10, <2>1 DEF OneInvite, OnlyInvite, UnderWay
<1>12. OneInvite(Other(p))'
  <2>1. \A j \in CallId : caller'[j] = Other(p) <=> caller[j] = Other(p)
    BY <1>0, <1>2, <1>10
  <2>2. \A q \in Seq(Signal) : OnlyInvite(q, Other(p)) => OnlyInvite(q, Other(p))'
    <3> SUFFICES ASSUME NEW q \in Seq(Signal), OnlyInvite(q, Other(p)), q # <<>>
                 PROVE  OnlyInvite(q, Other(p))'
      BY DEF OnlyInvite
    <3>1. Len(q) = 1 /\ q[1].id \in CallId /\ q[1].kind = "invite" /\ caller[q[1].id] = Other(p)
      BY InviteAlone
    <3> QED BY <2>1, <3>1 DEF OnlyInvite
  <2>3. /\ OnlyInvite(pending[Other(p)], Other(p))' /\ OnlyInvite(batch[Other(p)], Other(p))'
        /\ OnlyInvite(wire[Other(p)], Other(p))'
    <3>1. /\ pending[Other(p)] \in Seq(Signal) /\ batch[Other(p)] \in Seq(Signal)
          /\ wire[Other(p)] \in Seq(Signal)
      BY <1>0 DEF CallShape, TypesOfQueues
    <3> QED BY <1>1, <1>8, <2>2, <3>1 DEF OneInvite
  <2>4. OrdersOfDial(Other(p))' /\ (Ordered(Other(p))' <=> Ordered(Other(p)))
    BY <1>1, <1>10, <2>1 DEF OneInvite, OrdersOfDial, Ordered
  <2> QED BY <1>1, <1>7, <1>8, <2>1, <2>3, <2>4 DEF OneInvite
<1>13. EntryIsBacked(p)'
  BY <1>7, <1>10, <1>11 DEF EntryIsBacked
<1>14. EntryIsBacked(Other(p))'
  <2>1. call[Other(p)] # NoCall => call[Other(p)].phase = "outgoing"
    <3>1. call[Other(p)] # NoCall => call[Other(p)] \in Call
      BY <1>0
    <3> QED BY <1>0, <1>1, <1>4, <3>1 DEF EntryIsBacked, Call, Phase
  <2>2. call[Other(p)] # NoCall =>
            call[Other(p)].id \in CallId /\ caller[call[Other(p)].id] = Other(p)
            /\ UnderWay(Other(p))
    BY <1>0, <1>1, <1>4, <2>1 DEF EntryIsBacked, TakenBy, Call
  <2>3. UnderWay(Other(p)) => UnderWay(Other(p))'
    BY <1>8, <1>10 DEF UnderWay, Ordered
  <2>4. /\ call'[Other(p)] = call[Other(p)]
        /\ call[Other(p)] # NoCall => caller'[call[Other(p)].id] = Other(p)
    BY <1>0, <1>2, <1>7, <1>10, <2>2
  <2>5. call[Other(p)] # NoCall => call[Other(p)].phase # "connected" /\ call[Other(p)].phase # "incoming"
    BY <2>1
  <2> QED BY <2>2, <2>3, <2>4, <2>5 DEF EntryIsBacked
<1> QED BY <1>0, <1>11, <1>12, <1>13, <1>14 DEF Dialled

\* The invite arrives.
LEMMA ReceiveKeepsDialled ==
    ASSUME CallShape, Dialled, NEW p \in Peer, ReceiveSignal(p)
    PROVE  Dialled'
<1> DEFINE q == Other(p)
<1>0. /\ call \in [Peer -> Call \cup {NoCall}] /\ wire \in [Peer -> Seq(Signal)]
      /\ q \in Peer /\ q # p /\ Other(q) = p /\ \A r \in Peer : r = p \/ r = q
  BY TwoDevices DEF CallShape, TypesOfQueues, TypesOfTable
<1>1. OneInvite(p) /\ EntryIsBacked(p) /\ OneInvite(q) /\ EntryIsBacked(q)
  BY <1>0 DEF Dialled
<1>2. UNCHANGED <<caller, cmds, pending, batch, up>>
  BY DEF ReceiveSignal, hub, queue, history
<1>3. /\ wire[q] # <<>> /\ Head(wire[q]).kind # "hangup"
      /\ wire' = [wire EXCEPT ![q] = Tail(wire[q])]
  BY DEF ReceiveSignal, Arrives, Arrival, Consumed
<1> DEFINE a == wire[q][1].id
<1>4. /\ Head(wire[q]) = wire[q][1] /\ Tail(wire[q]) = <<>>
      /\ wire[q][1].kind = "invite" /\ a \in CallId /\ caller[a] = q
  BY <1>0, <1>1, <1>3, InviteAlone DEF OneInvite
<1>5. wire'[q] = <<>> /\ wire'[p] = wire[p]
  BY <1>0, <1>3, <1>4
<1>6. LET entries == ApplyInbound(call[p], "invite", a) IN
      IF entries = {} THEN UNCHANGED call ELSE \E c \in entries : call' = [call EXCEPT ![p] = c]
  BY <1>4 DEF ReceiveSignal, Arrival
<1>7. /\ call[q] # NoCall /\ call[q] \in Call
      /\ \A i \in CallId : caller[i] = q => i = a
  BY <1>0, <1>1, <1>4 DEF OneInvite
<1>8. call[q].phase \in {"outgoing", "incoming"} /\ call[q].id \in CallId
      /\ (call[q].phase = "outgoing" => call[q].id = a)
  BY <1>1, <1>7 DEF EntryIsBacked, Call, Phase
<1> HIDE DEF q, a
<1>9. OneInvite(q)' /\ ((Ordered(p))' <=> Ordered(p))
  <2>1. OneInvite(q)' <=> OneInvite(q)'
    OBVIOUS
  <2>2. call'[q] = call[q]
    BY <1>0, <1>6
  <2> QED BY <1>1, <1>2, <1>5, <2>2 DEF OneInvite, OrdersOfDial, OnlyInvite, Ordered
<1>10. UnderWay(p) <=> UnderWay(p)'
  BY <1>2, <1>5 DEF UnderWay, Ordered
<1>11. ASSUME call[p] = NoCall \/ YieldsTo(call[p], a) PROVE Dialled'
  <2>1. ApplyInbound(call[p], "invite", a) = {Fresh(a, "incoming")}
    BY <1>11 DEF ApplyInbound
  <2>2. call' = [call EXCEPT ![p] = Fresh(a, "incoming")]
    BY <1>6, <2>1
  <2>3. Fresh(a, "incoming") \in Call
    BY <1>4, CallAssumption DEF Fresh, Call, Phase, Age
  <2>4. /\ call'[p] = Fresh(a, "incoming") /\ call'[q] = call[q] /\ call'[p] # NoCall
        /\ call'[p].id = a /\ call'[p].phase = "incoming"
    BY <1>0, <2>2, <2>3, CallNulls DEF Fresh
  <2>5. call[q].phase = "outgoing"
    <3>1. ASSUME call[q].phase = "incoming" PROVE FALSE
      <4>1. /\ call[p] # NoCall /\ call[p].phase = "outgoing" /\ call[p].id = call[q].id
            /\ call[q].id < a
        BY <1>0, <1>1, <1>4, <1>7, <3>1 DEF EntryIsBacked
      <4>2. a < call[p].id
        BY <1>11, <4>1 DEF YieldsTo
      <4>3. a \in Nat /\ call[q].id \in Nat
        BY <1>4, <1>8, CallAssumption
      <4> QED BY <4>1, <4>2, <4>3
    <3> QED BY <1>8, <3>1
  <2>6. call[q].id = a
    BY <1>8, <2>5
  <2>7. \A i \in CallId : caller[i] = p => a < i
    <3> SUFFICES ASSUME NEW i \in CallId, caller[i] = p PROVE a < i
      OBVIOUS
    <3>1. call[p] # NoCall /\ YieldsTo(call[p], a)
      BY <1>1, <1>11 DEF OneInvite
    <3>2. call[p].phase = "outgoing" /\ a < call[p].id /\ call[p].id \in CallId
      BY <1>0, <3>1 DEF YieldsTo, InPhase, Call
    <3>3. caller[call[p].id] = p
      BY <1>1, <3>1, <3>2 DEF EntryIsBacked
    <3>4. i = call[p].id
      BY <1>1, <3>2, <3>3 DEF OneInvite
    <3> QED BY <3>2, <3>4
  <2>8. OneInvite(p)'
    BY <1>1, <1>2, <1>5, <1>9, <2>4 DEF OneInvite, OrdersOfDial, OnlyInvite, Ordered
  <2>9. EntryIsBacked(p)'
    BY <1>0, <1>2, <1>7, <2>4, <2>5, <2>6, <2>7 DEF EntryIsBacked, q
  <2>10. EntryIsBacked(q)'
    BY <1>0, <1>2, <1>4, <1>7, <2>4, <2>5, <2>6 DEF EntryIsBacked, TakenBy
  <2> QED BY <1>0, <1>9, <2>8, <2>9, <2>10 DEF Dialled
<1>12. ASSUME ~(call[p] = NoCall \/ YieldsTo(call[p], a)) PROVE Dialled'
  <2>1. ApplyInbound(call[p], "invite", a) = {}
    BY <1>12 DEF ApplyInbound
  <2>2. call' = call
    BY <1>6, <2>1
  <2>3. call[p] \in Call /\ call[p] # NoCall /\ call[p].id \in CallId
        /\ call[p].phase \in {"outgoing", "incoming"}
    BY <1>0, <1>1, <1>12 DEF EntryIsBacked, Call, Phase
  <2>4. call[q].phase = "outgoing" => TakenBy(call[p], call[q].id)
    <3> SUFFICES ASSUME call[q].phase = "outgoing" PROVE TakenBy(call[p], a)
      BY <1>8
    <3>1. CASE call[p].phase = "incoming"
      BY <1>1, <1>7, <1>8, <2>3, <3>1 DEF EntryIsBacked, TakenBy, q
    <3>2. CASE call[p].phase = "outgoing"
      <4>1. ~(a < call[p].id)
        BY <1>12, <2>3, <3>2 DEF YieldsTo, InPhase
      <4>2. caller[call[p].id] = p
        BY <1>1, <2>3, <3>2 DEF EntryIsBacked
      <4>3. a # call[p].id
        BY <1>0, <1>4, <4>2
      <4>4. call[p].id < a
        <5>1. a \in Nat /\ call[p].id \in Nat
          BY <1>4, <2>3, CallAssumption
        <5> QED BY <4>1, <4>3, <5>1
      <4> QED BY <2>3, <3>2, <4>4 DEF TakenBy
    <3> QED BY <2>3, <3>1, <3>2
  <2>5. OneInvite(p)'
    BY <1>1, <1>2, <1>5, <1>9, <2>2 DEF OneInvite, OrdersOfDial, OnlyInvite, Ordered
  <2>6. EntryIsBacked(p)'
    BY <1>1, <1>2, <1>10, <2>2 DEF EntryIsBacked, TakenBy
  <2>7. EntryIsBacked(q)'
    BY <1>0, <1>1, <1>2, <2>2, <2>4 DEF EntryIsBacked, TakenBy
  <2> QED BY <1>0, <1>9, <2>5, <2>6, <2>7 DEF Dialled
<1> QED BY <1>11, <1>12

LEMMA TimeKeepsDialled ==
    ASSUME CallShape, Dialled, TimePasses
    PROVE  Dialled'
<1>0. /\ call \in [Peer -> Call \cup {NoCall}] /\ pending \in [Peer -> Seq(Signal)]
      /\ batch \in [Peer -> Seq(Signal)] /\ wire \in [Peer -> Seq(Signal)]
      /\ \A p \in Peer : Other(p) \in Peer
  BY TwoDevices DEF CallShape, TypesOfQueues, TypesOfTable
<1>1. /\ call' = [p \in Peer |-> IF call[p] = NoCall THEN NoCall ELSE Older(call[p])]
      /\ pending' = OlderAll(pending) /\ batch' = OlderAll(batch) /\ wire' = OlderAll(wire)
      /\ UNCHANGED <<caller, cmds, up>>
  BY DEF TimePasses, hub, history
<1>2. ASSUME NEW f \in [Peer -> Seq(Signal)], NEW p \in Peer
      PROVE  /\ OlderAll(f)[p] = <<>> <=> f[p] = <<>>
             /\ OnlyInvite(f[p], p) => OnlyInvite(OlderAll(f)[p], p)
  <2>1. /\ OlderAll(f)[p] \in Seq(Signal) /\ f[p] \in Seq(Signal) /\ Len(OlderAll(f)[p]) = Len(f[p])
        /\ \A i \in 1..Len(f[p]) : OlderAll(f)[p][i] = Older(f[p][i])
    BY QueueGrowsOlder
  <2>2. OlderAll(f)[p] = <<>> <=> f[p] = <<>>
    BY <2>1
  <2>3. ASSUME OnlyInvite(f[p], p), f[p] # <<>> PROVE OnlyInvite(OlderAll(f)[p], p)
    <3>1. Len(f[p]) = 1 /\ f[p][1] \in Signal /\ f[p][1].kind = "invite" /\ caller[f[p][1].id] = p
      BY <2>1, <2>3, InviteAlone
    <3>2. 1 \in 1..Len(f[p])
      BY <3>1
    <3>3. OlderAll(f)[p][1] = Older(f[p][1])
      BY <2>1, <3>2
    <3> QED BY <2>1, <3>1, <3>3, OlderIsTyped DEF OnlyInvite
  <2> QED BY <2>2, <2>3 DEF OnlyInvite
<1>3. ASSUME NEW p \in Peer
      PROVE  /\ call'[p] = NoCall <=> call[p] = NoCall
             /\ call[p] # NoCall => call'[p].id = call[p].id /\ call'[p].phase = call[p].phase
  BY <1>0, <1>1, OlderIsTyped, CallNulls
<1>4. ASSUME NEW p \in Peer PROVE OneInvite(p)'
  <2>1. OneInvite(p)
    BY DEF Dialled
  <2>2. /\ pending'[p] = <<>> <=> pending[p] = <<>>
        /\ batch'[p] = <<>> <=> batch[p] = <<>>
        /\ wire'[p] = <<>> <=> wire[p] = <<>>
        /\ OnlyInvite(pending'[p], p) /\ OnlyInvite(batch'[p], p) /\ OnlyInvite(wire'[p], p)
    BY <1>0, <1>1, <1>2, <2>1 DEF OneInvite
  <2>3. /\ OnlyInvite(pending[p], p)' /\ OnlyInvite(batch[p], p)' /\ OnlyInvite(wire[p], p)'
    BY <1>1, <2>2 DEF OnlyInvite
  <2>4. OrdersOfDial(p)' /\ (Ordered(p)' <=> Ordered(p))
    BY <1>1, <2>1 DEF OneInvite, OrdersOfDial, Ordered
  <2> QED BY <1>1, <1>3, <2>1, <2>2, <2>3, <2>4 DEF OneInvite
<1>5. ASSUME NEW p \in Peer PROVE EntryIsBacked(p)'
  <2>1. EntryIsBacked(p) /\ Other(p) \in Peer
    BY <1>0 DEF Dialled
  <2>2. UnderWay(p)' <=> UnderWay(p)
    BY <1>0, <1>1, <1>2 DEF UnderWay, Ordered
  <2> QED BY <1>1, <1>3, <2>1, <2>2 DEF EntryIsBacked, TakenBy
<1> QED BY <1>4, <1>5 DEF Dialled

LEMMA StepKeepsDialled ==
    ASSUME CallShape, happened = {} => Dialled, [CallNext]_callVars
    PROVE  (happened = {} => Dialled)'
<1> SUFFICES ASSUME happened' = {} PROVE Dialled'
  OBVIOUS
<1>1. CASE UNCHANGED callVars
  <2>1. UNCHANGED <<call, caller, cmds, pending, batch, wire, up, happened>>
    BY <1>1 DEF callVars, hub, table, queue, link, history
  <2>2. Dialled
    BY <2>1
  <2> QED BY <2>1, <2>2 DEF Dialled, OneInvite, EntryIsBacked, OrdersOfDial, OnlyInvite, Ordered,
                          UnderWay, TakenBy
<1>2. CASE CallNext
  <2>1. ASSUME NEW p \in Peer, Hub(p) PROVE Dialled'
    <3>1. ASSUME NEW i \in CallId, Dial(p, i) PROVE Dialled'
      <4>1. happened = {}
        BY <3>1 DEF Dial
      <4> QED BY <3>1, <4>1, DialKeepsDialled
    <3>2. ~Answer(p) /\ ~End(p)
      BY DEF Answer, End, Happened
    <3> QED BY <2>1, <3>1, <3>2 DEF Hub
  <2>2. ASSUME NEW p \in Peer, Worker(p) PROVE Dialled'
    <3>1. happened = {}
      BY <2>2 DEF Worker, TakeSignal, WorkerFlush, TakeStart, TakeStop, history
    <3> QED BY <2>2, <3>1, WorkerKeepsDialled
  <2>3. ASSUME NEW p \in Peer, Session(p) \/ OthersFlush(p) PROVE Dialled'
    <3>1. happened = {}
      BY <2>3 DEF Session, ReadyDrain, ReadySend, OthersFlush, history
    <3> QED BY <2>3, <3>1, SessionKeepsDialled
  <2>4. ASSUME NEW p \in Peer, Receive(p) PROVE Dialled'
    <3>1. ~ReceiveStaleInvite(p)
      BY DEF ReceiveStaleInvite, Happened
    <3>2. happened = {}
      BY <2>4, <3>1 DEF Receive, ReceiveSignal, ReceiveHangup, history
    <3>3. ~ReceiveHangup(p)
      <4>1. Other(p) \in Peer /\ OneInvite(Other(p)) /\ wire[Other(p)] \in Seq(Signal)
        BY <3>2, TwoDevices DEF Dialled, CallShape, TypesOfQueues
      <4>2. wire[Other(p)] # <<>> => Head(wire[Other(p)]).kind = "invite"
        BY <4>1, InviteAlone DEF OneInvite
      <4> QED BY <4>2 DEF ReceiveHangup, Arrives, Arrival
    <3> QED BY <2>4, <3>1, <3>2, <3>3, ReceiveKeepsDialled DEF Receive
  <2>5. ASSUME NEW p \in Peer, ExpireRing(p) PROVE FALSE
    BY <2>5 DEF ExpireRing, Happened
  <2>6. ASSUME LinkUp PROVE Dialled'
    <3>1. /\ UNCHANGED <<call, caller, cmds, pending, batch, wire, happened>> /\ up'
      BY <2>6 DEF LinkUp, hub, table, history
    <3>2. Dialled
      BY <3>1
    <3> QED BY <3>1, <3>2 DEF Dialled, OneInvite, EntryIsBacked, OrdersOfDial, OnlyInvite, Ordered,
                            UnderWay, TakenBy
  <2>7. ~LinkDown
    BY DEF LinkDown, Happened
  <2>8. ASSUME TimePasses PROVE Dialled'
    <3>1. happened = {}
      BY <2>8 DEF TimePasses, history
    <3> QED BY <2>8, <3>1, TimeKeepsDialled
  <2> QED BY <1>2, <2>1, <2>2, <2>3, <2>4, <2>5, <2>6, <2>7, <2>8 DEF CallNext
<1> QED BY <1>1, <1>2

\* When nothing is under way, backed entries agree.
LEMMA QuietAgrees == CallShape /\ (happened = {} => Dialled) => DialsAgree
<1> SUFFICES ASSUME CallShape, Dialled, Quiet, NEW p \in Peer, call[p] # NoCall
             PROVE  /\ Named(call[Other(p)], call[p].id)
                    /\ {call[p].phase, call[Other(p)].phase} = {"outgoing", "incoming"}
  BY DEF DialsAgree
<1> DEFINE q == Other(p)
<1>0. q \in Peer /\ Other(q) = p
  BY TwoDevices
<1>1. EntryIsBacked(p) /\ EntryIsBacked(q)
  BY <1>0 DEF Dialled
<1>2. ~UnderWay(p) /\ ~UnderWay(q)
  BY <1>0 DEF Quiet, UnderWay, Ordered
<1>3. call[p] \in Call /\ (call[q] # NoCall => call[q] \in Call)
  BY <1>0 DEF CallShape, TypesOfTable
<1>4. CASE call[p].phase = "incoming"
  BY <1>1, <1>4 DEF EntryIsBacked, Named
<1>5. CASE call[p].phase = "outgoing"
  <2>1. TakenBy(call[q], call[p].id)
    BY <1>1, <1>2, <1>5 DEF EntryIsBacked
  <2>2. ~(call[q] # NoCall /\ call[q].phase = "outgoing" /\ call[q].id < call[p].id)
    <3> SUFFICES ASSUME call[q] # NoCall, call[q].phase = "outgoing", call[q].id < call[p].id
                 PROVE  FALSE
      OBVIOUS
    <3>1. TakenBy(call[p], call[q].id)
      BY <1>0, <1>1, <1>2 DEF EntryIsBacked
    <3>2. call[p].id < call[q].id
      BY <1>5, <3>1 DEF TakenBy
    <3>3. call[p].id \in Nat /\ call[q].id \in Nat
      BY <1>3, CallAssumption DEF Call
    <3> QED BY <3>2, <3>3
  <2>3. call[q] # NoCall /\ call[q].phase = "incoming" /\ call[q].id = call[p].id
    BY <2>1, <2>2 DEF TakenBy
  <2> QED BY <1>5, <2>3 DEF Named
<1>6. call[p].phase # "connected"
  BY <1>1 DEF EntryIsBacked
<1> QED BY <1>3, <1>4, <1>5, <1>6 DEF Call, Phase

\* Two devices that only dial, both at once included, show the same call when
\* every command and signal has arrived: one dials it and the other one rings,
\* whichever task has flushed the signals (apply_inbound, glare).
THEOREM DialsEndInOneCall == CallSpec => []DialsAgree
<1>1. CallInit => CallShape /\ (happened = {} => Dialled)
  <2>1. CallInit => Dialled
    BY CallAssumption DEF CallInit, Dialled, OneInvite, EntryIsBacked, OrdersOfDial, OnlyInvite, Ordered
  <2> QED BY <2>1, CallInitHasShape
<1>2. CallShape /\ (happened = {} => Dialled) /\ [CallNext]_callVars
          => CallShape' /\ (happened = {} => Dialled)'
  BY StepKeepsTypes, StepKeepsDialled
<1> QED BY <1>1, <1>2, QuietAgrees, PTL DEF CallSpec

-----------------------------------------------------------------------------
(* The pictures of a call (VideoFrames).                                   *)

LEMMA FirstKeyIsKey ==
    ASSUME buffer \in Seq(Frame), Keys # {}
    PROVE  FirstKey \in Keys
<1>1. Keys \subseteq Nat
  BY DEF Keys
<1>2. PICK i \in Keys : \A j \in Keys : ~(<<j, i>> \in OpToRel(<, Nat))
  BY <1>1, NatLessThanWellFounded, WFMin
<1>3. \A j \in Keys : i <= j
  <2> SUFFICES ASSUME NEW j \in Keys, ~(i <= j) PROVE FALSE
    OBVIOUS
  <2>1. <<j, i>> \in Nat \X Nat /\ j < i
    BY <1>1
  <2> QED BY <1>2, <2>1 DEF OpToRel
<1> QED BY <1>3 DEF FirstKey

\* What becomes of the frames when one is put behind, or those up to the i-th go.
LEMMA FramesMove ==
    ASSUME NEW q \in Seq(Frame)
    PROVE  /\ Len(q) \in Nat
           /\ \A f \in Frame : Append(q, f) \in Seq(Frame) /\ Len(Append(q, f)) = Len(q) + 1
           /\ q # <<>> => /\ Head(q) \in Frame /\ Tail(q) \in Seq(Frame) /\ Len(Tail(q)) = Len(q) - 1 /\ Len(q) > 0
           /\ \A i \in 1..Len(q) : SubSeq(q, i + 1, Len(q)) \in Seq(Frame)
                                   /\ Len(SubSeq(q, i + 1, Len(q))) = Len(q) - i
<1>1. Len(q) \in Nat
  OBVIOUS
<1>2. \A f \in Frame : Append(q, f) \in Seq(Frame) /\ Len(Append(q, f)) = Len(q) + 1
  OBVIOUS
<1>3. q # <<>> => Head(q) \in Frame /\ Tail(q) \in Seq(Frame) /\ Len(Tail(q)) = Len(q) - 1 /\ Len(q) > 0
  OBVIOUS
<1>4. \A i \in 1..Len(q) : SubSeq(q, i + 1, Len(q)) \in Seq(Frame) /\ Len(SubSeq(q, i + 1, Len(q))) = Len(q) - i
  OBVIOUS
<1> QED BY <1>1, <1>2, <1>3, <1>4

\* The frame that pop gives is in the buffer: the head, or the first keyframe.
LEMMA ReadyIsThere ==
    ASSUME buffer \in Seq(Frame), Ready # 0
    PROVE  /\ Ready \in 1..Len(buffer)
           /\ buffer[Ready].key \/ (Ready = 1 /\ buffer # <<>> /\ started /\ Head(buffer).follows)
<1>1. buffer # <<>>
  BY DEF Ready
<1>2. CASE started /\ Head(buffer).follows
  BY <1>1, <1>2, FramesMove DEF Ready
<1>3. CASE ~(started /\ Head(buffer).follows)
  <2>1. Keys # {} /\ Ready = FirstKey
    BY <1>1, <1>3 DEF Ready
  <2>2. Ready \in Keys
    BY <2>1, FirstKeyIsKey
  <2> QED BY <2>2 DEF Keys
<1> QED BY <1>2, <1>3

\* After an overflow the buffer is not empty, and its head is decoded without a
\* keyframe only as long as the request stands.
Flagged == skipped => buffer # <<>> /\ (wanted \/ ~(started /\ Head(buffer).follows))

VideoWell == VideoTypeOK /\ Flagged

LEMMA VideoStep ==
    ASSUME VideoWell, [VideoNext]_videoVars
    PROVE  VideoWell'
<1>1. /\ buffer \in Seq(Frame) /\ flight \in Seq(Frame) /\ Len(buffer) <= MaxDepth /\ Len(flight) <= MaxFlight
      /\ lost \in 0..MaxLost /\ MaxDepth \in Nat /\ MaxDepth >= 2 /\ MaxFlight \in Nat /\ MaxLost \in Nat
  BY VideoAssumption DEF VideoWell, VideoTypeOK
<1>2. ASSUME NEW own \in BOOLEAN, CaptureFrame(own)
      PROVE  VideoWell'
  <2>1. [key |-> forced \/ own, follows |-> ~torn] \in Frame
    BY DEF VideoWell, VideoTypeOK, Frame
  <2>2. flight' \in Seq(Frame) /\ Len(flight') <= MaxFlight
    BY <1>1, <1>2, <2>1, FramesMove DEF CaptureFrame
  <2> QED BY <1>2, <2>2 DEF CaptureFrame, asked, decoding, VideoWell, VideoTypeOK, Flagged
<1>3. CASE CaptureTorn
  <2>1. lost' \in 0..MaxLost
    BY <1>1, <1>3 DEF CaptureTorn
  <2> QED BY <1>3, <2>1, Zenon DEF CaptureTorn, asked, decoding, VideoWell, VideoTypeOK, Flagged
<1>4. CASE EncoderFails
  BY <1>4, Zenon DEF EncoderFails, asked, decoding, VideoWell, VideoTypeOK, Flagged
<1>k. CASE KeyRequestArrives
  BY <1>k, Zenon DEF KeyRequestArrives, decoding, VideoWell, VideoTypeOK, Flagged
<1>5. CASE FrameArrives
  <2> DEFINE q == Append(buffer, Head(flight))
  <2>1. flight # <<>> /\ flight' = Tail(flight) /\ Overflow(q)
        /\ UNCHANGED <<encoding, request, recent, asking, started, clean, lost>>
    BY <1>5 DEF FrameArrives
  <2>2. Head(flight) \in Frame /\ flight' \in Seq(Frame) /\ Len(flight') <= MaxFlight
    BY <1>1, <2>1, FramesMove
  <2>3. q \in Seq(Frame) /\ Len(q) = Len(buffer) + 1 /\ (buffer # <<>> => Head(q) = Head(buffer))
    BY <1>1, <2>2
  <2> HIDE DEF q
  <2>4. Len(buffer) \in Nat /\ Len(q) \in Nat /\ q # <<>> /\ Tail(q) \in Seq(Frame) /\ Len(Tail(q)) = Len(q) - 1
    BY <1>1, <2>3, FramesMove
  <2>5. CASE Len(q) <= MaxDepth
    <3>1. buffer' = q /\ UNCHANGED <<wanted, skipped>>
      BY <2>1, <2>5 DEF Overflow
    <3>2. VideoTypeOK'
      BY <2>1, <2>2, <2>3, <2>5, <3>1 DEF encoding, VideoWell, VideoTypeOK
    <3>3. Flagged'
      BY <2>1, <2>3, <2>4, <3>1 DEF VideoWell, Flagged
    <3> QED BY <3>2, <3>3 DEF VideoWell
  <2>6. CASE Len(q) > MaxDepth
    <3>1. buffer' = Tail(q) /\ skipped' = TRUE /\ wanted' = TRUE
      BY <1>1, <2>1, <2>4, <2>6 DEF Overflow
    <3>2. Len(buffer') <= MaxDepth /\ Len(buffer') > 0 /\ buffer' \in Seq(Frame)
      BY <1>1, <2>3, <2>4, <2>6, <3>1
    <3>3. VideoTypeOK'
      BY <2>1, <2>2, <3>1, <3>2 DEF encoding, VideoWell, VideoTypeOK
    <3>4. Flagged'
      BY <3>1, <3>2 DEF Flagged
    <3> QED BY <3>3, <3>4 DEF VideoWell
  <2> QED BY <1>1, <2>4, <2>5, <2>6
<1>6. CASE FrameTorn
  <2>1. flight # <<>> /\ lost < MaxLost /\ lost' = lost + 1 /\ UNCHANGED <<forced, asked, decoding>>
    BY <1>6 DEF FrameTorn
  <2>2. CASE Len(flight) = 1
    <3>1. flight' = <<>> /\ torn' = TRUE
      BY <1>6, <2>2 DEF FrameTorn
    <3> QED BY <1>1, <2>1, <3>1 DEF asked, decoding, VideoWell, VideoTypeOK, Flagged
  <2>3. CASE Len(flight) # 1
    <3> DEFINE rest == Tail(flight)
    <3>1. flight' = [rest EXCEPT ![1].follows = FALSE] /\ torn' = torn
      BY <1>6, <2>3 DEF FrameTorn
    <3>2. rest \in Seq(Frame) /\ Len(rest) = Len(flight) - 1 /\ Len(flight) \in Nat /\ Len(rest) > 0
      <4>1. rest \in Seq(Frame) /\ Len(rest) = Len(flight) - 1 /\ Len(flight) \in Nat /\ Len(flight) > 0
        BY <1>1, <2>1, FramesMove
      <4> HIDE DEF rest
      <4> QED BY <2>3, <4>1
    <3> HIDE DEF rest
    <3>3. rest[1] \in Frame
      BY <3>2
    <3>4. [rest[1] EXCEPT !.follows = FALSE] \in Frame
      BY <3>3 DEF Frame
    <3>5. flight' = [rest EXCEPT ![1] = [rest[1] EXCEPT !.follows = FALSE]]
      BY <3>1
    <3>6. flight' \in Seq(Frame) /\ Len(flight') = Len(rest)
      BY <3>2, <3>4, <3>5
    <3> QED BY <1>1, <2>1, <3>1, <3>2, <3>6 DEF asked, decoding, VideoWell, VideoTypeOK, Flagged
  <2> QED BY <2>2, <2>3
<1>7. CASE RenderFrame
  <2>1. /\ IF Ready = 0 THEN UNCHANGED decoding ELSE Decode(Ready)
        /\ request' = (request \/ wanted \/ Stalled) /\ wanted' = FALSE
        /\ UNCHANGED <<encoding, flight, recent, asking, lost>>
    BY <1>7 DEF RenderFrame
  <2>2. request' \in BOOLEAN
    BY <2>1
  <2>3. CASE Ready = 0
    <3>1. UNCHANGED <<buffer, started, skipped, clean>>
      BY <2>1, <2>3 DEF decoding
    <3>2. buffer = <<>> \/ ~(started /\ Head(buffer).follows)
      BY <2>3 DEF Ready
    <3> QED BY <2>1, <2>2, <3>1, <3>2 DEF encoding, VideoWell, VideoTypeOK, Flagged
  <2>4. CASE Ready # 0
    <3>1. /\ buffer' = SubSeq(buffer, Ready + 1, Len(buffer))
          /\ started' = TRUE /\ skipped' = FALSE /\ clean' = (buffer[Ready].key \/ (clean /\ ~skipped))
      BY <2>1, <2>4 DEF Decode
    <3>2. Ready \in 1..Len(buffer) /\ buffer[Ready].key \in BOOLEAN
      <4>1. Ready \in 1..Len(buffer)
        BY <1>1, <2>4, ReadyIsThere
      <4>2. buffer[Ready] \in Frame
        BY <1>1, <4>1
      <4> QED BY <4>1, <4>2 DEF Frame
    <3>3. buffer' \in Seq(Frame) /\ Len(buffer') <= MaxDepth
      BY <1>1, <3>1, <3>2, FramesMove
    <3>4. clean' \in BOOLEAN
      BY <3>1
    <3> QED BY <2>1, <2>2, <3>1, <3>3, <3>4 DEF encoding, VideoWell, VideoTypeOK, Flagged
  <2> QED BY <2>3, <2>4
<1>s. CASE SendKeyRequest
  <2>1. request' \in BOOLEAN /\ recent' \in BOOLEAN /\ asking' \in BOOLEAN
    BY <1>s, Zenon DEF SendKeyRequest, VideoWell, VideoTypeOK
  <2> QED BY <1>s, <2>1, Zenon DEF SendKeyRequest, encoding, decoding, VideoWell, VideoTypeOK, Flagged
<1>8. CASE SecondPasses
  BY <1>8, Zenon DEF SecondPasses, encoding, decoding, VideoWell, VideoTypeOK, Flagged
<1>9. CASE UNCHANGED videoVars
  BY <1>9 DEF videoVars, encoding, asked, decoding, VideoWell, VideoTypeOK, Flagged
<1> QED BY <1>2, <1>3, <1>4, <1>k, <1>5, <1>6, <1>7, <1>s, <1>8, <1>9 DEF VideoNext

LEMMA VideoStart == VideoInit => VideoWell
<1> SUFFICES ASSUME VideoInit PROVE VideoWell
  OBVIOUS
<1>1. flight \in Seq(Frame) /\ Len(flight) <= MaxFlight /\ buffer \in Seq(Frame) /\ Len(buffer) <= MaxDepth /\ lost \in 0..MaxLost
  BY VideoAssumption DEF VideoInit
<1>2. \A b \in {forced, torn, started, wanted, request, recent, asking, skipped, clean} : b \in BOOLEAN
  BY DEF VideoInit
<1> QED BY <1>1, <1>2 DEF VideoInit, VideoWell, VideoTypeOK, Flagged

(* The buffer never holds more pictures than it may, whatever arrives      *)
(* (VideoJitter::push).                                                    *)
THEOREM VideoTypeCorrect == VideoSpec => []VideoTypeOK
<1>1. VideoWell => VideoTypeOK
  BY DEF VideoWell
<1> QED BY <1>1, VideoStart, VideoStep, PTL DEF VideoSpec

(* No picture is decoded on top of one that was thrown away without a      *)
(* keyframe being asked for by then, for any depth of the buffer and any   *)
(* loss (VideoJitter::push, pop, render_tick).                             *)
THEOREM BrokenIsFlagged == VideoSpec => BrokenPictureIsFlagged
<1>1. VideoWell /\ [VideoNext]_videoVars => [clean /\ ~clean' => request']_videoVars
  <2> SUFFICES ASSUME VideoWell, VideoNext, clean, ~clean'
               PROVE  request'
    OBVIOUS
  <2>1. RenderFrame
    BY DEF VideoNext, CaptureFrame, CaptureTorn, EncoderFails, FrameArrives, FrameTorn, SendKeyRequest,
           SecondPasses, KeyRequestArrives, decoding
  <2>2. Ready # 0
    BY <2>1 DEF RenderFrame, decoding
  <2>3. ~buffer[Ready].key /\ skipped
    BY <2>1, <2>2 DEF RenderFrame, Decode
  <2>4. buffer # <<>> /\ started /\ Head(buffer).follows
    BY <2>2, <2>3, ReadyIsThere DEF VideoWell, VideoTypeOK
  <2>5. wanted
    BY <2>3, <2>4 DEF VideoWell, Flagged
  <2> QED BY <2>1, <2>5 DEF RenderFrame
<1> QED BY <1>1, VideoStart, VideoStep, PTL DEF VideoSpec, BrokenPictureIsFlagged
=============================================================================
