--------------------------- MODULE ReceiptProofs ---------------------------
(***************************************************************************)
(* Proofs about ReadReceipts: who has read what, and when rooms were left, *)
(* for every set of contacts and messages, any time and any number of      *)
(* refused receipts.                                                       *)
(***************************************************************************)
EXTENDS ReadReceipts, TLAPS

HubState == [at : HubPhase, left : 0..2, rows : SUBSET Mail]

\* The types of what the hub thread is at, and of the receipts.
TypesOfRoom ==
    /\ time \in 1..LastTime
    /\ live \in Contact \cup {Nobody} /\ visible \in BOOLEAN /\ gate \in BOOLEAN
    /\ clock \in 0..time /\ exitAt \in [Contact -> 0..time]
    /\ cmds \in Seq(Contact \cup {Nobody})

TypesOfReceipts ==
    /\ hub \in HubState
    /\ received \in [Mail -> 0..time]
    /\ receipted \subseteq Mail /\ queued \subseteq Mail /\ shown \subseteq Mail
    /\ arriving \in Mail \cup {NoMsg}
    /\ sending \in [Thread -> Mail \cup {NoMsg}]
    /\ failures \in 0..MaxFailures

LEMMA ReceiptTypesInParts == ReceiptsTypeOK <=> TypesOfRoom /\ TypesOfReceipts
  BY DEF ReceiptsTypeOK, TypesOfRoom, TypesOfReceipts, HubState

LEMMA ReceiptTypesInPartsNext == ReceiptsTypeOK' <=> TypesOfRoom' /\ TypesOfReceipts'
  BY DEF ReceiptsTypeOK, TypesOfRoom, TypesOfReceipts, HubState

\* Where the hub thread goes.
LEMMA HubSteps ==
    /\ \A n \in {0, 1} : [at |-> "load", left |-> n, rows |-> {}] \in HubState
    /\ AtRest \in HubState
    /\ \A h \in HubState, S \in SUBSET Mail :
          /\ [h EXCEPT !.rows = S] \in HubState
          /\ \A l \in HubPhase : [h EXCEPT !.at = l, !.rows = S] \in HubState
          /\ h.left > 0 => [h EXCEPT !.at = "load", !.left = @ - 1] \in HubState
<1>1. \A n \in {0, 1} : [at |-> "load", left |-> n, rows |-> {}] \in HubState
  BY DEF HubState, HubPhase
<1>2. AtRest \in HubState
  BY DEF HubState, HubPhase, AtRest
<1>3. ASSUME NEW h \in HubState, NEW S \in SUBSET Mail
      PROVE  /\ [h EXCEPT !.rows = S] \in HubState
             /\ \A l \in HubPhase : [h EXCEPT !.at = l, !.rows = S] \in HubState
             /\ h.left > 0 => [h EXCEPT !.at = "load", !.left = @ - 1] \in HubState
  <2>1. [h EXCEPT !.rows = S] \in HubState
    BY DEF HubState
  <2>2. \A l \in HubPhase : [h EXCEPT !.at = l, !.rows = S] \in HubState
    BY DEF HubState
  <2>3. ASSUME h.left > 0 PROVE [h EXCEPT !.at = "load", !.left = @ - 1] \in HubState
    <3>1. h.left - 1 \in 0..2 /\ "load" \in HubPhase
      BY <2>3 DEF HubState, HubPhase
    <3> QED BY <3>1 DEF HubState
  <2> QED BY <2>1, <2>2, <2>3
<1> QED BY <1>1, <1>2, <1>3

LEMMA TypesOfTurn ==
    ASSUME TypesOfReceipts, NEW t, NEW m, PassTurn(t, m)
    PROVE  hub' \in HubState
<1>1. hub.rows \ {m} \in SUBSET Mail
  BY DEF TypesOfReceipts, HubState
<1>2. hub' = hub \/ hub' = [hub EXCEPT !.rows = hub.rows \ {m}]
  BY DEF PassTurn
<1>3. hub \in HubState
  BY DEF TypesOfReceipts
<1> QED BY <1>1, <1>2, <1>3, HubSteps

LEMMA ReceiptTypesStart == ReceiptsInit => ReceiptsTypeOK
<1> SUFFICES ASSUME ReceiptsInit PROVE ReceiptsTypeOK
  OBVIOUS
<1>1. time \in 1..LastTime /\ 0 \in 0..time /\ failures \in 0..MaxFailures
  BY ReceiptAssumption DEF ReceiptsInit
<1>2. TypesOfRoom
  <2>1. cmds \in Seq(Contact \cup {Nobody}) /\ exitAt \in [Contact -> 0..time]
    BY <1>1 DEF ReceiptsInit
  <2> QED BY <1>1, <2>1 DEF ReceiptsInit, TypesOfRoom
<1>3. TypesOfReceipts
  BY <1>1, HubSteps DEF ReceiptsInit, TypesOfReceipts
<1> QED BY <1>2, <1>3, ReceiptTypesInParts

LEMMA ReceiptTypesStay == ReceiptsTypeOK /\ [ReceiptsNext]_receiptsVars => ReceiptsTypeOK'
<1> SUFFICES ASSUME ReceiptsTypeOK, [ReceiptsNext]_receiptsVars PROVE ReceiptsTypeOK'
  OBVIOUS
<1>0. TypesOfRoom /\ TypesOfReceipts
  BY ReceiptTypesInParts
<1>1. ASSUME NEW c \in Contact, ShowRoom(c) PROVE ReceiptsTypeOK'
  <2>1. TypesOfRoom'
    BY <1>0, <1>1 DEF ShowRoom, clocks, TypesOfRoom
  <2>2. hub' \in HubState
    <3>1. \/ hub' = [at |-> "load", left |-> 1, rows |-> {}]
          \/ hub' = [at |-> "load", left |-> 0, rows |-> {}]
      BY <1>1 DEF ShowRoom
    <3> QED BY <3>1, HubSteps
  <2>3. TypesOfReceipts'
    BY <1>0, <1>1, <2>2 DEF ShowRoom, rows, receipts, Displayed, TypesOfReceipts
  <2> QED BY <2>1, <2>3, ReceiptTypesInPartsNext
<1>2. CASE LeaveRoom \/ HideApp
  <2>1. exitAt' \in [Contact -> 0..time]
    BY <1>0, <1>2 DEF LeaveRoom, HideApp, clocks, TypesOfRoom
  <2>2. TypesOfRoom'
    <3>1. clock' \in 0..time /\ cmds' \in Seq(Contact \cup {Nobody})
      <4>1. clock \in 0..time /\ time \in Nat /\ cmds \in Seq(Contact \cup {Nobody})
        BY <1>0, ReceiptAssumption DEF TypesOfRoom
      <4>2. clock' \in {clock, 0} /\ cmds' \in {cmds, Append(cmds, Nobody)}
        BY <1>2 DEF LeaveRoom, HideApp, clocks
      <4> QED BY <4>1, <4>2
    <3> QED BY <1>0, <1>2, <2>1, <3>1 DEF LeaveRoom, HideApp, TypesOfRoom
  <2>3. TypesOfReceipts'
    BY <1>0, <1>2 DEF LeaveRoom, HideApp, rows, receipts, TypesOfReceipts
  <2> QED BY <2>2, <2>3, ReceiptTypesInPartsNext
<1>3. CASE HubWork
  <2>1. TypesOfRoom'
    BY <1>0, <1>3 DEF HubWork, SeedLoad, SeedEnqueue, DrainEnds, Skip, room, clocks, TypesOfRoom
  <2>2. hub' \in HubState /\ queued' \subseteq Mail
    <3>0. DueReceipts(live) \in SUBSET Mail /\ queued \cup hub.rows \in SUBSET Mail
      BY <1>0 DEF DueReceipts, TypesOfReceipts, HubState
    <3>1. CASE SeedLoad \/ SeedEnqueue
      <4>1. \E l \in HubPhase, S \in SUBSET Mail : hub' = [hub EXCEPT !.at = l, !.rows = S]
        BY <3>0, <3>1 DEF SeedLoad, SeedEnqueue, HubPhase
      <4>2. queued' \in {queued, queued \cup hub.rows}
        BY <3>1 DEF SeedLoad, SeedEnqueue, receipts
      <4>3. hub \in HubState /\ queued \subseteq Mail
        BY <1>0 DEF TypesOfReceipts
      <4>4. PICK l \in HubPhase, S \in SUBSET Mail : hub' = [hub EXCEPT !.at = l, !.rows = S]
        BY <4>1
      <4>5. hub' \in HubState
        BY <4>3, <4>4 DEF HubState
      <4> QED BY <3>0, <4>2, <4>3, <4>5
    <3>2. CASE DrainEnds
      <4>1. hub' = AtRest \/ (hub.left > 0 /\ hub' = [hub EXCEPT !.at = "load", !.left = @ - 1])
        BY <3>2 DEF DrainEnds
      <4> QED BY <1>0, <3>2, <4>1, HubSteps DEF DrainEnds, receipts, TypesOfReceipts
    <3>3. ASSUME NEW m \in Mail, Skip(m) PROVE hub' \in HubState /\ queued' \subseteq Mail
      BY <1>0, <3>3, TypesOfTurn DEF Skip, receipts, TypesOfReceipts
    <3> QED BY <1>3, <3>1, <3>2, <3>3 DEF HubWork
  <2>3. UNCHANGED <<time, received, receipted, shown, arriving, sending, failures>>
    BY <1>3 DEF HubWork, SeedLoad, SeedEnqueue, DrainEnds, Skip, rows, receipts
  <2>4. TypesOfReceipts'
    BY <1>0, <2>2, <2>3 DEF TypesOfReceipts
  <2> QED BY <2>1, <2>4, ReceiptTypesInPartsNext
<1>4. CASE ConnectWorker
  <2>1. clock' \in 0..time /\ exitAt' \in [Contact -> 0..time]
    <3>1. time \in 0..time
      BY <1>0, ReceiptAssumption DEF TypesOfRoom
    <3> QED BY <1>0, <1>4, <3>1 DEF ConnectWorker, BeginSession, TickSession, clocks, TypesOfRoom
  <2>2. cmds' \in Seq(Contact \cup {Nobody})
    <3>1. cmds' = cmds \/ (cmds # <<>> /\ cmds' = Tail(cmds))
      BY <1>4 DEF ConnectWorker, BeginSession, TickSession
    <3>2. cmds \in Seq(Contact \cup {Nobody})
      BY <1>0 DEF TypesOfRoom
    <3> QED BY <3>1, <3>2
  <2>3. TypesOfRoom' /\ TypesOfReceipts'
    BY <1>0, <1>4, <2>1, <2>2 DEF ConnectWorker, BeginSession, TickSession, room, rows, receipts,
                                  TypesOfRoom, TypesOfReceipts
  <2> QED BY <2>3, ReceiptTypesInPartsNext
<1>5. ASSUME NEW m \in Mail, Receive(m) PROVE ReceiptsTypeOK'
  <2>1. TypesOfRoom'
    BY <1>0, <1>5 DEF Receive, room, clocks, TypesOfRoom
  <2>2. received' \in [Mail -> 0..time]
    <3>1. time \in 0..time
      BY <1>0, ReceiptAssumption DEF TypesOfRoom
    <3> QED BY <1>0, <1>5, <3>1 DEF Receive, TypesOfReceipts
  <2>3. TypesOfReceipts'
    BY <1>0, <1>5, <2>2 DEF Receive, receipts, TypesOfReceipts
  <2> QED BY <2>1, <2>3, ReceiptTypesInPartsNext
<1>6. CASE TryRead
  <2>1. TypesOfRoom' /\ TypesOfReceipts'
    BY <1>0, <1>6 DEF TryRead, room, clocks, rows, Thread, TypesOfRoom, TypesOfReceipts
  <2> QED BY <2>1, ReceiptTypesInPartsNext
<1>7. ASSUME NEW t \in Thread, NEW m \in Mail, Attempt(t, m) \/ DropSent(t, m) PROVE ReceiptsTypeOK'
  <2>1. hub' \in HubState
    BY <1>0, <1>7, TypesOfTurn DEF Attempt, DropSent
  <2>2. TypesOfRoom' /\ TypesOfReceipts'
    BY <1>0, <1>7, <2>1 DEF Attempt, DropSent, room, clocks, rows, TypesOfRoom, TypesOfReceipts
  <2> QED BY <2>2, ReceiptTypesInPartsNext
<1>8. ASSUME NEW t \in Thread, ReadDone(t) \/ ReadFails(t) PROVE ReceiptsTypeOK'
  <2>1. failures' \in 0..MaxFailures
    BY <1>0, <1>8, ReceiptAssumption DEF ReadDone, ReadFails, TypesOfReceipts
  <2>2. TypesOfRoom' /\ TypesOfReceipts'
    BY <1>0, <1>8, <2>1 DEF ReadDone, ReadFails, room, clocks, rows, TypesOfRoom, TypesOfReceipts
  <2> QED BY <2>2, ReceiptTypesInPartsNext
<1>9. CASE TimePasses
  <2>1. time' \in 1..LastTime /\ 0..time \subseteq 0..time'
    BY <1>0, <1>9, ReceiptAssumption DEF TimePasses, TypesOfRoom
  <2>2. TypesOfRoom'
    BY <1>0, <1>9, <2>1 DEF TimePasses, room, clocks, TypesOfRoom
  <2>3. TypesOfReceipts'
    BY <1>0, <1>9, <2>1 DEF TimePasses, rows, receipts, TypesOfReceipts
  <2> QED BY <2>2, <2>3, ReceiptTypesInPartsNext
<1>10. CASE UNCHANGED receiptsVars
  BY <1>10 DEF receiptsVars, room, clocks, rows, receipts, ReceiptsTypeOK
<1> QED BY <1>1, <1>2, <1>3, <1>4, <1>5, <1>6, <1>7, <1>8, <1>9, <1>10 DEF ReceiptsNext, Hub, Receipts

\* Every state of the rooms and of the receipts has its type.
THEOREM ReceiptTypeCorrect == ReceiptsSpec => []ReceiptsTypeOK
  BY ReceiptTypesStart, ReceiptTypesStay, PTL DEF ReceiptsSpec

-----------------------------------------------------------------------------
(* Receipts tell the truth.                                                *)

\* The hub thread seeds and sends while its room stays open, and whatever is
\* queued, copied, just stored or on its way has been on the screen.
OnScreen ==
    /\ hub.at # "idle" => live # Nobody /\ MaySend(live)
    /\ hub.rows \cup queued \subseteq shown
    /\ arriving # NoMsg => Arrived(arriving)
    /\ \A m \in Mail : Arrived(m) /\ MaySend(RoomOf[m]) => m \in shown
    /\ receipted \subseteq shown
    /\ \A t \in Thread : sending[t] # NoMsg => sending[t] \in shown

LEMMA OnScreenStays ==
    ASSUME ReceiptsTypeOK, OnScreen, [ReceiptsNext]_receiptsVars
    PROVE  OnScreen'
<1>0. /\ TypesOfRoom /\ TypesOfReceipts
      /\ hub \in [at : HubPhase, left : 0..2, rows : SUBSET Mail]
  BY ReceiptTypesInParts DEF TypesOfReceipts, HubState
<1>t. Thread = {"hub", "delivery"}
  BY DEF Thread
<1>1. ASSUME NEW c \in Contact, ShowRoom(c) PROVE OnScreen'
  <2>1. /\ hub'.rows = {} /\ UNCHANGED <<queued, arriving, received, receipted, sending>>
        /\ live' = c /\ shown' = shown \cup Displayed(c)
    BY <1>1 DEF ShowRoom, rows, receipts
  <2>2. live' # Nobody /\ MaySend(live)'
    BY <1>1, ReceiptAssumption DEF ShowRoom, MaySend
  <2>3. \A m \in Mail : Arrived(m)' /\ MaySend(RoomOf[m])' => m \in shown'
    BY <2>1 DEF OnScreen, MaySend, Arrived, Displayed
  <2> QED BY <2>1, <2>2, <2>3 DEF OnScreen, Arrived
<1>2. CASE LeaveRoom \/ HideApp
  <2>1. /\ hub = AtRest /\ UNCHANGED <<hub, queued, arriving, received, receipted, sending, shown>>
        /\ gate' = FALSE
    BY <1>2 DEF LeaveRoom, HideApp, rows, receipts
  <2> QED BY <2>1 DEF OnScreen, Arrived, MaySend, AtRest
<1>3. CASE HubWork
  <2>1. UNCHANGED <<live, visible, gate, arriving, received, receipted, sending, shown>>
    BY <1>3 DEF HubWork, SeedLoad, SeedEnqueue, DrainEnds, Skip, room, rows, receipts
  <2>2. /\ hub'.at # "idle" => hub.at # "idle"
        /\ hub'.rows \cup queued' \subseteq shown
    <3>1. CASE SeedLoad
      <4>1. DueReceipts(live) \subseteq shown
        BY <3>1 DEF SeedLoad, OnScreen, DueReceipts, Unread
      <4> QED BY <1>0, <3>1, <4>1 DEF SeedLoad, OnScreen, receipts
    <3>2. CASE SeedEnqueue
      BY <1>0, <3>2 DEF SeedEnqueue, OnScreen
    <3>3. CASE DrainEnds
      BY <1>0, <3>3 DEF DrainEnds, OnScreen, receipts, AtRest
    <3>4. ASSUME NEW m \in Mail, Skip(m)
          PROVE  (hub'.at # "idle" => hub.at # "idle") /\ hub'.rows \cup queued' \subseteq shown
      BY <1>0, <3>4 DEF Skip, PassTurn, OnScreen, receipts
    <3> QED BY <1>3, <3>1, <3>2, <3>3, <3>4 DEF HubWork
  <2> QED BY <2>1, <2>2 DEF OnScreen, Arrived, MaySend
<1>4. CASE ConnectWorker
  BY <1>4 DEF ConnectWorker, BeginSession, TickSession, OnScreen, Arrived, MaySend, room, rows, receipts
<1>5. ASSUME NEW m \in Mail, Receive(m) PROVE OnScreen'
  <2>1. /\ UNCHANGED <<live, visible, gate, hub, queued, receipted, sending>> /\ arriving' = m
        /\ received' = [received EXCEPT ![m] = time] /\ shown \subseteq shown'
        /\ MaySend(RoomOf[m]) => m \in shown'
    BY <1>5 DEF Receive, room, rows, receipts
  <2>2. received'[m] > 0 /\ \A n \in Mail \ {m} : received'[n] = received[n]
    BY <1>0, <2>1, ReceiptAssumption DEF TypesOfRoom, TypesOfReceipts
  <2> QED BY <2>1, <2>2 DEF OnScreen, Arrived, MaySend
<1>6. CASE TryRead
  <2>1. /\ UNCHANGED <<live, visible, gate, hub, queued, received, receipted, shown>>
        /\ arriving # NoMsg /\ arriving' = NoMsg
        /\ sending' = sending \/ (MaySend(RoomOf[arriving]) /\ sending' = [sending EXCEPT !["delivery"] = arriving])
    BY <1>6 DEF TryRead, room, rows
  <2>2. MaySend(RoomOf[arriving]) => arriving \in shown
    BY <1>0, <2>1 DEF OnScreen, TypesOfReceipts
  <2>3. \A t \in Thread : sending'[t] = sending[t] \/ sending'[t] \in shown
    BY <1>0, <1>t, <2>1, <2>2 DEF TypesOfReceipts
  <2> QED BY <2>1, <2>3 DEF OnScreen, Arrived, MaySend
<1>7. ASSUME NEW t \in Thread, NEW m \in Mail, Attempt(t, m) \/ DropSent(t, m) PROVE OnScreen'
  <2>1. /\ UNCHANGED <<live, visible, gate, arriving, received, receipted, shown>>
        /\ queued' \subseteq queued
        /\ sending' = sending \/ sending' = [sending EXCEPT ![t] = m]
    BY <1>7 DEF Attempt, DropSent, room, rows
  <2>2. hub'.at = hub.at /\ hub'.rows \subseteq hub.rows
    BY <1>0, <1>7 DEF Attempt, DropSent, PassTurn
  <2>3. m \in shown
    BY <1>7 DEF Attempt, DropSent, Turn, OnScreen
  <2>4. \A u \in Thread : sending'[u] = sending[u] \/ sending'[u] = m
    BY <1>0, <2>1 DEF TypesOfReceipts
  <2> QED BY <2>1, <2>2, <2>3, <2>4 DEF OnScreen, Arrived, MaySend
<1>8. ASSUME NEW t \in Thread, ReadDone(t) \/ ReadFails(t) PROVE OnScreen'
  <2>1. /\ UNCHANGED <<live, visible, gate, hub, arriving, received, shown>>
        /\ queued' \subseteq queued /\ receipted' \subseteq receipted \cup {sending[t]} /\ sending[t] # NoMsg
        /\ sending' = [sending EXCEPT ![t] = NoMsg]
    BY <1>8 DEF ReadDone, ReadFails, room, rows
  <2>2. \A u \in Thread : sending'[u] = sending[u] \/ sending'[u] = NoMsg
    BY <1>0, <2>1 DEF TypesOfReceipts
  <2> QED BY <2>1, <2>2 DEF OnScreen, Arrived, MaySend
<1>9. CASE TimePasses
  BY <1>9 DEF TimePasses, OnScreen, Arrived, MaySend, room, rows, receipts
<1>10. CASE UNCHANGED receiptsVars
  BY <1>10 DEF receiptsVars, OnScreen, Arrived, MaySend, room, rows, receipts
<1> QED BY <1>1, <1>2, <1>3, <1>4, <1>5, <1>6, <1>7, <1>8, <1>9, <1>10 DEF ReceiptsNext, Hub, Receipts

\* A read receipt is sent, and is on its way, only for a message that the open,
\* visible room has displayed, for every number of rooms, messages, late
\* commands and failures.
THEOREM ReceiptsTellTheTruth == ReceiptsSpec => []ReadOnlyIfShown
<1>1. ReceiptsInit => OnScreen
  BY DEF ReceiptsInit, OnScreen, AtRest, MaySend, Arrived, Thread
<1>2. OnScreen => ReadOnlyIfShown
  BY DEF OnScreen, ReadOnlyIfShown
<1> QED BY <1>1, <1>2, ReceiptTypeCorrect, OnScreenStays, PTL DEF ReceiptsSpec

-----------------------------------------------------------------------------
(* The clock of the room.                                                  *)

\* While the clock of the room runs, no room was left after it.
ClockLeads == clock > 0 => \A c \in Contact : exitAt[c] <= clock

LEMMA ClockKeepsLead ==
    ASSUME ReceiptsTypeOK, ClockLeads, [ReceiptsNext]_receiptsVars
    PROVE  ClockLeads' /\ \A c \in Contact : exitAt'[c] >= exitAt[c]
<1>0. /\ time \in 1..LastTime /\ clock \in 0..time /\ exitAt \in [Contact -> 0..time]
      /\ live \in Contact \cup {Nobody} /\ \A c \in Contact : exitAt[c] \in 0..time
  BY DEF ReceiptsTypeOK
<1>1. CASE HideApp
  <2>1. clock' = 0 /\ (exitAt' = exitAt \/ (live # Nobody /\ clock > 0 /\ exitAt' = [exitAt EXCEPT ![live] = clock]))
    BY <1>1 DEF HideApp
  <2> QED BY <1>0, <2>1, ReceiptAssumption DEF ClockLeads
<1>2. CASE ConnectWorker
  <2>1. \/ UNCHANGED clocks
        \/ \E d : clock' = time /\ exitAt' = [exitAt EXCEPT ![d] = time]
    BY <1>2 DEF ConnectWorker, BeginSession, TickSession
  <2> QED BY <1>0, <2>1, ReceiptAssumption DEF ClockLeads, clocks
<1>3. CASE UNCHANGED clocks
  BY <1>0, <1>3, ReceiptAssumption DEF ClockLeads, clocks
<1>4. HideApp \/ ConnectWorker \/ UNCHANGED clocks
  BY DEF ReceiptsNext, receiptsVars, Hub, HubWork, Receipts, ShowRoom, LeaveRoom, SeedLoad, SeedEnqueue,
         DrainEnds, Skip, Receive, TryRead, Attempt, DropSent, ReadDone, ReadFails, TimePasses
<1> QED BY <1>1, <1>2, <1>3, <1>4

\* The exit time of a room never goes back.
THEOREM ExitsMoveForward == ReceiptsSpec => ExitMovesForward
<1>1. ReceiptsInit => ClockLeads
  BY DEF ReceiptsInit, ClockLeads
<1>2. ReceiptsSpec => [](ReceiptsTypeOK /\ ClockLeads)
  BY <1>1, ReceiptTypeCorrect, ClockKeepsLead, PTL DEF ReceiptsSpec
<1>3. ReceiptsTypeOK /\ ClockLeads /\ [ReceiptsNext]_receiptsVars
          => [\A c \in Contact : exitAt'[c] >= exitAt[c]]_receiptsVars
  BY ClockKeepsLead
<1> QED BY <1>2, <1>3, PTL DEF ReceiptsSpec, ExitMovesForward
=============================================================================
