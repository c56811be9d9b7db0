------------------------- MODULE PeerSessionsProofs -------------------------
(***************************************************************************)
(* Theorems about PeerSessions, for any number of connections, breaks and  *)
(* expiries.                                                               *)
(***************************************************************************)
EXTENDS PeerSessions, TLAPS

\* Only the ends of connections that were dialled have begun to live.
Dialled == \A d \in Device, c \in Conn : end[d][c] # "none" => c \in DOMAIN dialled

Inv == TypeOK /\ Dialled /\ WriterIsAlive

-----------------------------------------------------------------------------
\* What a step of one end does to the lives of the ends.
Moves(d, c, phase) ==
    /\ end' \in [Device -> [Conn -> Phase]]
    /\ end'[d][c] = phase
    /\ \A x \in Device, y \in Conn : x # d \/ y # c => end'[x][y] = end[x][y]

LEMMA OneEndMoves ==
    ASSUME TypeOK, NEW d \in Device, NEW c \in Conn, NEW phase \in Phase, Goes(d, c, phase)
    PROVE  Moves(d, c, phase)
BY DEF TypeOK, Goes, Moves

\* A new connection begins at the given ends and leaves the others alone.
LEMMA NewConnection ==
    ASSUME TypeOK, NEW d \in Device, NEW ends \in SUBSET Device, Connects(d, ends)
    PROVE  /\ dialled' \in Seq(Device) /\ Len(dialled') <= MaxConns
           /\ end' \in [Device -> [Conn -> Phase]]
           /\ Len(dialled) + 1 \in Conn
           /\ Len(dialled') = Len(dialled) + 1
           /\ DOMAIN dialled' = DOMAIN dialled \cup {Len(dialled) + 1}
           /\ Len(dialled) + 1 \notin DOMAIN dialled
           /\ dialled'[Len(dialled) + 1] = d
           /\ \A y \in DOMAIN dialled : dialled'[y] = dialled[y]
           /\ \A x \in ends : end'[x][Len(dialled) + 1] = "shaking"
           /\ \A x \in Device \ ends : end'[x] = end[x]
           /\ \A x \in Device, y \in Conn : y # Len(dialled) + 1 => end'[x][y] = end[x][y]
<1>1. Len(dialled) \in Nat /\ dialled \in Seq(Device)
  BY DEF TypeOK
<1>2. dialled' \in Seq(Device) /\ Len(dialled') = Len(dialled) + 1
  BY <1>1 DEF Connects
<1>3. Len(dialled) + 1 \in Conn
  BY <1>1, SessionsAssumption DEF Connects, Conn
<1>4. DOMAIN dialled = 1..Len(dialled) /\ DOMAIN dialled' = 1..Len(dialled')
  BY <1>1, <1>2
<1>5. end' \in [Device -> [Conn -> Phase]]
  BY <1>3 DEF Connects, TypeOK, Phase
<1> QED
  BY <1>1, <1>2, <1>3, <1>4, <1>5, SessionsAssumption DEF Connects, TypeOK

-----------------------------------------------------------------------------
\* A registry r holds at d only what was dialled and entered.
In(d, r) ==
    r[d] # None => r[d] \in DOMAIN dialled /\
        end[d][r[d]] \in {"entered", "open", "closing", "leaving", "closed"}

Registered == \A d \in Device : In(d, sessions) /\ In(d, writers)

Typed ==
    /\ dialled \in Seq(Device) /\ Len(dialled) <= MaxConns
    /\ end \in [Device -> [Conn -> Phase]]
    /\ sessions \in [Device -> Conn \cup {None}]
    /\ writers \in [Device -> Conn \cup {None}]
    /\ inflight \in [Device -> BOOLEAN]
    /\ aborted \in [Device -> SUBSET Conn]
    /\ broken \subseteq Conn /\ expiries \in 0..MaxExpiries

LEMMA TypeParts == TypeOK <=> Typed /\ Registered
BY DEF TypeOK, Typed, Registered, In, Entered, None

LEMMA TypePartsNext == TypeOK' <=> Typed' /\ Registered'
BY DEF TypeOK, Typed, Registered, In, Entered, None

-----------------------------------------------------------------------------

\* A connection begins: it is not in the registry, and what is there stays.
LEMMA DialKeeps ==
    ASSUME Inv, NEW d \in Device, DialLan(d) \/ DialBridge(d)
    PROVE  Inv'
<1>1. PICK ends \in SUBSET Device : Connects(d, ends)
  BY DEF DialLan, DialBridge
<1>2. Typed'
  BY <1>1, NewConnection, TypeParts DEF Inv, DialLan, DialBridge, Typed, network
<1>a. DOMAIN dialled \subseteq DOMAIN dialled' /\ DOMAIN dialled \subseteq Conn
  BY <1>1, NewConnection, TypeParts, SessionsAssumption DEF Inv, Typed, Conn
<1>b. \A e \in Device, y \in DOMAIN dialled : end'[e][y] = end[e][y]
  BY <1>1, <1>a, NewConnection DEF Inv
<1>c. \A e \in Device : sessions'[e] = sessions[e] /\ writers'[e] \in {writers[e], None}
  BY TypeParts DEF Inv, DialLan, DialBridge, Typed
<1>3. Registered'
  BY <1>a, <1>b, <1>c, TypeParts DEF Inv, Registered, In
<1>4. Dialled'
  BY <1>1, NewConnection DEF Inv, Dialled
<1>5. WriterIsAlive'
  BY <1>b, <1>c, TypeParts DEF Inv, WriterIsAlive, Registered, In
<1> QED BY <1>2, <1>3, <1>4, <1>5, TypePartsNext DEF Inv

\* The expiry empties the registry.
LEMMA ExpireKeeps ==
    ASSUME Inv, NEW d \in Device, Expire(d)
    PROVE  Inv'
<1>1. Typed'
  BY TypeParts, SessionsAssumption DEF Inv, Expire, EndDial, Typed, None
<1>2. Registered'
  BY TypeParts DEF Inv, Expire, Typed, Registered, In, None
<1>3. Dialled' /\ WriterIsAlive'
  BY TypeParts DEF Inv, Expire, Typed, Dialled, WriterIsAlive, None
<1> QED BY <1>1, <1>2, <1>3, TypePartsNext DEF Inv

\* An end moves: what is in the registry has been entered and is not over.
LEMMA EndStepKeeps ==
    ASSUME Inv, NEW d \in Device, NEW c \in Conn, EndStep(d, c)
    PROVE  Inv'
<1> USE TypeParts DEF Inv, network, registry
<1>0. Duplicate(d) \subseteq Conn
  BY DEF Duplicate, Typed
<1>1. CASE Prove(d, c)
  <2>0. PICK phase \in {"astray", "proved"} : Goes(d, c, phase) /\ end[d][c] = "shaking"
    BY <1>1 DEF Prove
  <2>1. Moves(d, c, phase)
    BY <2>0, OneEndMoves DEF Phase
  <2>2. Typed'
    BY <1>1, <2>0, <2>1 DEF Prove, Moves, Typed, None
  <2>3. ASSUME NEW x \in Device PROVE In(x, sessions)' /\ In(x, writers)'
    <3>1. In(x, sessions)'
      BY <1>1, <2>0, <2>1 DEF Prove, Moves, Typed, Registered, In, Dialled, None
    <3>2. In(x, writers)'
      BY <1>1, <2>0, <2>1 DEF Prove, Moves, Typed, Registered, In, Dialled, None
    <3> QED BY <3>1, <3>2
  <2>4. Dialled'
    BY <1>1, <2>0, <2>1 DEF Prove, Moves, Dialled
  <2>5. WriterIsAlive'
    BY <1>1, <2>0, <2>1 DEF Prove, Moves, Typed, WriterIsAlive, None
  <2> QED BY <2>2, <2>3, <2>4, <2>5, TypePartsNext DEF Registered
<1>2. CASE HandshakeFails(d, c)
  <2>1. Moves(d, c, "failed")
    BY <1>2, OneEndMoves DEF HandshakeFails, Phase
  <2>2. Typed'
    BY <1>2, <2>1 DEF HandshakeFails, Moves, EndDial, Typed, None
  <2>3. ASSUME NEW x \in Device PROVE In(x, sessions)' /\ In(x, writers)'
    <3>1. In(x, sessions)'
      BY <1>2, <2>1 DEF HandshakeFails, Moves, Typed, Registered, In, Dialled, None
    <3>2. In(x, writers)'
      BY <1>2, <2>1 DEF HandshakeFails, Moves, Typed, Registered, In, Dialled, None
    <3> QED BY <3>1, <3>2
  <2>4. Dialled'
    BY <1>2, <2>1 DEF HandshakeFails, Moves, Dialled
  <2>5. WriterIsAlive'
    BY <1>2, <2>1 DEF HandshakeFails, Moves, Typed, WriterIsAlive, None
  <2> QED BY <2>2, <2>3, <2>4, <2>5, TypePartsNext DEF Registered
<1>3. CASE Drop(d, c)
  <2>1. Moves(d, c, "closed")
    BY <1>3, OneEndMoves DEF Drop, Phase
  <2>2. Typed'
    BY <1>3, <2>1 DEF Drop, Moves, EndDial, Typed, None
  <2>3. ASSUME NEW x \in Device PROVE In(x, sessions)' /\ In(x, writers)'
    <3>1. In(x, sessions)'
      BY <1>3, <2>1 DEF Drop, Moves, Typed, Registered, In, Dialled, None
    <3>2. In(x, writers)'
      BY <1>3, <2>1 DEF Drop, Moves, Typed, Registered, In, Dialled, None
    <3> QED BY <3>1, <3>2
  <2>4. Dialled'
    BY <1>3, <2>1 DEF Drop, Moves, Dialled
  <2>5. WriterIsAlive'
    BY <1>3, <2>1 DEF Drop, Moves, Typed, WriterIsAlive, None
  <2> QED BY <2>2, <2>3, <2>4, <2>5, TypePartsNext DEF Registered
<1>4. CASE Admit(d, c)
  <2>1. Moves(d, c, "admitted")
    BY <1>4, OneEndMoves DEF Admit, Phase
  <2>2. Typed'
    BY <1>4, <1>0, <2>1 DEF Admit, Moves, Typed, None
  <2>3. ASSUME NEW x \in Device PROVE In(x, sessions)' /\ In(x, writers)'
    <3>1. In(x, sessions)'
      BY <1>4, <2>1 DEF Admit, Moves, Typed, Registered, In, Dialled, None
    <3>2. In(x, writers)'
      BY <1>4, <2>1 DEF Admit, Moves, Typed, Registered, In, Dialled, None
    <3> QED BY <3>1, <3>2
  <2>4. Dialled'
    BY <1>4, <2>1 DEF Admit, Moves, Dialled
  <2>5. WriterIsAlive'
    BY <1>4, <2>1 DEF Admit, Moves, Typed, WriterIsAlive, None
  <2> QED BY <2>2, <2>3, <2>4, <2>5, TypePartsNext DEF Registered
<1>5. CASE Enter(d, c)
  <2>1. Moves(d, c, "entered")
    BY <1>5, OneEndMoves DEF Enter, Phase
  <2>2. Typed'
    BY <1>5, <2>1 DEF Enter, Moves, Typed, None
  <2>3. ASSUME NEW x \in Device PROVE In(x, sessions)' /\ In(x, writers)'
    <3>1. In(x, sessions)'
      BY <1>5, <2>1 DEF Enter, Moves, Typed, Registered, In, Dialled, None
    <3>2. In(x, writers)'
      BY <1>5, <2>1 DEF Enter, Moves, Typed, Registered, In, Dialled, None
    <3> QED BY <3>1, <3>2
  <2>4. Dialled'
    BY <1>5, <2>1 DEF Enter, Moves, Dialled
  <2>5. WriterIsAlive'
    BY <1>5, <2>1 DEF Enter, Moves, Typed, WriterIsAlive, None
  <2> QED BY <2>2, <2>3, <2>4, <2>5, TypePartsNext DEF Registered
<1>6. CASE Publish(d, c)
  <2>1. Moves(d, c, "open")
    BY <1>6, OneEndMoves DEF Publish, Phase
  <2>2. Typed'
    BY <1>6, <2>1 DEF Publish, Moves, EndDial, Typed, None
  <2>3. ASSUME NEW x \in Device PROVE In(x, sessions)' /\ In(x, writers)'
    <3>1. In(x, sessions)'
      BY <1>6, <2>1 DEF Publish, Moves, Typed, Registered, In, Dialled, None
    <3>2. In(x, writers)'
      BY <1>6, <2>1 DEF Publish, Moves, Typed, Registered, In, Dialled, None
    <3> QED BY <3>1, <3>2
  <2>4. Dialled'
    BY <1>6, <2>1 DEF Publish, Moves, Dialled
  <2>5. WriterIsAlive'
    BY <1>6, <2>1 DEF Publish, Moves, Typed, WriterIsAlive, None
  <2> QED BY <2>2, <2>3, <2>4, <2>5, TypePartsNext DEF Registered
<1>7. CASE Close(d, c)
  <2>1. Moves(d, c, "closing")
    BY <1>7, OneEndMoves DEF Close, Phase
  <2>2. Typed'
    BY <1>7, <2>1 DEF Close, Moves, Typed, None
  <2>3. ASSUME NEW x \in Device PROVE In(x, sessions)' /\ In(x, writers)'
    <3>1. In(x, sessions)'
      BY <1>7, <2>1 DEF Close, Moves, Typed, Registered, In, Dialled, None
    <3>2. In(x, writers)'
      BY <1>7, <2>1 DEF Close, Moves, Typed, Registered, In, Dialled, None
    <3> QED BY <3>1, <3>2
  <2>4. Dialled'
    BY <1>7, <2>1 DEF Close, Moves, Dialled
  <2>5. WriterIsAlive'
    BY <1>7, <2>1 DEF Close, Moves, Typed, WriterIsAlive, None
  <2> QED BY <2>2, <2>3, <2>4, <2>5, TypePartsNext DEF Registered
<1>8. CASE RemoveSession(d, c)
  <2>1. Moves(d, c, "leaving")
    BY <1>8, OneEndMoves DEF RemoveSession, Phase
  <2>2. Typed'
    BY <1>8, <2>1 DEF RemoveSession, Moves, Typed, None
  <2>3. ASSUME NEW x \in Device PROVE In(x, sessions)' /\ In(x, writers)'
    <3>1. In(x, sessions)'
      BY <1>8, <2>1 DEF RemoveSession, Moves, Typed, Registered, In, Dialled, None
    <3>2. In(x, writers)'
      BY <1>8, <2>1 DEF RemoveSession, Moves, Typed, Registered, In, Dialled, None
    <3> QED BY <3>1, <3>2
  <2>4. Dialled'
    BY <1>8, <2>1 DEF RemoveSession, Moves, Dialled
  <2>5. WriterIsAlive'
    BY <1>8, <2>1 DEF RemoveSession, Moves, Typed, WriterIsAlive, None
  <2> QED BY <2>2, <2>3, <2>4, <2>5, TypePartsNext DEF Registered
<1>9. CASE RemoveWriter(d, c)
  <2>1. Moves(d, c, "closed")
    BY <1>9, OneEndMoves DEF RemoveWriter, Phase
  <2>2. Typed'
    BY <1>9, <2>1 DEF RemoveWriter, Moves, EndDial, Typed, None
  <2>3. ASSUME NEW x \in Device PROVE In(x, sessions)' /\ In(x, writers)'
    <3>1. In(x, sessions)'
      BY <1>9, <2>1 DEF RemoveWriter, Moves, Typed, Registered, In, Dialled, None
    <3>2. In(x, writers)'
      BY <1>9, <2>1 DEF RemoveWriter, Moves, Typed, Registered, In, Dialled, None
    <3> QED BY <3>1, <3>2
  <2>4. Dialled'
    BY <1>9, <2>1 DEF RemoveWriter, Moves, Dialled
  <2>5. WriterIsAlive'
    BY <1>9, <2>1 DEF RemoveWriter, Moves, Typed, WriterIsAlive, None
  <2> QED BY <2>2, <2>3, <2>4, <2>5, TypePartsNext DEF Registered
<1> QED BY <1>1, <1>2, <1>3, <1>4, <1>5, <1>6, <1>7, <1>8, <1>9 DEF EndStep

-----------------------------------------------------------------------------
LEMMA InitInv == Init => Inv
<1> SUFFICES ASSUME Init PROVE Inv
  OBVIOUS
<1>1. Typed /\ Registered
  BY SessionsAssumption DEF Init, Typed, Registered, In, Phase, None
<1> QED BY <1>1, TypeParts DEF Inv, Init, Dialled, WriterIsAlive

LEMMA NextInv == Inv /\ [Next]_vars => Inv'
<1> SUFFICES ASSUME Inv, [Next]_vars PROVE Inv'
  OBVIOUS
<1>1. ASSUME NEW d \in Device, DialLan(d) \/ DialBridge(d) \/ Expire(d) PROVE Inv'
  BY <1>1, DialKeeps, ExpireKeeps
<1>2. ASSUME NEW d \in Device, NEW c \in Conn, EndStep(d, c) PROVE Inv'
  BY <1>2, EndStepKeeps
<1>3. ASSUME NEW c \in Conn, Break(c) PROVE Inv'
  BY <1>3 DEF Break, registry, Inv, TypeOK, Entered, Dialled, WriterIsAlive
<1>4. CASE UNCHANGED vars
  BY <1>4 DEF vars, registry, network, Inv, TypeOK, Entered, Dialled, WriterIsAlive
<1> QED BY <1>1, <1>2, <1>3, <1>4 DEF Next

\* Every reachable state is well typed, and the registry only holds what has
\* been entered (peer_session.rs, register_session after the handshake).
THEOREM TypeCorrect == Spec => []TypeOK
<1>1. Init => Inv BY InitInv
<1>2. Inv /\ [Next]_vars => Inv' BY NextInv
<1>3. Inv => TypeOK BY DEF Inv
<1> QED BY <1>1, <1>2, <1>3, PTL DEF Spec

\* However many sessions overlap, the registry never names one that is over:
\* whichever task leaves removes the writer, its own or a newer one.
THEOREM WriterAlive == Spec => []WriterIsAlive
<1>1. Init => Inv BY InitInv
<1>2. Inv /\ [Next]_vars => Inv' BY NextInv
<1>3. Inv => WriterIsAlive BY DEF Inv
<1> QED BY <1>1, <1>2, <1>3, PTL DEF Spec

-----------------------------------------------------------------------------
(* A connection that is alone.                                             *)

Alone == Len(dialled) <= 1 /\ broken = {} /\ expiries = 0

\* The registry at d holds c exactly as long as c has been entered there, and
\* no end has a reason to stop.
Fine(d, c) ==
    /\ end[d][c] \in {"none", "shaking", "astray", "proved", "admitted", "entered", "open"}
    /\ sessions[d] = c <=> end[d][c] \in {"entered", "open"}
    /\ writers[d] = c <=> end[d][c] = "open"

LoneFine ==
    Alone => \A d \in Device : aborted[d] = {} /\ \A c \in Conn : Fine(d, c)

\* Alone can only be the first connection: an older one cannot be registered.
LEMMA OnlyOne ==
    ASSUME Inv, Alone, NEW d \in Device, NEW c \in Conn, NEW x \in Conn,
           end[d][c] # "none", end[d][x] # "none"
    PROVE  x = c
<1>1. c \in DOMAIN dialled /\ x \in DOMAIN dialled
  BY DEF Inv, Dialled
<1>2. dialled \in Seq(Device)
  BY TypeParts DEF Inv, Typed
<1>3. DOMAIN dialled = 1..Len(dialled) /\ Len(dialled) \in Nat
  BY <1>2
<1> QED BY <1>1, <1>3 DEF Alone

LEMMA LoneDial ==
    ASSUME Inv, LoneFine, NEW d \in Device, DialLan(d) \/ DialBridge(d), Alone'
    PROVE  \A e \in Device : aborted'[e] = {} /\ \A c \in Conn : Fine(e, c)'
<1>0. PICK ends \in SUBSET Device : Connects(d, ends)
  BY DEF DialLan, DialBridge
<1>1. Connects(d, ends) /\ Len(dialled) \in Nat
  BY <1>0, TypeParts DEF Inv, Typed
<1>2. Alone
  BY <1>1, NewConnection DEF Inv, Alone, DialLan, DialBridge, network
<1>3. ASSUME NEW e \in Device PROVE aborted'[e] = {}
  BY <1>2 DEF LoneFine, DialLan, DialBridge
<1>4. \A e \in Device, c \in Conn : Fine(e, c)
  BY <1>2 DEF LoneFine
<1>5. Len(dialled) = 0
  BY <1>1, NewConnection DEF Inv, Alone
<1>6. \A e \in Device, c \in Conn : end[e][c] = "none"
  BY <1>5, TypeParts DEF Inv, Typed, Dialled
<1>7. \A e \in Device : sessions[e] = None /\ writers[e] = None
  BY <1>4, <1>6, TypeParts DEF Inv, Typed, Fine
<1>8. \A e \in Device : sessions'[e] = None /\ writers'[e] = None
  BY <1>7, TypeParts DEF DialLan, DialBridge, Inv, Typed
<1>9. \A e \in Device, c \in Conn : end'[e][c] \in {"none", "shaking"}
  BY <1>1, <1>6, NewConnection DEF Inv
<1>10. \A c \in Conn : c # None
  BY DEF Conn, None
<1>11. ASSUME NEW e \in Device, NEW c \in Conn PROVE Fine(e, c)'
  BY <1>8, <1>9, <1>10 DEF Fine
<1> QED BY <1>3, <1>11

LEMMA LoneEndStep ==
    ASSUME Inv, LoneFine, NEW d \in Device, NEW c \in Conn, EndStep(d, c), Alone'
    PROVE  \A e \in Device : aborted'[e] = {} /\ \A x \in Conn : Fine(e, x)'
<1> USE TypeParts DEF network, registry
<1>1. UNCHANGED <<dialled, network>>
  BY DEF EndStep, Prove, HandshakeFails, Drop, Admit, Enter, Publish, Close, RemoveSession, RemoveWriter
<1>2. Alone
  BY <1>1 DEF Alone
<1>3. \A e \in Device : aborted[e] = {} /\ \A x \in Conn : Fine(e, x)
  BY <1>2 DEF LoneFine
<1>4. \A x \in Conn : x # None
  BY DEF Conn, None
<1>5. \A x \in Conn : x # c => end[d][c] = "none" \/ end[d][x] = "none"
  BY <1>2, OnlyOne
<1>6. d \in Device /\ Other(d) \in Device
  BY DEF Device, Other
\* No end fails, is dropped or stops.
<1>7. ~HandshakeFails(d, c)
  BY <1>2, <1>3, <1>6 DEF HandshakeFails, Alone, Fine
<1>8. ASSUME end[d][c] = "proved" PROVE sessions[d] = None
  BY <1>3, <1>5, <1>8 DEF Inv, Typed, Fine
<1>9. ~Drop(d, c)
  BY <1>8 DEF Drop, DropsOutbound
<1>10. ~Close(d, c)
  BY <1>2, <1>3, <1>6 DEF Close, Stops, Alone, Fine, Gone
<1>11. ~RemoveSession(d, c) /\ ~RemoveWriter(d, c)
  BY <1>3 DEF RemoveSession, RemoveWriter, Fine
<1>12. CASE Prove(d, c)
  <2>0. PICK phase \in {"astray", "proved"} : Goes(d, c, phase) /\ end[d][c] = "shaking"
    BY <1>12 DEF Prove
  <2>1. Moves(d, c, phase)
    BY <2>0, OneEndMoves DEF Phase, Inv
  <2>2. ASSUME NEW e \in Device, NEW x \in Conn PROVE Fine(e, x)'
    BY <1>3, <1>12, <2>0, <2>1 DEF Prove, Moves, Fine
  <2> QED BY <1>3, <1>12, <2>2 DEF Prove
<1>13. CASE Admit(d, c)
  <2>1. Moves(d, c, "admitted")
    BY <1>13, OneEndMoves DEF Admit, Phase, Inv
  <2>2. ASSUME NEW e \in Device, NEW x \in Conn PROVE Fine(e, x)'
    BY <1>3, <1>13, <2>1 DEF Admit, Moves, Fine
  <2>3. Duplicate(d) = {}
    BY <1>8, <1>13 DEF Admit, Duplicate
  <2>4. \A e \in Device : aborted'[e] = {}
    BY <1>3, <1>13, <2>3 DEF Admit, Inv, Typed
  <2> QED BY <2>2, <2>4
<1>14. CASE Enter(d, c)
  <2>1. Moves(d, c, "entered")
    BY <1>14, OneEndMoves DEF Enter, Phase, Inv
  <2>2. \A e \in Device : sessions'[e] = IF e = d THEN c ELSE sessions[e]
    BY <1>14 DEF Enter, Inv, Typed
  <2>3. \A x \in Conn : x # c => end[d][x] = "none"
    BY <1>5, <1>14 DEF Enter
  <2>4. ASSUME NEW e \in Device, NEW x \in Conn PROVE Fine(e, x)'
    BY <1>3, <1>14, <2>1, <2>2, <2>3 DEF Enter, Moves, Fine
  <2> QED BY <1>3, <1>14, <2>4 DEF Enter
<1>15. CASE Publish(d, c)
  <2>1. Moves(d, c, "open")
    BY <1>15, OneEndMoves DEF Publish, Phase, Inv
  <2>2. \A e \in Device : writers'[e] = IF e = d THEN c ELSE writers[e]
    BY <1>15 DEF Publish, Inv, Typed
  <2>3. \A x \in Conn : x # c => end[d][x] = "none"
    BY <1>5, <1>15 DEF Publish
  <2>4. ASSUME NEW e \in Device, NEW x \in Conn PROVE Fine(e, x)'
    BY <1>3, <1>15, <2>1, <2>2, <2>3 DEF Publish, Moves, Fine
  <2> QED BY <1>3, <1>15, <2>4 DEF Publish
<1> QED BY <1>7, <1>9, <1>10, <1>11, <1>12, <1>13, <1>14, <1>15 DEF EndStep

LEMMA LoneNext == Inv /\ LoneFine /\ [Next]_vars => LoneFine'
<1> SUFFICES ASSUME Inv, LoneFine, [Next]_vars, Alone'
             PROVE  \A d \in Device : aborted'[d] = {} /\ \A c \in Conn : Fine(d, c)'
  BY DEF LoneFine
<1>1. ASSUME NEW d \in Device, DialLan(d) \/ DialBridge(d)
      PROVE  \A e \in Device : aborted'[e] = {} /\ \A c \in Conn : Fine(e, c)'
  BY <1>1, LoneDial
<1>2. ASSUME NEW d \in Device, Expire(d) PROVE FALSE
  BY <1>2, TypeParts DEF Expire, Alone, Inv, Typed
<1>3. ASSUME NEW d \in Device, NEW c \in Conn, EndStep(d, c)
      PROVE  \A e \in Device : aborted'[e] = {} /\ \A x \in Conn : Fine(e, x)'
  BY <1>3, LoneEndStep
<1>4. ASSUME NEW c \in Conn, Break(c) PROVE FALSE
  BY <1>4 DEF Break, Alone
<1>5. CASE UNCHANGED vars
  BY <1>5 DEF vars, registry, network, LoneFine, Alone, Fine
<1> QED BY <1>1, <1>2, <1>3, <1>4, <1>5 DEF Next

\* However it was dialled, a connection that is alone and that neither the
\* network nor mDNS touches stays: should_drop_new_outbound and
\* abort_outbound_duplicate never turn against it.
THEOREM LoneStays == Spec => []LoneSessionStays
<1>1. Init => Inv /\ LoneFine
  <2>1. Init => LoneFine
    BY DEF Init, LoneFine, Fine, Conn, None
  <2> QED BY <2>1, InitInv
<1>2. (Inv /\ LoneFine) /\ [Next]_vars => (Inv /\ LoneFine)'
  BY NextInv, LoneNext
<1>3. Inv /\ LoneFine => LoneSessionStays
  <2> SUFFICES ASSUME Inv, LoneFine, Len(dialled) = 1, broken = {}, expiries = 0, NEW d \in Device
               PROVE  end[d][1] \notin Gone \cup {"failed"}
    BY DEF LoneSessionStays
  <2>1. 1 \in Conn
    BY SessionsAssumption, TypeParts DEF Inv, Typed, Conn
  <2> QED BY <2>1 DEF LoneFine, Alone, Fine, Gone
<1> QED BY <1>1, <1>2, <1>3, PTL DEF Spec

-----------------------------------------------------------------------------
(* The guards of the dials.                                                *)

\* An own dial is under way, or another identity has answered it.
Dialling(d, c) ==
    Outbound(d, c) /\ end[d][c] \in {"shaking", "proved", "admitted", "entered", "astray"}

LEMMA GuardParts ==
    GuardHasDial <=> \A d \in Device : inflight[d] => \E c \in DOMAIN dialled : Dialling(d, c)
BY DEF GuardHasDial, Dialling

LEMMA GuardPartsNext ==
    GuardHasDial' <=> \A d \in Device : inflight'[d] => \E c \in DOMAIN dialled' : Dialling(d, c)'
BY DEF GuardHasDial, Dialling

\* The new dial is the one its guard stands for; the older ones go on.
LEMMA GuardDial ==
    ASSUME Inv, GuardHasDial, NEW d \in Device, DialLan(d) \/ DialBridge(d)
    PROVE  GuardHasDial'
<1>1. PICK ends \in SUBSET Device : Connects(d, ends) /\ d \in ends
  BY DEF DialLan, DialBridge
<1>2. dialled \in Seq(Device) /\ DOMAIN dialled = 1..Len(dialled) /\ DOMAIN dialled \subseteq Conn
  BY TypeParts, SessionsAssumption DEF Inv, Typed, Conn
<1>n. PICK new \in Conn : new = Len(dialled) + 1
  BY <1>1, NewConnection DEF Inv
<1>3. new \in DOMAIN dialled' /\ Dialling(d, new)'
  BY <1>1, <1>n, NewConnection DEF Inv, Dialling, Outbound
<1>4. ASSUME NEW e \in Device, inflight'[e] PROVE \E c \in DOMAIN dialled' : Dialling(e, c)'
  <2>1. CASE e = d
    BY <1>3, <2>1
  <2>2. CASE e # d
    <3>1. inflight[e]
      BY <1>4, <2>2, TypeParts DEF DialLan, DialBridge, Inv, Typed
    <3>2. PICK c \in DOMAIN dialled : Dialling(e, c)
      BY <3>1, GuardParts
    <3>3. c \in DOMAIN dialled' /\ Dialling(e, c)'
      BY <1>1, <1>2, <3>2, NewConnection DEF Inv, Dialling, Outbound
    <3> QED BY <3>3
  <2> QED BY <2>1, <2>2
<1> QED BY <1>4, GuardPartsNext

\* A dial that leaves the way to the registry gives its guard back.
LEMMA GuardEndStep ==
    ASSUME Inv, GuardHasDial, NEW d \in Device, NEW c \in Conn, EndStep(d, c)
    PROVE  GuardHasDial'
<1> USE DEF registry, network
<1>0. Typed
  BY TypeParts DEF Inv
<1>1. dialled' = dialled
  BY DEF EndStep, Prove, HandshakeFails, Drop, Admit, Enter, Publish, Close, RemoveSession, RemoveWriter
<1>2. ASSUME NEW e \in Device, inflight'[e]
      PROVE  inflight[e] /\ \A x \in Conn : Dialling(e, x) => Dialling(e, x)'
  <2>1. CASE Prove(d, c) \/ Admit(d, c) \/ Enter(d, c)
    <3>1. /\ inflight' = inflight /\ end[d][c] \in {"shaking", "proved", "admitted"}
          /\ \E phase \in {"astray", "proved", "admitted", "entered"} : Goes(d, c, phase)
      BY <2>1 DEF Prove, Admit, Enter
    <3>2. PICK phase \in {"astray", "proved", "admitted", "entered"} : Moves(d, c, phase)
      BY <3>1, OneEndMoves DEF Inv, Phase
    <3> QED BY <1>1, <1>2, <3>1, <3>2 DEF Moves, Dialling, Outbound
  <2>2. CASE Close(d, c) \/ RemoveSession(d, c)
    <3>1. /\ inflight' = inflight /\ end[d][c] \in {"open", "closing"}
          /\ \E phase \in {"closing", "leaving"} : Goes(d, c, phase)
      BY <2>2 DEF Close, RemoveSession
    <3>2. PICK phase \in {"closing", "leaving"} : Moves(d, c, phase)
      BY <3>1, OneEndMoves DEF Inv, Phase
    <3> QED BY <1>1, <1>2, <3>1, <3>2 DEF Moves, Dialling, Outbound
  <2>3. CASE Drop(d, c) \/ Publish(d, c) \/ RemoveWriter(d, c)
    <3>1. EndDial(d) /\ \E phase \in {"closed", "open"} : Goes(d, c, phase)
      BY <2>3 DEF Drop, Publish, RemoveWriter
    <3>2. PICK phase \in {"closed", "open"} : Moves(d, c, phase)
      BY <3>1, OneEndMoves DEF Inv, Phase
    <3>3. e # d /\ inflight[e]
      BY <1>0, <1>2, <3>1 DEF EndDial, Typed
    <3> QED BY <1>1, <3>2, <3>3 DEF Moves, Dialling, Outbound
  <2>4. CASE HandshakeFails(d, c)
    <3>1. Moves(d, c, "failed")
      BY <2>4, OneEndMoves DEF HandshakeFails, Inv, Phase
    <3>2. CASE Outbound(d, c)
      <4>1. e # d /\ inflight[e]
        BY <1>0, <1>2, <2>4, <3>2 DEF HandshakeFails, EndDial, Typed
      <4> QED BY <1>1, <3>1, <4>1 DEF Moves, Dialling, Outbound
    <3>3. CASE ~Outbound(d, c)
      <4>1. inflight[e]
        BY <1>2, <2>4, <3>3 DEF HandshakeFails
      <4> QED BY <1>1, <3>1, <3>3, <4>1 DEF Moves, Dialling, Outbound
    <3> QED BY <3>2, <3>3
  <2> QED BY <2>1, <2>2, <2>3, <2>4 DEF EndStep
<1>3. DOMAIN dialled \subseteq Conn
  BY <1>0, SessionsAssumption DEF Typed, Conn
<1> QED BY <1>1, <1>2, <1>3, GuardParts, GuardPartsNext

LEMMA GuardNext == Inv /\ GuardHasDial /\ [Next]_vars => GuardHasDial'
<1> SUFFICES ASSUME Inv, GuardHasDial, [Next]_vars PROVE GuardHasDial'
  OBVIOUS
<1>1. ASSUME NEW d \in Device, DialLan(d) \/ DialBridge(d) PROVE GuardHasDial'
  BY <1>1, GuardDial
<1>2. ASSUME NEW d \in Device, Expire(d) PROVE GuardHasDial'
  BY <1>2, TypeParts DEF Expire, EndDial, Inv, Typed, GuardHasDial, Outbound
<1>3. ASSUME NEW d \in Device, NEW c \in Conn, EndStep(d, c) PROVE GuardHasDial'
  BY <1>3, GuardEndStep
<1>4. CASE (\E c \in Conn : Break(c)) \/ UNCHANGED vars
  BY <1>4 DEF Break, vars, registry, network, GuardHasDial, Outbound
<1> QED BY <1>1, <1>2, <1>3, <1>4 DEF Next

\* Whatever the two devices dial, refuse, drop, replace or lose, a guard that no
\* dial stands for is the guard of a dial that another identity has answered:
\* every other return of dial_peer_tcp and start_session_io gives it back.
THEOREM GuardsAreGivenBack == Spec => []GuardHasDial
<1>1. Init => Inv /\ GuardHasDial
  <2>1. Init => GuardHasDial
    BY DEF Init, GuardHasDial
  <2> QED BY <2>1, InitInv
<1>2. (Inv /\ GuardHasDial) /\ [Next]_vars => (Inv /\ GuardHasDial)'
  BY NextInv, GuardNext
<1>3. Inv /\ GuardHasDial => GuardHasDial
  OBVIOUS
<1> QED BY <1>1, <1>2, <1>3, PTL DEF Spec
=============================================================================
