---------------------------- MODULE CoordProofs ----------------------------
(***************************************************************************)
(* Proofs about the coordination servers: the presence of a device on them *)
(* (CoordPresence), for any number of servers and beats, and the bridges   *)
(* between two devices that they run (BridgeRelay), for any number of      *)
(* bridges, sockets and frames.                                            *)
(***************************************************************************)
EXTENDS CoordPresence, BridgeRelay, FiniteSetTheorems, SequenceTheorems, WellFoundedInduction, TLAPS

(***************************************************************************)
(* Presence: the types, and that a device which counts as registered has a *)
(* heartbeat. The servers that answered a beat are counted, so the proofs  *)
(* use that there are finitely many, and numbers in the order of the list. *)
(***************************************************************************)


-----------------------------------------------------------------------------
(* Sets of numbers.                                                          *)

LEMMA MinIsIn ==
    ASSUME NEW S, S \subseteq Nat, S # {}
    PROVE  Min(S) \in S
<1>1. PICK x \in S : \A y \in S : ~(<<y, x>> \in OpToRel(<, Nat))
  BY NatLessThanWellFounded, WFMin
<1>2. \A y \in S : x <= y
  <2> SUFFICES ASSUME NEW y \in S, ~(x <= y) PROVE FALSE
    OBVIOUS
  <2>1. <<y, x>> \in Nat \X Nat /\ y < x
    OBVIOUS
  <2> QED BY <1>1, <2>1 DEF OpToRel
<1> QED BY <1>2 DEF Min

LEMMA MinOfTwo ==
    ASSUME NEW c \in Nat, NEW n \in Nat
    PROVE  Min({c, n}) \in 0..c
<1>1. Min({c, n}) \in {c, n} /\ \A y \in {c, n} : Min({c, n}) <= y
  <2>1. \E x \in {c, n} : \A y \in {c, n} : x <= y
    OBVIOUS
  <2> QED BY <2>1 DEF Min
<1> QED BY <1>1

-----------------------------------------------------------------------------
(* Types.                                                                    *)

PcAt == {"idle", "sleep", "dead", "begin", "challenge", "post", "done", "hbcheck", "hbspawn",
         "hbstore", "look", "look2", "look3", "recover", "beat"}

\* The types, with those of the threads and of what the register worker has
\* still to ask, in three parts.
TypesOfFlags ==
    /\ registered \in BOOLEAN /\ regPending \in BOOLEAN /\ registeredOn \subseteq Server
    /\ registered => registeredOn # {}
    /\ fails \in 0..3 /\ okAge \in 0..Stale

TypesOfThreads ==
    /\ pc \in [Actor -> PcAt] /\ pc["call"] \in {"idle", "post"}
    /\ made \in [Actor -> Hb \cup {NoOne}]
    /\ who \in [Actor -> Ident \cup {NoOne}]
    /\ hbStop \in BOOLEAN /\ hbJoin \in Hb \cup {NoOne}
    /\ reg \in [eps : SUBSET Addr, todo : SUBSET Server, on : SUBSET Server]
    /\ pc["reg"] \in {"challenge", "post"} => reg.todo # {}

TypesOfRest ==
    /\ session \in Ident \cup {NoOne} /\ eps \subseteq Addr
    /\ ui \in {"idle", "lowering", "stopping", "joining", "closing"} /\ lastTry \in 0..2
    /\ nonce \in [Server -> [Ident -> {"none", "reg", "call"}]]

CoordShape == TypesOfFlags /\ TypesOfThreads /\ TypesOfRest

LEMMA ShapeHasTypes == CoordShape => CoordTypeOK
  BY DEF CoordShape, CoordTypeOK, TypesOfFlags, TypesOfThreads, TypesOfRest

LEMMA Actors ==
    /\ "reg" \in Actor /\ "poll" \in Actor /\ "call" \in Actor
    /\ \A t \in Hb : t \in Actor /\ t # "reg" /\ t # "poll" /\ t # "call"
  BY CoordAssumption DEF CoordAssumption, Actor

\* spawn_register_presence_inner and schedule_check_relay_presence_once.
LEMMA SpawnStep ==
    ASSUME NEW f \in [Actor -> PcAt], NEW isReg \in BOOLEAN, NEW p \in BOOLEAN,
           lastTry \in 0..2, SpawnRegister(f, isReg, p)
    PROVE  /\ pc' \in [Actor -> PcAt] /\ lastTry' \in 0..2 /\ regPending' \in BOOLEAN
           /\ \A x \in Actor \ {"reg"} : pc'[x] = f[x]
           /\ pc'["reg"] = f["reg"] \/ (pc["reg"] = "idle" /\ pc'["reg"] = "begin")
<1>1. [f EXCEPT !["reg"] = "begin"] \in [Actor -> PcAt]
  BY Actors DEF PcAt
<1>2. lastTry' \in 0..2 /\ regPending' \in BOOLEAN
  BY DEF SpawnRegister, Throttled, Busy
<1>3. CASE Spawns(isReg)
  <2>1. pc' = [f EXCEPT !["reg"] = "begin"] /\ pc["reg"] = "idle"
    BY <1>3 DEF SpawnRegister, Spawns, Busy
  <2> QED BY <1>1, <1>2, <2>1, Actors
<1>4. CASE ~Spawns(isReg)
  <2>1. pc' = f
    BY <1>4 DEF SpawnRegister
  <2> QED BY <1>2, <2>1
<1> QED BY <1>3, <1>4

LEMMA PollStep ==
    ASSUME NEW f \in [Actor -> PcAt], SchedulePoll(f)
    PROVE  /\ pc' \in [Actor -> PcAt]
           /\ \A x \in Actor \ {"poll"} : pc'[x] = f[x]
           /\ pc'["poll"] = f["poll"] \/ (pc["poll"] = "idle" /\ pc'["poll"] = "look")
<1>1. [f EXCEPT !["poll"] = "look"] \in [Actor -> PcAt]
  BY Actors DEF PcAt
<1> QED BY <1>1, Actors DEF SchedulePoll

\* A step of x may move x, wake the register worker and start a poll.
Moves(x) ==
    /\ pc' \in [Actor -> PcAt]
    /\ \A y \in Actor \ {x, "reg", "poll"} : pc'[y] = pc[y]
    /\ x # "reg" => pc'["reg"] = pc["reg"] \/ (pc["reg"] = "idle" /\ pc'["reg"] = "begin")
    /\ x # "poll" => pc'["poll"] = pc["poll"] \/ (pc["poll"] = "idle" /\ pc'["poll"] = "look")

LEMMA AskStep ==
    ASSUME NEW f \in [Actor -> PcAt], NEW p \in BOOLEAN, registered \in BOOLEAN, lastTry \in 0..2,
           regPending \in BOOLEAN, AskAgain(f, p)
    PROVE  /\ pc' \in [Actor -> PcAt] /\ lastTry' \in 0..2 /\ regPending' \in BOOLEAN
           /\ \A x \in Actor \ {"reg", "poll"} : pc'[x] = f[x]
           /\ pc'["reg"] = f["reg"] \/ (pc["reg"] = "idle" /\ pc'["reg"] = "begin")
           /\ pc'["poll"] = f["poll"] \/ (pc["poll"] = "idle" /\ pc'["poll"] = "look")
<1>1. CASE eps # {}
  <2>1. SpawnRegister(f, registered, p)
    BY <1>1 DEF AskAgain
  <2> QED BY <2>1, SpawnStep, Actors
<1>2. CASE eps = {}
  <2>1. SchedulePoll(f) /\ lastTry' = lastTry /\ regPending' = regPending
    BY <1>2 DEF AskAgain
  <2> QED BY <2>1, PollStep, Actors
<1> QED BY <1>1, <1>2

\* Threads keep their types in a step that moves x and no more.
LEMMA ThreadsMove ==
    ASSUME TypesOfThreads, NEW x \in Actor \ {"call", "reg"}, Moves(x),
           who' \in [Actor -> Ident \cup {NoOne}],
           UNCHANGED <<made, hbStop, hbJoin, reg>>
    PROVE  TypesOfThreads'
<1>1. pc'["call"] = pc["call"]
  BY Actors DEF Moves
<1>2. pc'["reg"] \in {"challenge", "post"} => pc["reg"] = pc'["reg"]
  BY DEF Moves
<1> QED BY <1>1, <1>2 DEF Moves, TypesOfThreads

\* Steps of the UI, the servers and time that move no thread.
LEMMA TypesOfWorld ==
    ASSUME CoordShape,
           Logout \/ StopSteps \/ Pause \/ \E s \in Server : ServerDown(s) \/ ServerUp(s) \/ Purge(s)
    PROVE  CoordShape'
<1>0. TypesOfFlags /\ TypesOfThreads /\ TypesOfRest
  BY DEF CoordShape
<1>1. CASE Logout
  <2>1. TypesOfFlags'
    <3>1. okAge' \in 0..Stale /\ fails' \in 0..3
      BY <1>1 DEF Logout, Stale
    <3> QED BY <1>0, <1>1, <3>1 DEF Logout, TypesOfFlags
  <2>2. TypesOfThreads'
    BY <1>0, <1>1 DEF Logout, threads, TypesOfThreads
  <2>3. TypesOfRest'
    BY <1>0, <1>1 DEF Logout, TypesOfRest, throttles, servers
  <2> QED BY <2>1, <2>2, <2>3 DEF CoordShape
<1>2. CASE StopSteps
  <2>f. TypesOfFlags'
    BY <1>0, <1>2 DEF StopSteps, TellStop, TakeJoin, Joined, Close, flags, TypesOfFlags
  <2>t. /\ UNCHANGED <<pc, made, who, reg>>
        /\ hbStop' \in BOOLEAN /\ hbJoin' \in Hb \cup {NoOne}
    BY <1>0, <1>2 DEF StopSteps, TellStop, TakeJoin, Joined, Close, threads, TypesOfThreads
  <2>1. TypesOfFlags' /\ TypesOfThreads'
    BY <1>0, <2>f, <2>t DEF TypesOfThreads
  <2>2. TypesOfRest'
    BY <1>0, <1>2 DEF StopSteps, TellStop, TakeJoin, Joined, Close, throttles, servers, TypesOfRest
  <2> QED BY <2>1, <2>2 DEF CoordShape
<1>3. CASE Pause
  <2>1. TypesOfFlags' /\ TypesOfThreads'
    BY <1>0, <1>3 DEF Pause, flags, threads, TypesOfFlags, TypesOfThreads
  <2>2. lastTry' \in 0..2
    BY <1>0, <1>3, MinOfTwo DEF Pause, TypesOfRest
  <2>3. TypesOfRest'
    BY <1>0, <1>3, <2>2 DEF Pause, servers, TypesOfRest
  <2> QED BY <2>1, <2>3 DEF CoordShape
<1>4. ASSUME NEW s \in Server, ServerDown(s) \/ ServerUp(s) \/ Purge(s) PROVE CoordShape'
  <2>1. TypesOfFlags' /\ TypesOfThreads'
    BY <1>0, <1>4 DEF ServerDown, ServerUp, Purge, flags, threads, TypesOfFlags, TypesOfThreads
  <2>2. nonce' \in [Server -> [Ident -> {"none", "reg", "call"}]]
    BY <1>0, <1>4 DEF ServerDown, ServerUp, Purge, TypesOfRest
  <2>3. TypesOfRest'
    BY <1>0, <1>4, <2>2 DEF ServerDown, ServerUp, Purge, throttles, TypesOfRest
  <2> QED BY <2>1, <2>3 DEF CoordShape
<1> QED BY <1>1, <1>2, <1>3, <1>4

LEMMA TypesOfClock ==
    ASSUME CoordShape, Clock
    PROVE  CoordShape'
<1>0. TypesOfFlags /\ TypesOfThreads /\ TypesOfRest
  BY DEF CoordShape
<1>1. okAge' \in 0..Stale
  <2>1. okAge + 1 \in Nat /\ Stale \in Nat
    BY <1>0 DEF TypesOfFlags, Stale
  <2> QED BY <2>1, MinOfTwo DEF Clock
<1>2. TypesOfFlags'
  BY <1>0, <1>1 DEF Clock, TypesOfFlags
<1>3. /\ pc' \in [Actor -> PcAt]
      /\ \A x \in {"reg", "call"} : pc'[x] \in {"challenge", "post", "idle"} => pc[x] = pc'[x]
      /\ pc'["call"] = pc["call"]
  BY <1>0, Actors DEF Clock, TypesOfThreads, PcAt
<1>4. TypesOfThreads'
  BY <1>0, <1>3 DEF Clock, threads, TypesOfThreads
<1>5. TypesOfRest'
  BY <1>0 DEF Clock, TypesOfRest
<1> QED BY <1>2, <1>4, <1>5 DEF CoordShape

\* Log in and the upkeep: they may wake the register worker or start a poll.
LEMMA UpkeepMoves ==
    ASSUME CoordShape, RegisterTick \/ (\E i \in Ident : Login(i)) \/ \E a \in Addr : Listen(a)
    PROVE  /\ Moves("call") /\ pc'["call"] = pc["call"]
           /\ lastTry' \in 0..2 /\ regPending' \in BOOLEAN
<1> DEFINE Goal == Moves("call") /\ pc'["call"] = pc["call"] /\ lastTry' \in 0..2 /\ regPending' \in BOOLEAN
<1>0. pc \in [Actor -> PcAt] /\ lastTry \in 0..2 /\ registered \in BOOLEAN /\ regPending \in BOOLEAN
  BY DEF CoordShape, TypesOfFlags, TypesOfThreads, TypesOfRest
<1>1. ASSUME NEW isReg \in BOOLEAN, NEW p \in BOOLEAN, SpawnRegister(pc, isReg, p)
      PROVE  Goal
  <2>1. /\ pc' \in [Actor -> PcAt] /\ lastTry' \in 0..2 /\ regPending' \in BOOLEAN
        /\ \A x \in Actor \ {"reg"} : pc'[x] = pc[x]
        /\ pc'["reg"] = pc["reg"] \/ (pc["reg"] = "idle" /\ pc'["reg"] = "begin")
    BY <1>0, <1>1, SpawnStep
  <2> QED BY <2>1, Actors DEF Moves
<1>2. ASSUME SchedulePoll(pc) \/ pc' = pc, UNCHANGED <<lastTry, regPending>>
      PROVE  Goal
  <2>1. CASE SchedulePoll(pc)
    <3>1. /\ pc' \in [Actor -> PcAt]
          /\ \A x \in Actor \ {"poll"} : pc'[x] = pc[x]
          /\ pc'["poll"] = pc["poll"] \/ (pc["poll"] = "idle" /\ pc'["poll"] = "look")
      BY <1>0, <2>1, PollStep
    <3> QED BY <1>0, <1>2, <3>1, Actors DEF Moves
  <2>2. CASE pc' = pc
    BY <1>0, <1>2, <2>2, Actors DEF Moves
  <2> QED BY <1>2, <2>1, <2>2
<1> HIDE DEF Goal
<1>3. ASSUME RegisterTick PROVE Goal
  BY <1>0, <1>1, <1>2, <1>3 DEF RegisterTick
<1>4. ASSUME NEW i \in Ident, Login(i) PROVE Goal
  <2>1. CASE ~listed
    BY <1>0, <1>1, <1>4, <2>1 DEF Login
  <2>2. CASE listed
    BY <1>2, <1>4, <2>2 DEF Login
  <2> QED BY <2>1, <2>2
<1>5. ASSUME NEW a \in Addr, Listen(a) PROVE Goal
  BY <1>0, <1>1, <1>5 DEF Listen
<1>6. Goal
  BY <1>3, <1>4, <1>5
<1> QED BY <1>6 DEF Goal

LEMMA TypesOfUpkeep ==
    ASSUME CoordShape, RegisterTick \/ (\E i \in Ident : Login(i)) \/ \E a \in Addr : Listen(a)
    PROVE  CoordShape'
<1>0. TypesOfFlags /\ TypesOfThreads /\ TypesOfRest
  BY DEF CoordShape
<1>1. /\ UNCHANGED <<registered, registeredOn, fails, okAge, ui, made, who, hbStop, hbJoin, reg, nonce>>
      /\ session' \in Ident \cup {NoOne} /\ eps' \subseteq Addr
  BY <1>0 DEF RegisterTick, Login, Listen, threads, servers, TypesOfRest
<1>2. Moves("call") /\ pc'["call"] = pc["call"] /\ lastTry' \in 0..2 /\ regPending' \in BOOLEAN
  BY UpkeepMoves
<1>3. pc'["reg"] \in {"challenge", "post"} => pc["reg"] = pc'["reg"]
  BY <1>2, Actors DEF Moves
<1>4. TypesOfThreads'
  BY <1>0, <1>1, <1>2, <1>3 DEF TypesOfThreads, Moves
<1>5. TypesOfFlags'
  BY <1>0, <1>1, <1>2 DEF TypesOfFlags
<1>6. TypesOfRest'
  BY <1>0, <1>1, <1>2 DEF TypesOfRest
<1> QED BY <1>4, <1>5, <1>6 DEF CoordShape

\* The register worker.
LEMMA TypesOfWorker ==
    ASSUME CoordShape, RegWorker
    PROVE  CoordShape'
<1>0. /\ TypesOfFlags /\ TypesOfThreads /\ TypesOfRest
      /\ pc \in [Actor -> PcAt] /\ fails \in 0..3 /\ fails + 1 \in Nat
  BY DEF CoordShape, TypesOfFlags, TypesOfThreads
<1>f. Min({3, fails + 1}) \in 0..3
  BY <1>0, MinOfTwo
<1>m. pc["reg"] \in {"challenge", "post"} => Min(reg.todo) \in Server
  <2>1. reg.todo \subseteq Server /\ Server \subseteq Nat
    BY <1>0, CoordAssumption DEF TypesOfThreads, CoordAssumption
  <2> QED BY <1>0, <2>1, MinIsIn DEF TypesOfThreads
<1>i. [pc EXCEPT !["reg"] = "idle"] \in [Actor -> PcAt]
  BY <1>0 DEF PcAt
<1>1. CASE RegBegin
  <2>1. TypesOfFlags' /\ TypesOfRest'
    BY <1>0, <1>1, <1>f DEF RegBegin, threads, servers, TypesOfFlags, TypesOfRest
  <2>2. who' \in [Actor -> Ident \cup {NoOne}] /\ UNCHANGED <<made, hbStop, hbJoin>>
    BY <1>0, <1>1 DEF RegBegin, threads, TypesOfThreads, TypesOfRest
  <2>3. CASE session = NoOne
    <3>1. pc' = [pc EXCEPT !["reg"] = "idle"] /\ reg' = reg
      BY <1>1, <2>3 DEF RegBegin
    <3> QED BY <1>0, <1>i, <2>1, <2>2, <3>1, Actors DEF TypesOfThreads, CoordShape
  <2>4. CASE session # NoOne /\ eps = {}
    <3>1. SchedulePoll([pc EXCEPT !["reg"] = "idle"]) /\ reg' = reg
      BY <1>1, <2>4 DEF RegBegin
    <3>2. /\ pc' \in [Actor -> PcAt] /\ pc'["reg"] = "idle" /\ pc'["call"] = pc["call"]
      BY <1>0, <1>i, <3>1, PollStep, Actors
    <3> QED BY <1>0, <2>1, <2>2, <3>1, <3>2 DEF TypesOfThreads, CoordShape
  <2>5. CASE session # NoOne /\ eps # {}
    <3>1. /\ pc' = [pc EXCEPT !["reg"] = "challenge"]
          /\ reg' = [eps |-> eps, todo |-> Server, on |-> {}]
      BY <1>1, <2>5 DEF RegBegin
    <3>2. pc' \in [Actor -> PcAt] /\ pc'["call"] = pc["call"]
      BY <1>0, <3>1, Actors DEF PcAt
    <3>3. reg' \in [eps : SUBSET Addr, todo : SUBSET Server, on : SUBSET Server] /\ reg'.todo # {}
      BY <1>0, <3>1, CoordAssumption DEF TypesOfRest, CoordAssumption
    <3> QED BY <1>0, <2>1, <2>2, <3>2, <3>3 DEF TypesOfThreads, CoordShape
  <2> QED BY <2>3, <2>4, <2>5
<1>2. CASE RegChallenge
  <2> DEFINE s == Min(reg.todo)
  <2>0. pc["reg"] = "challenge" /\ UNCHANGED <<flags, throttles, session, ui, eps, who, threads>>
    BY <1>2 DEF RegChallenge
  <2>1. TypesOfFlags'
    BY <1>0, <2>0 DEF flags, TypesOfFlags
  <2>2. nonce' \in [Server -> [Ident -> {"none", "reg", "call"}]]
    <3>1. nonce' = nonce \/ nonce' = [nonce EXCEPT ![s][who["reg"]] = "reg"]
      BY <1>2 DEF RegChallenge, Issue
    <3> QED BY <1>0, <3>1 DEF TypesOfRest
  <2>3. TypesOfRest'
    BY <1>0, <2>0, <2>2 DEF throttles, TypesOfRest
  <2>4. CASE serves[s]
    <3>1. pc' = [pc EXCEPT !["reg"] = "post"] /\ reg' = reg
      BY <1>2, <2>4 DEF RegChallenge
    <3>2. pc' \in [Actor -> PcAt] /\ pc'["call"] = pc["call"]
      BY <1>0, <3>1, Actors DEF PcAt
    <3> QED BY <1>0, <2>0, <2>1, <2>3, <3>1, <3>2 DEF TypesOfThreads, threads, CoordShape
  <2>5. CASE ~serves[s]
    <3>1. reg' = [reg EXCEPT !.todo = @ \ {s}] /\ pc' = NextServer(reg.todo \ {s})
      BY <1>2, <2>5 DEF RegChallenge
    <3>2. pc' \in [Actor -> PcAt] /\ pc'["call"] = pc["call"] /\ (pc'["reg"] = "done" \/ reg.todo \ {s} # {})
      BY <1>0, <3>1, Actors DEF PcAt, NextServer
    <3>3. reg' \in [eps : SUBSET Addr, todo : SUBSET Server, on : SUBSET Server] /\ reg'.todo = reg.todo \ {s}
      BY <1>0, <3>1 DEF TypesOfThreads
    <3> QED BY <1>0, <2>0, <2>1, <2>3, <3>2, <3>3 DEF TypesOfThreads, threads, CoordShape
  <2> QED BY <2>4, <2>5
<1>3. CASE RegPost
  <2> DEFINE s == Min(reg.todo)
  <2>0. pc["reg"] = "post" /\ UNCHANGED <<flags, throttles, session, ui, eps, who, threads>>
    BY <1>3 DEF RegPost
  <2>s. s \in Server
    BY <1>m, <2>0
  <2>1. TypesOfFlags'
    BY <1>0, <2>0 DEF flags, TypesOfFlags
  <2>2. nonce' \in [Server -> [Ident -> {"none", "reg", "call"}]]
    <3>1. nonce' = nonce \/ nonce' = [nonce EXCEPT ![s][who["reg"]] = "none"]
      BY <1>3 DEF RegPost, Take
    <3> QED BY <1>0, <3>1 DEF TypesOfRest
  <2>3. TypesOfRest'
    BY <1>0, <2>0, <2>2 DEF throttles, TypesOfRest
  <2>4. /\ pc' = NextServer(reg.todo \ {s})
        /\ \/ reg' = [reg EXCEPT !.todo = @ \ {s}, !.on = @ \cup {s}]
           \/ reg' = [reg EXCEPT !.todo = @ \ {s}]
    <3>1. reg \in [eps : SUBSET Addr, todo : SUBSET Server, on : SUBSET Server]
      BY <1>0 DEF TypesOfThreads
    <3> QED BY <1>3, <3>1 DEF RegPost
  <2>5. pc' \in [Actor -> PcAt] /\ pc'["call"] = pc["call"] /\ (pc'["reg"] = "done" \/ reg.todo \ {s} # {})
    BY <1>0, <2>4, Actors DEF PcAt, NextServer
  <2>6. reg' \in [eps : SUBSET Addr, todo : SUBSET Server, on : SUBSET Server] /\ reg'.todo = reg.todo \ {s}
    <3>1. reg \in [eps : SUBSET Addr, todo : SUBSET Server, on : SUBSET Server]
      BY <1>0 DEF TypesOfThreads
    <3>2. CASE reg' = [reg EXCEPT !.todo = @ \ {s}, !.on = @ \cup {s}]
      BY <2>s, <3>1, <3>2
    <3>3. CASE reg' = [reg EXCEPT !.todo = @ \ {s}]
      BY <3>1, <3>3
    <3> QED BY <2>4, <3>2, <3>3
  <2> QED BY <1>0, <2>0, <2>1, <2>3, <2>5, <2>6 DEF TypesOfThreads, threads, CoordShape
<1>4. CASE RegDone
  <2>0. UNCHANGED <<session, ui, eps, regPending, throttles, threads, servers>> /\ reg' = NoWork
    BY <1>4 DEF RegDone
  <2>w. who' \in [Actor -> Ident \cup {NoOne}]
    BY <1>0, <1>4 DEF RegDone, Ended, TypesOfThreads
  <2>1. TypesOfRest'
    BY <1>0, <2>0 DEF throttles, servers, TypesOfRest
  <2>2. TypesOfFlags'
    <3>1. reg.on \subseteq Server
      BY <1>0 DEF TypesOfThreads
    <3>2. okAge' \in 0..Stale /\ fails' \in 0..3
      BY <1>0, <1>4, <1>f DEF RegDone, TypesOfFlags, Stale
    <3> QED BY <1>0, <1>4, <3>1, <3>2 DEF RegDone, TypesOfFlags
  <2>3. pc' \in [Actor -> PcAt] /\ pc'["call"] = pc["call"] /\ pc'["reg"] \in {"idle", "hbcheck"}
    BY <1>0, <1>4, Actors DEF RegDone, PcAt
  <2>4. reg' \in [eps : SUBSET Addr, todo : SUBSET Server, on : SUBSET Server]
    BY <2>0 DEF NoWork
  <2> QED BY <1>0, <2>0, <2>w, <2>1, <2>2, <2>3, <2>4 DEF TypesOfThreads, threads, CoordShape
<1> QED BY <1>1, <1>2, <1>3, <1>4 DEF RegWorker

\* start_heartbeat_loop.
LEMMA SpawnTakesSlot ==
    ASSUME NEW x, HbSpawn(x)
    PROVE  \E t \in Hb : /\ ~Alive(t)
                         /\ pc' = [pc EXCEPT ![x] = "hbstore", ![t] = "sleep"]
                         /\ who' = [who EXCEPT ![t] = who[x]]
                         /\ made' = [made EXCEPT ![x] = t]
<1> DEFINE t == CHOOSE u \in Hb : ~Alive(u)
<1>1. t \in Hb /\ ~Alive(t)
  <2>1. \E u \in Hb : ~Alive(u)
    BY DEF HbSpawn
  <2> QED BY <2>1
<1> QED BY <1>1 DEF HbSpawn

LEMMA TypesOfStarter ==
    ASSUME CoordShape, NEW x \in Actor, Starter(x)
    PROVE  CoordShape'
<1>0. /\ TypesOfFlags /\ TypesOfThreads /\ TypesOfRest
      /\ pc \in [Actor -> PcAt] /\ made \in [Actor -> Hb \cup {NoOne}]
      /\ who \in [Actor -> Ident \cup {NoOne}]
  BY DEF CoordShape, TypesOfThreads
<1>x. x # "call"
  BY <1>0 DEF Starter, HbCheck, HbSpawn, HbStore, TypesOfThreads
<1>r. Rest(x) \in {"sleep", "idle"} /\ {"sleep", "idle", "hbspawn", "hbstore"} \subseteq PcAt
  BY DEF Rest, PcAt
<1>1. CASE HbCheck(x) \/ HbStore(x)
  <2>1. TypesOfFlags' /\ TypesOfRest'
    BY <1>0, <1>1 DEF HbCheck, HbStore, flags, servers, TypesOfFlags, TypesOfRest
  <2>2. \E l \in {"sleep", "idle", "hbspawn"} : pc' = [pc EXCEPT ![x] = l]
    BY <1>1, <1>r DEF HbCheck, HbStore
  <2>3. /\ pc' \in [Actor -> PcAt] /\ pc'["call"] = pc["call"]
        /\ pc'["reg"] = pc["reg"] \/ pc'["reg"] \in {"sleep", "idle", "hbspawn"}
    BY <1>0, <1>x, <1>r, <2>2, Actors
  <2>4. made' \in [Actor -> Hb \cup {NoOne}] /\ hbJoin' \in Hb \cup {NoOne}
    BY <1>0, <1>1 DEF HbCheck, HbStore, threads, TypesOfThreads
  <2>5. UNCHANGED <<reg, hbStop>> /\ who' \in [Actor -> Ident \cup {NoOne}]
    BY <1>0, <1>1 DEF HbCheck, HbStore, threads, Ended
  <2>6. TypesOfThreads'
    BY <1>0, <2>3, <2>4, <2>5 DEF TypesOfThreads
  <2> QED BY <2>1, <2>6 DEF CoordShape
<1>2. CASE HbSpawn(x)
  <2>1. TypesOfFlags' /\ TypesOfRest'
    BY <1>0, <1>2 DEF HbSpawn, throttles, servers, TypesOfFlags, TypesOfRest
  <2>2. PICK t \in Hb : /\ pc' = [pc EXCEPT ![x] = "hbstore", ![t] = "sleep"]
                        /\ who' = [who EXCEPT ![t] = who[x]]
                        /\ made' = [made EXCEPT ![x] = t]
    BY <1>2, SpawnTakesSlot
  <2>3. /\ pc' \in [Actor -> PcAt] /\ pc'["call"] = pc["call"]
        /\ pc'["reg"] = pc["reg"] \/ pc'["reg"] = "hbstore"
    BY <1>0, <1>x, <1>r, <2>2, Actors
  <2>4. made' \in [Actor -> Hb \cup {NoOne}] /\ who' \in [Actor -> Ident \cup {NoOne}]
    BY <1>0, <2>2
  <2>5. reg' = reg /\ hbJoin' = hbJoin /\ hbStop' = FALSE
    BY <1>2 DEF HbSpawn
  <2>6. TypesOfThreads'
    BY <1>0, <2>3, <2>4, <2>5 DEF TypesOfThreads
  <2> QED BY <2>1, <2>6 DEF CoordShape
<1> QED BY <1>1, <1>2 DEF Starter

\* The lookups.
LEMMA RowSeenStep ==
    ASSUME TypesOfFlags, pc \in [Actor -> PcAt], NEW x \in Actor \ {"reg", "call"}, NEW i,
           Seen(i) # {}, RowSeen(x, i)
    PROVE  /\ TypesOfFlags' /\ Moves(x) /\ lastTry' = lastTry /\ regPending' = regPending
           /\ registered' = TRUE
           /\ pc' = [pc EXCEPT ![x] = IF registered THEN Rest(x) ELSE "hbcheck"]
<1>1. TypesOfFlags'
  <2>1. Seen(i) \subseteq Server
    BY DEF Seen, Reached
  <2> QED BY <2>1 DEF RowSeen, TypesOfFlags, Stale
<1>2. Rest(x) \in PcAt /\ "hbcheck" \in PcAt
  BY DEF Rest, PcAt
<1>3. Moves(x)
  BY <1>2, Actors DEF RowSeen, Moves
<1> QED BY <1>1, <1>3 DEF RowSeen

LEMMA PollLookMoves ==
    ASSUME CoordShape, PollLook
    PROVE  /\ TypesOfFlags' /\ Moves("poll") /\ lastTry' \in 0..2
           /\ pc["poll"] = "look" /\ pc'["poll"] \in {"idle", "look", "hbcheck"}
           /\ registered' => registered \/ pc'["poll"] = "hbcheck"
<1>0. /\ TypesOfFlags /\ TypesOfThreads /\ TypesOfRest /\ pc \in [Actor -> PcAt]
      /\ registered \in BOOLEAN /\ regPending \in BOOLEAN /\ lastTry \in 0..2
      /\ "poll" \in Actor /\ "poll" # "reg"
  BY Actors DEF CoordShape, TypesOfFlags, TypesOfThreads, TypesOfRest
<1>i. [pc EXCEPT !["poll"] = "idle"] \in [Actor -> PcAt]
  BY <1>0 DEF PcAt
<1>l. pc["poll"] = "look"
  BY DEF PollLook
<1> DEFINE f == IF tries + 1 >= PollTries THEN [pc EXCEPT !["poll"] = "idle"] ELSE pc
<1>1. CASE session = NoOne
  BY <1>0, <1>i, <1>1, <1>l, Actors DEF PollLook, flags, TypesOfFlags, Moves
<1>2. CASE session # NoOne /\ Seen(session) # {}
  <2>1. RowSeen("poll", session)
    BY <1>2 DEF PollLook
  <2>2. Rest("poll") = "idle"
    BY Actors DEF Rest
  <2> QED BY <1>0, <1>2, <1>l, <2>1, <2>2, RowSeenStep, Actors
<1>3. CASE session # NoOne /\ Seen(session) = {}
  <2>1. /\ UNCHANGED <<registered, registeredOn>>
        /\ fails' \in 0..3 /\ okAge' \in 0..Stale
        /\ SpawnRegister(f, registered, regPending) \/ (pc' = f /\ UNCHANGED <<lastTry, regPending>>)
    <3>1. /\ IF Reached # {} THEN fails' = 0 /\ okAge' = 0 ELSE UNCHANGED <<fails, okAge>>
          /\ UNCHANGED <<registered, registeredOn>>
          /\ SpawnRegister(f, registered, regPending) \/ (pc' = f /\ UNCHANGED <<lastTry, regPending>>)
      BY <1>3 DEF PollLook
    <3> QED BY <1>0, <3>1 DEF TypesOfFlags, Stale
  <2>2. /\ f \in [Actor -> PcAt] /\ \A y \in Actor \ {"poll"} : f[y] = pc[y]
        /\ f["poll"] \in {"idle", "look"}
    BY <1>0, <1>i, <1>l
  <2> HIDE DEF f
  <2>3. /\ pc' \in [Actor -> PcAt] /\ lastTry' \in 0..2 /\ regPending' \in BOOLEAN
        /\ \A y \in Actor \ {"reg"} : pc'[y] = f[y]
        /\ pc'["reg"] = f["reg"] \/ (pc["reg"] = "idle" /\ pc'["reg"] = "begin")
    BY <1>0, <2>1, <2>2, SpawnStep, Actors
  <2>4. Moves("poll") /\ pc'["poll"] = f["poll"]
    BY <1>0, <2>2, <2>3, Actors DEF Moves
  <2> QED BY <1>0, <1>l, <2>1, <2>2, <2>3, <2>4 DEF TypesOfFlags
<1> QED BY <1>1, <1>2, <1>3

LEMMA TypesOfPoll ==
    ASSUME CoordShape, PollLook
    PROVE  CoordShape'
<1>0. TypesOfThreads /\ TypesOfRest
  BY DEF CoordShape
<1>1. UNCHANGED <<session, ui, eps, reg, made, hbStop, hbJoin, nonce>>
  BY DEF PollLook, threads, servers
<1>2. who' \in [Actor -> Ident \cup {NoOne}]
  BY <1>0 DEF PollLook, TypesOfThreads, TypesOfRest
<1>3. TypesOfFlags' /\ Moves("poll") /\ lastTry' \in 0..2
  BY PollLookMoves
<1>4. pc'["call"] = pc["call"] /\ (pc'["reg"] \in {"challenge", "post"} => pc["reg"] = pc'["reg"])
  BY <1>3, Actors DEF Moves
<1>5. TypesOfThreads'
  BY <1>0, <1>1, <1>2, <1>3, <1>4 DEF TypesOfThreads, Moves
<1>6. TypesOfRest'
  BY <1>0, <1>1, <1>3 DEF TypesOfRest
<1> QED BY <1>3, <1>5, <1>6 DEF CoordShape

\* A heartbeat thread that is awake.
LEMMA BeatMoves ==
    ASSUME CoordShape, NEW t \in Hb, HbBeat(t) \/ HbLook(t)
    PROVE  /\ TypesOfFlags' /\ Moves(t) /\ lastTry' \in 0..2
           /\ pc[t] \in {"beat", "look", "look2", "look3", "recover"}
           /\ pc'[t] \in {"sleep", "look", "look2", "look3", "recover", "hbcheck"}
           /\ registered' => registered \/ pc'[t] = "hbcheck"
<1>0. /\ TypesOfFlags /\ TypesOfThreads /\ TypesOfRest /\ pc \in [Actor -> PcAt]
      /\ registered \in BOOLEAN /\ regPending \in BOOLEAN /\ lastTry \in 0..2 /\ fails \in 0..3
      /\ registeredOn \subseteq Server
  BY DEF CoordShape, TypesOfFlags, TypesOfThreads, TypesOfRest
<1>t. t \in Actor \ {"reg", "poll", "call"}
  BY Actors
<1>a. pc[t] \in {"beat", "look", "look2", "look3", "recover"}
  BY DEF HbBeat, HbLook
<1> DEFINE Awake == {"sleep", "look", "look2", "look3", "recover"}
<1>l. Awake \subseteq PcAt
  BY DEF PcAt
<1>p. \A l \in Awake : /\ [pc EXCEPT ![t] = l] \in [Actor -> PcAt]
                       /\ \A y \in Actor \ {t} : [pc EXCEPT ![t] = l][y] = pc[y]
                       /\ [pc EXCEPT ![t] = l][t] = l
  BY <1>0, <1>l, <1>t
<1>m. \A l \in Awake : pc' = [pc EXCEPT ![t] = l] => Moves(t) /\ pc'[t] \in Awake
  BY <1>p, <1>t, Actors DEF Moves
<1>r. Recover(t) = [pc EXCEPT ![t] = "sleep"] \/ Recover(t) = [pc EXCEPT ![t] = "recover"]
  BY DEF Recover
<1>2. CASE HbBeat(t)
  <2>0. UNCHANGED <<registeredOn, regPending, lastTry>>
    BY <1>2 DEF HbBeat
  <2> DEFINE Goal == /\ Moves(t) /\ registered' \in BOOLEAN /\ (registered' => registered)
                     /\ fails' \in 0..3 /\ okAge' \in 0..Stale /\ pc'[t] \in Awake
  <2>b. okAge \in 0..Stale /\ 0 \in 0..Stale /\ 0 \in 0..3
    BY <1>0 DEF TypesOfFlags, Stale
  <2>1. ASSUME registeredOn = {} \/ ~registered PROVE Goal
    BY <1>0, <1>m, <1>2, <2>1, <2>b DEF HbBeat
  <2>2. ASSUME NEW s, Beat(t, s) PROVE Goal
    BY <1>0, <1>m, <1>r, <2>2, <2>b DEF Beat
  <2>3. ASSUME /\ fails' = Min({3, fails + Cardinality(registeredOn) + 1})
               /\ pc' = [pc EXCEPT ![t] = IF fails' = 3 THEN "look3" ELSE "look2"]
               /\ UNCHANGED <<registered, okAge>>
        PROVE  Goal
    <3>1. Cardinality(registeredOn) \in Nat
      BY <1>0, CoordAssumption, FS_Subset, FS_CardinalityType DEF CoordAssumption
    <3>2. fails + Cardinality(registeredOn) + 1 \in Nat
      BY <1>0, <3>1
    <3>3. fails' \in 0..3
      BY <2>3, <3>2, MinOfTwo
    <3> QED BY <1>0, <1>m, <2>3, <2>b, <3>3
  <2>4. Goal
    <3> HIDE DEF Goal
    <3> QED BY <1>2, <2>1, <2>2, <2>3 DEF HbBeat
  <2> QED BY <1>0, <1>a, <2>0, <2>4 DEF TypesOfFlags
<1>3. CASE HbLook(t) /\ Seen(who[t]) # {}
  <2>1. RowSeen(t, who[t])
    BY <1>3 DEF HbLook
  <2>2. Rest(t) = "sleep"
    BY DEF Rest
  <2>3. /\ TypesOfFlags' /\ Moves(t) /\ lastTry' = lastTry
        /\ pc' = [pc EXCEPT ![t] = IF registered THEN "sleep" ELSE "hbcheck"]
    BY <1>0, <1>t, <1>3, <2>1, <2>2, RowSeenStep
  <2>4. pc'[t] = IF registered THEN "sleep" ELSE "hbcheck"
    BY <1>0, <1>t, <2>3
  <2> QED BY <1>0, <1>a, <2>3, <2>4
<1>4. CASE HbLook(t) /\ Seen(who[t]) = {}
  <2> DEFINE f == IF pc[t] = "look3" THEN Recover(t) ELSE [pc EXCEPT ![t] = "sleep"]
             p == regPending \/ (pc[t] = "recover" /\ Reached # {} /\ ~registered)
  <2>1. /\ AskAgain(f, p) \/ (pc' = f /\ UNCHANGED <<lastTry, regPending, tries>>)
        /\ UNCHANGED <<registered, registeredOn>>
        /\ fails' = 0 \/ fails' = fails
        /\ okAge' = 0 \/ okAge' = okAge
    BY <1>4 DEF HbLook
  <2>2. f \in [Actor -> PcAt] /\ f[t] \in Awake /\ \A y \in Actor \ {t} : f[y] = pc[y]
    BY <1>p, <1>r
  <2>3. p \in BOOLEAN
    OBVIOUS
  <2> HIDE DEF f, p
  <2>4. Moves(t) /\ lastTry' \in 0..2 /\ regPending' \in BOOLEAN /\ pc'[t] = f[t]
    <3>1. CASE AskAgain(f, p)
      <4>1. /\ pc' \in [Actor -> PcAt] /\ lastTry' \in 0..2 /\ regPending' \in BOOLEAN
            /\ \A x \in Actor \ {"reg", "poll"} : pc'[x] = f[x]
            /\ pc'["reg"] = f["reg"] \/ (pc["reg"] = "idle" /\ pc'["reg"] = "begin")
            /\ pc'["poll"] = f["poll"] \/ (pc["poll"] = "idle" /\ pc'["poll"] = "look")
        BY <1>0, <2>2, <2>3, <3>1, AskStep
      <4> QED BY <1>t, <2>2, <4>1, Actors DEF Moves
    <3>2. CASE pc' = f /\ UNCHANGED <<lastTry, regPending, tries>>
      BY <1>0, <1>t, <2>2, <3>2, Actors DEF Moves
    <3> QED BY <2>1, <3>1, <3>2
  <2>5. TypesOfFlags'
    BY <1>0, <2>1, <2>4 DEF TypesOfFlags, Stale
  <2> QED BY <1>a, <2>1, <2>2, <2>4, <2>5
<1> QED BY <1>2, <1>3, <1>4

LEMMA TypesOfHeartbeat ==
    ASSUME CoordShape, NEW t \in Hb, Heartbeat(t)
    PROVE  CoordShape'
<1>0. TypesOfFlags /\ TypesOfThreads /\ TypesOfRest
  BY DEF CoordShape
<1>1. UNCHANGED <<session, ui, eps, reg, made, hbStop, hbJoin, nonce>>
  BY DEF Heartbeat, HbExit, HbBeat, HbLook, threads, servers
<1>w. who' \in [Actor -> Ident \cup {NoOne}]
  BY <1>0 DEF Heartbeat, HbExit, HbBeat, HbLook, Ended, TypesOfThreads
<1>2. TypesOfFlags' /\ Moves(t) /\ lastTry' \in 0..2
  <2>1. CASE HbExit(t)
    BY <1>0, <2>1, Actors DEF HbExit, flags, throttles, TypesOfFlags, TypesOfThreads, TypesOfRest,
                              Moves, PcAt
  <2>2. CASE HbBeat(t) \/ HbLook(t)
    BY <2>2, BeatMoves
  <2> QED BY <2>1, <2>2 DEF Heartbeat
<1>3. TypesOfThreads'
  BY <1>0, <1>1, <1>w, <1>2, ThreadsMove, Actors
<1>4. TypesOfRest'
  BY <1>0, <1>1, <1>2 DEF TypesOfRest
<1> QED BY <1>2, <1>3, <1>4 DEF CoordShape

\* A call.
LEMMA TypesOfCall ==
    ASSUME CoordShape, CallChallenge \/ CallRequest
    PROVE  CoordShape'
<1>0. /\ TypesOfFlags /\ TypesOfThreads /\ TypesOfRest /\ pc \in [Actor -> PcAt]
  BY DEF CoordShape, TypesOfThreads
<1>1. TypesOfFlags'
  BY <1>0 DEF CallChallenge, CallRequest, flags, TypesOfFlags
<1>2. nonce' \in [Server -> [Ident -> {"none", "reg", "call"}]]
  <2>1. \E i, v : v \in {"none", "call"} /\ (nonce' = nonce \/ nonce' = [nonce EXCEPT ![First][i] = v])
    BY DEF CallChallenge, CallRequest, Issue, Take
  <2> QED BY <1>0, <2>1 DEF TypesOfRest
<1>3. TypesOfRest'
  BY <1>0, <1>2 DEF CallChallenge, CallRequest, throttles, TypesOfRest
<1>4. \E l \in {"idle", "post"} : pc' = [pc EXCEPT !["call"] = l]
  BY DEF CallChallenge, CallRequest
<1>5. pc' \in [Actor -> PcAt] /\ pc'["call"] \in {"idle", "post"} /\ pc'["reg"] = pc["reg"]
  BY <1>0, <1>4, Actors DEF PcAt
<1>6. who' \in [Actor -> Ident \cup {NoOne}]
  BY <1>0 DEF CallChallenge, CallRequest, Ended, TypesOfThreads, TypesOfRest
<1>7. UNCHANGED <<reg, made, hbStop, hbJoin>>
  BY DEF CallChallenge, CallRequest, threads
<1>8. TypesOfThreads'
  BY <1>0, <1>5, <1>6, <1>7 DEF TypesOfThreads
<1> QED BY <1>1, <1>3, <1>8 DEF CoordShape

LEMMA CoordShapeStarts == CoordInit => CoordShape
<1> SUFFICES ASSUME CoordInit PROVE CoordShape
  OBVIOUS
<1>1. TypesOfFlags
  <2>1. okAge \in 0..Stale /\ fails \in 0..3
    BY DEF CoordInit, Stale
  <2> QED BY <2>1 DEF CoordInit, TypesOfFlags
<1>2. TypesOfThreads
  <2>1. pc \in [Actor -> PcAt] /\ pc["call"] = "idle" /\ pc["reg"] = "idle"
    BY Actors DEF CoordInit, PcAt
  <2>2. reg \in [eps : SUBSET Addr, todo : SUBSET Server, on : SUBSET Server]
    BY DEF CoordInit, NoWork
  <2> QED BY <2>1, <2>2 DEF CoordInit, TypesOfThreads
<1>3. TypesOfRest
  BY DEF CoordInit, TypesOfRest
<1> QED BY <1>1, <1>2, <1>3 DEF CoordShape

LEMMA CoordShapeStays == CoordShape /\ [CoordNext]_coordVars => CoordShape'
<1> SUFFICES ASSUME CoordShape, [CoordNext]_coordVars PROVE CoordShape'
  OBVIOUS
<1>1. CASE UNCHANGED coordVars
  BY <1>1 DEF coordVars, flags, throttles, threads, servers, CoordShape, TypesOfFlags,
              TypesOfThreads, TypesOfRest
<1>2. CASE CoordNext
  BY <1>2, TypesOfWorld, TypesOfClock, TypesOfUpkeep, TypesOfWorker, TypesOfStarter, TypesOfPoll,
     TypesOfHeartbeat, TypesOfCall DEF CoordNext
<1> QED BY <1>1, <1>2

\* Every state of coord_runtime.rs has its type, and a device that counts as
\* registered knows on which servers.
THEOREM CoordTypeCorrect == CoordSpec => []CoordTypeOK
<1>1. CoordSpec => []CoordShape
  BY CoordShapeStarts, CoordShapeStays, PTL DEF CoordSpec
<1> QED BY <1>1, ShapeHasTypes, PTL

-----------------------------------------------------------------------------
(* Who refreshes the row: the thread that Keeps speaks of stays, or hands    *)
(* over to another one, as long as the flag is up and no thread has strayed. *)

Counts == registered /\ ~strayed
Open   == ui = "idle" /\ session # NoOne

Watched ==
    /\ CoordShape
    /\ \A t \in Hb : pc[t] # "idle"
    /\ Counts => Open /\ \E x \in Actor : Keeps(x)

LEMMA WatchedKeeps == Watched => RegisteredHasHeartbeat
  BY DEF Watched, Counts, RegisteredHasHeartbeat

\* A step of x in which no heartbeat is started, stored or ended.
Works(x) ==
    /\ Moves(x)
    /\ pc[x] \notin {"hbcheck", "hbspawn"} /\ pc'[x] # "dead"
    /\ x \in Hb => pc'[x] # "idle" /\ who'[x] = who[x]
    /\ \A y \in Actor \ {x} : who'[y] = who[y] \/ pc'[y] \in {"idle", "dead"}
    /\ UNCHANGED <<ui, session, hbStop>>
    /\ Counts' => Counts \/ (Open /\ pc'[x] = "hbcheck" /\ who'[x] = session)

LEMMA WorkKeepsWatch ==
    ASSUME Watched, CoordShape', NEW x \in Actor, Works(x)
    PROVE  Watched'
<1>0. /\ \A t \in Hb : pc[t] # "idle"
      /\ Counts => Open /\ \E y \in Actor : Keeps(y)
      /\ pc["call"] \in {"idle", "post"} /\ UNCHANGED <<ui, session, hbStop>>
  BY DEF Watched, Works, CoordShape, TypesOfThreads
<1>1. ASSUME NEW t \in Hb PROVE pc'[t] # "idle"
  BY <1>0, <1>1, Actors DEF Works, Moves
<1>2. ASSUME NEW y \in Actor, Keeps(y) PROVE Keeps(y)'
  <2>1. CASE y = x
    BY <1>0, <1>2, <2>1 DEF Works, Keeps, Alive
  <2>2. CASE y # x
    <3>1. pc'[y] = pc[y]
      BY <1>2, <2>2, Actors DEF Works, Moves, Keeps
    <3>2. pc[y] \notin {"idle", "dead"}
      BY <1>0, <1>2 DEF Keeps, Alive
    <3>3. who'[y] = who[y]
      BY <2>2, <3>1, <3>2 DEF Works
    <3> QED BY <1>0, <1>2, <3>1, <3>3 DEF Keeps, Alive
  <2> QED BY <2>1, <2>2
<1>3. ASSUME Counts' PROVE Open' /\ \E y \in Actor : Keeps(y)'
  <2>1. CASE Counts
    BY <1>0, <1>2, <2>1 DEF Open
  <2>2. CASE ~Counts
    <3>1. Open /\ pc'[x] = "hbcheck" /\ who'[x] = session
      BY <1>3, <2>2 DEF Works
    <3> QED BY <1>0, <3>1 DEF Open, Keeps
  <2> QED BY <2>1, <2>2
<1> QED BY <1>1, <1>3 DEF Watched

\* Most steps are of that kind.
LEMMA WorkersWork ==
    ASSUME Watched, NEW x \in Actor,
           \/ x = "call" /\ RegisterTick
           \/ x = "call" /\ \E a \in Addr : Listen(a)
           \/ x = "call" /\ (CallChallenge \/ CallRequest \/ Pause)
           \/ x = "call" /\ \E s \in Server : ServerDown(s) \/ ServerUp(s) \/ Purge(s)
           \/ x = "reg" /\ RegWorker
           \/ x = "poll" /\ PollLook
           \/ x \in Hb /\ (HbBeat(x) \/ HbLook(x))
    PROVE  Works(x)
<1>0. /\ CoordShape /\ pc \in [Actor -> PcAt] /\ who \in [Actor -> Ident \cup {NoOne}]
      /\ pc["call"] \in {"idle", "post"} /\ {"call", "reg", "poll"} \cap Hb = {}
      /\ registered \in BOOLEAN
  BY Actors DEF Watched, CoordShape, TypesOfThreads, TypesOfFlags
<1>1. ASSUME x = "call", RegisterTick \/ \E a \in Addr : Listen(a)
      PROVE  Works(x)
  <2>1. UNCHANGED <<ui, session, hbStop, registered, who, strayed>>
    BY <1>1 DEF RegisterTick, Listen, threads, world
  <2>2. Moves("call") /\ pc'["call"] = pc["call"]
    BY <1>0, <1>1, UpkeepMoves
  <2> QED BY <1>0, <1>1, <2>1, <2>2 DEF Works, Counts
<1>2. ASSUME x = "call", CallChallenge \/ CallRequest PROVE Works(x)
  <2>1. PICK l \in {"idle", "post"} : pc' = [pc EXCEPT !["call"] = l]
    BY <1>2 DEF CallChallenge, CallRequest
  <2>2. UNCHANGED <<ui, session, hbStop, registered, strayed>>
    BY <1>2 DEF CallChallenge, CallRequest, flags, threads, world
  <2>3. /\ Moves("call") /\ pc'["call"] = l /\ \A y \in Actor \ {"call"} : pc'[y] = pc[y]
    BY <1>0, <2>1, Actors DEF Moves, PcAt
  <2>4. \A y \in Actor \ {"call"} : who'[y] = who[y] \/ pc'[y] \in {"idle", "dead"}
    BY <1>0, <1>2 DEF CallChallenge, CallRequest, Ended
  <2> QED BY <1>0, <1>2, <2>1, <2>2, <2>3, <2>4 DEF Works, Counts
<1>3. ASSUME x = "call", Pause \/ \E s \in Server : ServerDown(s) \/ ServerUp(s) \/ Purge(s)
      PROVE  Works(x)
  <2>1. pc' = pc /\ UNCHANGED <<ui, session, hbStop, registered, who, strayed>>
    BY <1>3 DEF Pause, ServerDown, ServerUp, Purge, flags, threads, world
  <2> QED BY <1>0, <1>3, <2>1 DEF Works, Moves, Counts
<1>4. ASSUME x = "reg", RegWorker PROVE Works(x)
  <2>1. /\ pc["reg"] \in {"begin", "challenge", "post", "done"}
        /\ UNCHANGED <<ui, session, hbStop>>
    BY <1>4 DEF RegWorker, RegBegin, RegChallenge, RegPost, RegDone, threads
  <2>3. \A l \in PcAt : pc' = [pc EXCEPT !["reg"] = l] => Moves("reg") /\ pc'["reg"] = l
    BY <1>0, Actors DEF Moves
  <2>4. {"idle", "challenge", "post", "done", "hbcheck"} \subseteq PcAt
    BY DEF PcAt
  <2>5. /\ Moves("reg") /\ pc'["reg"] \in {"idle", "challenge", "post", "done", "hbcheck"}
        /\ \A y \in Actor \ {"reg"} : who'[y] = who[y] \/ pc'[y] \in {"idle", "dead"}
        /\ Counts' => Counts \/ (Open /\ pc'["reg"] = "hbcheck" /\ who'["reg"] = session)
    <3>1. CASE RegBegin
      <4>0. UNCHANGED <<registered, strayed>> /\ \A y \in Actor \ {"reg"} : who'[y] = who[y]
        BY <1>0, <3>1 DEF RegBegin, world
      <4>1. CASE session = NoOne
        BY <2>3, <2>4, <3>1, <4>0, <4>1 DEF RegBegin, Counts
      <4>2. CASE session # NoOne /\ eps = {}
        <5> DEFINE f == [pc EXCEPT !["reg"] = "idle"]
        <5>1. f \in [Actor -> PcAt] /\ f["reg"] = "idle" /\ \A y \in Actor \ {"reg"} : f[y] = pc[y]
          BY <1>0, <2>4, Actors
        <5>2. SchedulePoll(f)
          BY <3>1, <4>2 DEF RegBegin
        <5> HIDE DEF f
        <5>3. /\ pc' \in [Actor -> PcAt] /\ \A y \in Actor \ {"poll"} : pc'[y] = f[y]
              /\ pc'["poll"] = f["poll"] \/ (pc["poll"] = "idle" /\ pc'["poll"] = "look")
          BY <5>1, <5>2, PollStep
        <5> QED BY <4>0, <5>1, <5>3, Actors DEF Moves, Counts
      <4>3. CASE session # NoOne /\ eps # {}
        BY <2>3, <2>4, <3>1, <4>0, <4>3 DEF RegBegin, Counts
      <4> QED BY <4>1, <4>2, <4>3
    <3>2. CASE RegChallenge
      BY <2>3, <2>4, <3>2 DEF RegChallenge, NextServer, flags, world, Counts
    <3>3. CASE RegPost
      BY <2>3, <2>4, <3>3 DEF RegPost, NextServer, flags, Counts
    <3>4. CASE RegDone
      <4>1. Moves("reg") /\ pc'["reg"] = IF reg.on = {} THEN "idle" ELSE "hbcheck"
        BY <2>3, <2>4, <3>4 DEF RegDone
      <4>2. \A y \in Actor : who'[y] = who[y] \/ pc'[y] \in {"idle", "dead"}
        BY <1>0, <3>4 DEF RegDone, Ended
      <4>3. CASE reg.on = {}
        BY <3>4, <4>1, <4>2, <4>3 DEF RegDone, Counts
      <4>4. CASE reg.on # {}
        <5>1. strayed' = (strayed \/ Late(who["reg"])) /\ who'["reg"] = who["reg"]
          BY <3>4, <4>1, <4>2, <4>4, Actors DEF RegDone
        <5> QED BY <4>1, <4>2, <4>4, <5>1 DEF Counts, Late, Open
      <4> QED BY <4>3, <4>4
    <3> QED BY <1>4, <3>1, <3>2, <3>3, <3>4 DEF RegWorker
  <2> QED BY <1>0, <1>4, <2>1, <2>5 DEF Works
<1>5. ASSUME x = "poll", PollLook PROVE Works(x)
  <2>1. UNCHANGED <<ui, session, hbStop>> /\ pc["poll"] = "look"
    BY <1>5 DEF PollLook, threads
  <2>2. Moves("poll") /\ pc'["poll"] \in {"idle", "look", "hbcheck"}
    BY <1>0, <1>5, PollLookMoves
  <2>3. \A y \in Actor \ {"poll"} : who'[y] = who[y]
    BY <1>0, <1>5 DEF PollLook
  <2>4. Counts' => Counts \/ (Open /\ pc'["poll"] = "hbcheck" /\ who'["poll"] = session)
    <3>1. CASE session # NoOne /\ Seen(session) # {} /\ ~registered
      <4>1. RowSeen("poll", session) /\ who' = [who EXCEPT !["poll"] = session]
        BY <1>5, <3>1 DEF PollLook
      <4>2. pc' = [pc EXCEPT !["poll"] = "hbcheck"] /\ strayed' = (strayed \/ Late(session))
        BY <3>1, <4>1 DEF RowSeen
      <4> QED BY <1>0, <4>1, <4>2, Actors DEF Counts, Late, Open
    <3>2. CASE session # NoOne /\ Seen(session) # {} /\ registered
      BY <1>5, <3>2 DEF PollLook, RowSeen, Counts
    <3>3. CASE session = NoOne \/ Seen(session) = {}
      BY <1>5, <3>3 DEF PollLook, flags, Counts
    <3> QED BY <3>1, <3>2, <3>3
  <2> QED BY <1>0, <1>5, <2>1, <2>2, <2>3, <2>4 DEF Works
<1>6. ASSUME x \in Hb, HbBeat(x) \/ HbLook(x) PROVE Works(x)
  <2>1. UNCHANGED <<ui, session, hbStop, who>>
    BY <1>6 DEF HbBeat, HbLook, threads
  <2>2. /\ Moves(x) /\ pc[x] \in {"beat", "look", "look2", "look3", "recover"}
        /\ pc'[x] \in {"sleep", "look", "look2", "look3", "recover", "hbcheck"}
        /\ registered' => registered \/ pc'[x] = "hbcheck"
    BY <1>0, <1>6, BeatMoves
  <2>3. Counts' => Counts \/ (Open /\ pc'[x] = "hbcheck" /\ who'[x] = session)
    <3>1. CASE HbBeat(x)
      <4>1. strayed' = strayed /\ (registered' => registered)
        BY <3>1 DEF HbBeat, Beat, world
      <4> QED BY <4>1 DEF Counts
    <3>2. CASE HbLook(x) /\ Seen(who[x]) # {}
      <4>1. strayed' = (strayed \/ (~registered /\ Late(who[x])))
        BY <3>2 DEF HbLook, RowSeen
      <4> QED BY <2>1, <2>2, <4>1 DEF Counts, Late, Open
    <3>3. CASE HbLook(x) /\ Seen(who[x]) = {}
      BY <3>3 DEF HbLook, Counts
    <3> QED BY <1>6, <3>1, <3>2, <3>3
  <2> QED BY <1>0, <1>6, <2>1, <2>2, <2>3 DEF Works
<1> QED BY <1>1, <1>2, <1>3, <1>4, <1>5, <1>6

\* Logging in and out: the flag is down then, unless a thread has strayed.
LEMMA UserKeepsWatch ==
    ASSUME Watched, CoordShape', Logout \/ StopSteps \/ \E i \in Ident : Login(i)
    PROVE  Watched'
<1>0. CoordShape /\ (\A t \in Hb : pc[t] # "idle") /\ (Counts => Open)
  BY DEF Watched
<1>1. CASE Logout \/ StopSteps
  <2>1. pc' = pc
    BY <1>1 DEF Logout, StopSteps, TellStop, TakeJoin, Joined, Close
  <2>2. ~Counts'
    <3>1. CASE Logout
      BY <3>1 DEF Logout, Counts
    <3>2. CASE StopSteps
      BY <1>0, <3>2 DEF StopSteps, TellStop, TakeJoin, Joined, Close, flags, world, Counts, Open
    <3> QED BY <1>1, <3>1, <3>2
  <2> QED BY <1>0, <2>1, <2>2 DEF Watched
<1>2. ASSUME NEW i \in Ident, Login(i) PROVE Watched'
  <2>1. \A t \in Hb : pc'[t] # "idle"
    BY <1>0, <1>2, UpkeepMoves, Actors DEF Moves
  <2>2. ~Counts'
    BY <1>0, <1>2 DEF Login, Counts, Open
  <2> QED BY <2>1, <2>2 DEF Watched
<1> QED BY <1>1, <1>2

\* start_heartbeat_loop.
LEMMA StarterKeepsWatch ==
    ASSUME Watched, CoordShape', NEW x \in Actor, Starter(x)
    PROVE  Watched'
<1>0. /\ \A t \in Hb : pc[t] # "idle"
      /\ Counts => Open /\ \E y \in Actor : Keeps(y)
      /\ pc \in [Actor -> PcAt] /\ hbJoin \in Hb \cup {NoOne}
      /\ who \in [Actor -> Ident \cup {NoOne}]
  BY DEF Watched, CoordShape, TypesOfThreads
<1>1. UNCHANGED <<ui, session, registered>> /\ (Counts' => Counts)
  <2>1. CASE HbCheck(x)
    <3>1. strayed' = (strayed \/ MistakenFor(x)) /\ UNCHANGED <<ui, session, registered>>
      BY <2>1 DEF HbCheck, flags
    <3> QED BY <3>1 DEF Counts
  <2>2. CASE HbSpawn(x) \/ HbStore(x)
    BY <2>2 DEF HbSpawn, HbStore, flags, world, Counts
  <2> QED BY <2>1, <2>2 DEF Starter
<1>r. Rest(x) \in {"sleep", "idle"} /\ (x \in Hb => Rest(x) = "sleep")
  BY DEF Rest
<1>2. ASSUME Counts, Counts' PROVE \E y \in Actor : Keeps(y)'
  <2>1. PICK y \in Actor : Keeps(y)
    BY <1>0, <1>2
  <2>2. y \in Hb => pc[y] # "idle"
    BY <1>0
  <2>3. CASE HbCheck(x)
    <3>1. /\ pc'[x] = IF HbRunning THEN Rest(x) ELSE "hbspawn"
          /\ \A z \in Actor \ {x} : pc'[z] = pc[z]
          /\ \A z \in Actor : pc'[z] \notin {"idle", "dead"} => who'[z] = who[z]
          /\ hbStop' = hbStop /\ pc[x] = "hbcheck"
      BY <1>0, <2>3 DEF HbCheck, Ended, threads
    <3>2. CASE y # x
      BY <1>1, <2>1, <2>2, <3>1, <3>2 DEF Keeps, Alive
    <3>3. CASE y = x /\ ~HbRunning
      BY <1>1, <2>1, <3>1, <3>3 DEF Keeps
    <3>4. CASE y = x /\ HbRunning
      <4>0. strayed' = (strayed \/ MistakenFor(x))
        BY <2>3 DEF HbCheck
      <4>1. ~MistakenFor(x)
        BY <1>2, <4>0 DEF Counts
      <4>2. PICK t \in Hb : t = hbJoin /\ Alive(t) /\ ~hbStop /\ who[t] = session
        BY <1>0, <2>1, <3>4, <4>1 DEF HbRunning, MistakenFor, Keeps
      <4>3. t \in Actor /\ pc'[t] \notin {"idle", "dead"}
        BY <1>0, <1>r, <3>1, <3>4, <4>2, Actors DEF Alive
      <4>4. Keeps(t)'
        BY <1>1, <3>1, <4>2, <4>3 DEF Keeps, Alive
      <4> QED BY <4>3, <4>4
    <3> QED BY <3>2, <3>3, <3>4
  <2>4. CASE HbSpawn(x)
    <3>1. PICK t \in Hb : /\ ~Alive(t)
                          /\ pc' = [pc EXCEPT ![x] = "hbstore", ![t] = "sleep"]
                          /\ who' = [who EXCEPT ![t] = who[x]]
      BY <2>4, SpawnTakesSlot
    <3>2. t \in Actor /\ t # x /\ ~hbStop' /\ pc[x] = "hbspawn" /\ pc[t] = "dead"
      BY <2>4, <3>1, Actors DEF HbSpawn, Alive
    <3>3. /\ pc'[t] = "sleep" /\ pc'[x] = "hbstore" /\ who'[t] = who[x] /\ who'[x] = who[x]
          /\ \A z \in Actor \ {x, t} : pc'[z] = pc[z] /\ who'[z] = who[z]
      BY <1>0, <3>1, <3>2
    <3>4. CASE y = x
      BY <1>1, <2>1, <3>2, <3>3, <3>4 DEF Keeps, Alive
    <3>5. CASE y # x
      <4>1. y # t
        BY <2>1, <3>2 DEF Keeps, Alive
      <4> QED BY <1>1, <2>1, <3>2, <3>3, <3>5, <4>1 DEF Keeps, Alive
    <3> QED BY <3>4, <3>5
  <2>5. CASE HbStore(x)
    <3>1. /\ pc'[x] = Rest(x) /\ pc[x] = "hbstore" /\ hbStop' = hbStop
          /\ \A z \in Actor \ {x} : pc'[z] = pc[z]
          /\ \A z \in Actor : pc'[z] \notin {"idle", "dead"} => who'[z] = who[z]
      BY <1>0, <2>5 DEF HbStore, Ended
    <3>2. CASE y = x
      BY <1>r, <1>1, <2>1, <3>1, <3>2 DEF Keeps, Alive
    <3>3. CASE y # x
      BY <1>1, <2>1, <2>2, <3>1, <3>3 DEF Keeps, Alive
    <3> QED BY <3>2, <3>3
  <2> QED BY <2>3, <2>4, <2>5 DEF Starter
<1>3. ASSUME NEW t \in Hb PROVE pc'[t] # "idle"
  <2>1. CASE HbCheck(x) \/ HbStore(x)
    BY <1>0, <1>r, <2>1, Actors DEF HbCheck, HbStore
  <2>2. CASE HbSpawn(x)
    <3>1. PICK u \in Hb : pc' = [pc EXCEPT ![x] = "hbstore", ![u] = "sleep"]
      BY <2>2, SpawnTakesSlot
    <3> QED BY <1>0, <3>1, Actors
  <2> QED BY <2>1, <2>2 DEF Starter
<1> QED BY <1>0, <1>1, <1>2, <1>3 DEF Watched, Open

\* A heartbeat that was told to stop, and 25 seconds.
LEMMA TimeKeepsWatch ==
    ASSUME Watched, CoordShape', Clock \/ \E t \in Hb : HbExit(t)
    PROVE  Watched'
<1>0. /\ \A t \in Hb : pc[t] # "idle"
      /\ Counts => Open /\ \E y \in Actor : Keeps(y)
      /\ pc \in [Actor -> PcAt]
      /\ UNCHANGED <<ui, session, registered, strayed, hbStop>>
  BY DEF Watched, CoordShape, TypesOfThreads, Clock, HbExit, flags, threads, world
<1>1. ASSUME NEW y \in Actor
      PROVE  /\ \/ pc'[y] = pc[y]
                \/ pc[y] = "sleep" /\ pc'[y] = "beat"
                \/ y \in Hb /\ pc[y] = "sleep" /\ pc'[y] = "dead" /\ hbStop
             /\ who'[y] = who[y] \/ pc'[y] \in {"idle", "dead"}
  <2>1. CASE Clock
    BY <2>1 DEF Clock
  <2>2. ASSUME NEW t \in Hb, HbExit(t)
        PROVE  /\ pc'[y] = pc[y] \/ (y \in Hb /\ pc[y] = "sleep" /\ pc'[y] = "dead" /\ hbStop)
               /\ who'[y] = who[y] \/ pc'[y] \in {"idle", "dead"}
    BY <1>0, <2>2, Actors DEF HbExit, Ended
  <2> QED BY <2>1, <2>2
<1>2. \A t \in Hb : pc'[t] # "idle"
  BY <1>0, <1>1, Actors
<1>3. ASSUME NEW y \in Actor, Keeps(y) PROVE Keeps(y)'
  <2>1. pc'[y] \notin {"idle", "dead"} /\ (pc'[y] = pc[y] \/ pc[y] = "sleep")
    BY <1>0, <1>1, <1>3 DEF Keeps, Alive
  <2> QED BY <1>0, <1>1, <1>3, <2>1 DEF Keeps, Alive
<1> QED BY <1>0, <1>2, <1>3 DEF Watched, Counts, Open

LEMMA WatchStarts == CoordInit => Watched
<1> SUFFICES ASSUME CoordInit PROVE Watched
  OBVIOUS
<1>1. \A t \in Hb : pc[t] = "dead"
  BY Actors DEF CoordInit
<1> QED BY <1>1, CoordShapeStarts DEF Watched, CoordInit, Counts

LEMMA WatchStays == Watched /\ [CoordNext]_coordVars => Watched'
<1> SUFFICES ASSUME Watched, [CoordNext]_coordVars PROVE Watched'
  OBVIOUS
<1>1. CoordShape'
  BY CoordShapeStays DEF Watched
<1>2. CASE UNCHANGED coordVars
  BY <1>1, <1>2 DEF coordVars, flags, throttles, threads, servers, world, Watched, Counts, Open,
                    Keeps, Alive
<1>3. CASE CoordNext
  <2>w. ASSUME NEW x \in Actor, Works(x) PROVE Watched'
    BY <1>1, <2>w, WorkKeepsWatch
  <2>1. CASE Logout \/ StopSteps \/ \E i \in Ident : Login(i)
    BY <1>1, <2>1, UserKeepsWatch
  <2>2. CASE Clock \/ \E t \in Hb : HbExit(t)
    BY <1>1, <2>2, TimeKeepsWatch
  <2>3. CASE \E x \in Actor : Starter(x)
    BY <1>1, <2>3, StarterKeepsWatch
  <2>4. CASE \/ RegisterTick \/ (\E a \in Addr : Listen(a))
             \/ CallChallenge \/ CallRequest \/ Pause
             \/ \E s \in Server : ServerDown(s) \/ ServerUp(s) \/ Purge(s)
    BY <2>4, <2>w, WorkersWork, Actors
  <2>5. CASE RegWorker
    BY <2>5, <2>w, WorkersWork, Actors
  <2>6. CASE PollLook
    BY <2>6, <2>w, WorkersWork, Actors
  <2>7. ASSUME NEW t \in Hb, HbBeat(t) \/ HbLook(t) PROVE Watched'
    BY <2>7, <2>w, WorkersWork, Actors
  <2> QED BY <1>3, <2>1, <2>2, <2>3, <2>4, <2>5, <2>6, <2>7 DEF CoordNext, Heartbeat
<1> QED BY <1>2, <1>3

\* A device that counts as registered has a heartbeat for the identity that is
\* logged in, or a thread about to start one, however log outs and log ins,
\* registers, polls, beats and failures interleave, until a thread raises the flag
\* for an identity that is logged out or takes the wrong heartbeat for its own.
THEOREM RowsAreKeptYoung == CoordSpec => []RegisteredHasHeartbeat
<1>1. CoordSpec => []Watched
  BY WatchStarts, WatchStays, PTL DEF CoordSpec
<1> QED BY <1>1, WatchedKeeps, PTL

(***************************************************************************)
(* Bridges.                                                                *)
(*                                                                         *)
(* Placed: a place of the active map is a joined socket of that side, and   *)
(* nothing is held for a side that has its place. With Placed the frames    *)
(* that are still to be read (in), held, flushed, queued and received are   *)
(* one line per sender: what was read is below what is still to be read     *)
(* (Waits, WasRead), and inside a socket only the frames it took with it    *)
(* when it joined may come after younger ones (Lined). OneClient makes the  *)
(* sender of a side unique, as a dial begins when the one before it was     *)
(* given up.                                                                *)
(***************************************************************************)

SockRecord ==
    [b : Bridge \cup {0}, side : Side,
     at : {"none", "upgraded", "known", "rejected", "flush", "open", "leaving", "done"},
     client : {"none", "dialing", "up", "quit", "gone"},
     in : Seq(Nat), flush : Seq(Nat), early : SUBSET Nat, queue : Seq(Nat), got : Seq(Nat), sent : Nat]

UsedHasBridge(k) ==
    /\ sock[k].at # "none" => sock[k].b \in Bridge
    /\ (sock[k].at = "none") <=> (sock[k].client = "none")

BridgeShape ==
    /\ sock \in [Sock -> SockRecord]
    /\ tx \in [Bridge -> [Side -> Sock \cup {NoSock}]]
    /\ held \in [Bridge -> [Side -> Seq(Nat)]]
    /\ asked \subseteq Bridge /\ heard \subseteq Bridge /\ waiting \subseteq Bridge /\ active \subseteq Bridge
    /\ \A k \in Sock : UsedHasBridge(k)

LEMMA Others == \A s \in Side : Other(s) \in Side /\ Other(s) # s /\ Other(Other(s)) = s /\ \A u \in Side : u = s \/ u = Other(s)
  BY DEF Side, Other

\* What changes one socket.
LEMMA OneSock ==
    ASSUME BridgeShape, NEW k \in Sock, NEW r \in SockRecord, sock' = [sock EXCEPT ![k] = r]
    PROVE  sock' \in [Sock -> SockRecord] /\ sock'[k] = r /\ \A j \in Sock \ {k} : sock'[j] = sock[j]
  BY DEF BridgeShape

\* The steps of a client and of a task that leave all frames where they are.
Lives(k) == Connected(k) \/ GiveUp(k) \/ Finish(k) \/ Hangup(k) \/ Idle(k)

LEMMA LifeStep ==
    ASSUME BridgeShape, NEW k \in Sock, Lives(k)
    PROVE  /\ sock' \in [Sock -> SockRecord]
           /\ \A j \in Sock \ {k} : sock'[j] = sock[j]
           /\ sock'[k].b = sock[k].b /\ sock'[k].side = sock[k].side
           /\ sock'[k].in = sock[k].in /\ sock'[k].flush = sock[k].flush /\ sock'[k].early = sock[k].early
           /\ sock'[k].queue = sock[k].queue /\ sock'[k].got = sock[k].got /\ sock'[k].sent = sock[k].sent
           /\ \/ sock'[k].at = sock[k].at /\ sock[k].client = "dialing" /\ sock'[k].client \in {"up", "quit"}
              \/ sock'[k].at = sock[k].at /\ sock[k].client = "up" /\ sock'[k].client = "gone"
              \/ /\ sock[k].at = "open" /\ sock'[k].at = "leaving" /\ sock'[k].client = sock[k].client
                 /\ sock[k].client \in {"up", "quit", "gone"}
           /\ UNCHANGED <<asked, heard, registry>>
<1>0. sock \in [Sock -> SockRecord] /\ sock[k] \in SockRecord
  BY DEF BridgeShape
<1>1. CASE Connected(k)
  <2>1. [sock[k] EXCEPT !.client = "up"] \in SockRecord
    BY <1>0 DEF SockRecord
  <2> QED BY <1>0, <1>1, <2>1 DEF Connected, SockRecord
<1>2. CASE GiveUp(k)
  BY <1>0, <1>2 DEF GiveUp, SockRecord
<1>3. CASE Finish(k)
  BY <1>0, <1>3 DEF Finish, SockRecord
<1>4. CASE Hangup(k)
  BY <1>0, <1>4 DEF Hangup, SockRecord
<1>5. CASE Idle(k)
  BY <1>0, <1>5 DEF Idle, SockRecord
<1> QED BY <1>1, <1>2, <1>3, <1>4, <1>5 DEF Lives

LEMMA DialStep ==
    ASSUME BridgeShape, NEW k \in Sock, NEW b \in Bridge, NEW s \in Side, Dial(k, b, s)
    PROVE  /\ sock' \in [Sock -> SockRecord]
           /\ \A j \in Sock \ {k} : sock'[j] = sock[j]
           /\ sock[k].at = "none" /\ \A j \in Sock : sock[j].b = b /\ sock[j].side = s => sock[j].client = "quit"
           /\ sock'[k].b = b /\ sock'[k].side = s /\ sock'[k].at = "upgraded" /\ sock'[k].client = "dialing"
           /\ sock'[k].in = <<>> /\ sock'[k].flush = <<>> /\ sock'[k].early = {}
           /\ sock'[k].queue = <<>> /\ sock'[k].got = <<>> /\ sock'[k].sent = 0
           /\ UNCHANGED <<asked, heard, registry>>
<1> DEFINE r == [NewSock EXCEPT !.b = b, !.side = s, !.at = "upgraded", !.client = "dialing"]
<1>1. <<>> \in Seq(Nat)
  OBVIOUS
<1>2. /\ r \in SockRecord /\ r.b = b /\ r.side = s /\ r.at = "upgraded" /\ r.client = "dialing"
      /\ r.in = <<>> /\ r.flush = <<>> /\ r.early = {} /\ r.queue = <<>> /\ r.got = <<>> /\ r.sent = 0
  BY <1>1 DEF SockRecord, NewSock
<1>3. sock' = [sock EXCEPT ![k] = r]
  BY DEF Dial
<1> HIDE DEF r
<1>4. sock' \in [Sock -> SockRecord] /\ sock'[k] = r /\ \A j \in Sock \ {k} : sock'[j] = sock[j]
  BY <1>2, <1>3, OneSock
<1>5. /\ sock[k].at = "none" /\ UNCHANGED <<asked, heard, registry>>
      /\ \A j \in Sock : sock[j].b = b /\ sock[j].side = s => sock[j].client = "quit"
  BY DEF Dial, Using
<1> QED BY <1>2, <1>4, <1>5

LEMMA SendStep ==
    ASSUME BridgeShape, NEW k \in Sock, SendFrame(k)
    PROVE  /\ sock' \in [Sock -> SockRecord]
           /\ \A j \in Sock \ {k} : sock'[j] = sock[j]
           /\ sock'[k].b = sock[k].b /\ sock'[k].side = sock[k].side /\ sock'[k].at = sock[k].at
           /\ sock[k].client = "up" /\ sock'[k].client = "up"
           /\ sock'[k].in = Append(sock[k].in, sock[k].sent + 1) /\ sock'[k].sent = sock[k].sent + 1
           /\ sock'[k].flush = sock[k].flush /\ sock'[k].early = sock[k].early
           /\ sock'[k].queue = sock[k].queue /\ sock'[k].got = sock[k].got
           /\ UNCHANGED <<asked, heard, registry>>
<1> DEFINE longer == Append(sock[k].in, sock[k].sent + 1)
<1> DEFINE more == sock[k].sent + 1
<1> DEFINE r == [sock[k] EXCEPT !.sent = more, !.in = longer]
<1>0. sock \in [Sock -> SockRecord] /\ sock[k] \in SockRecord /\ sock[k].in \in Seq(Nat) /\ sock[k].sent \in Nat
  BY DEF BridgeShape, SockRecord
<1>1. longer \in Seq(Nat) /\ more \in Nat
  BY <1>0
<1>3. sock' = [sock EXCEPT ![k] = r]
  BY <1>0 DEF SendFrame
<1>5. sock[k].client = "up" /\ UNCHANGED <<asked, heard, registry>>
  BY DEF SendFrame
<1> HIDE DEF longer, more
<1>2. /\ r \in SockRecord /\ r.b = sock[k].b /\ r.side = sock[k].side /\ r.at = sock[k].at /\ r.client = sock[k].client
      /\ r.in = longer /\ r.sent = more /\ r.flush = sock[k].flush
      /\ r.early = sock[k].early /\ r.queue = sock[k].queue /\ r.got = sock[k].got
  BY <1>0, <1>1 DEF SockRecord
<1> HIDE DEF r
<1>4. sock' \in [Sock -> SockRecord] /\ sock'[k] = r /\ \A j \in Sock \ {k} : sock'[j] = sock[j]
  BY <1>2, <1>3, OneSock
<1> QED BY <1>2, <1>4, <1>5 DEF longer, more

LEMMA LookupStep ==
    ASSUME BridgeShape, NEW k \in Sock, Lookup(k)
    PROVE  /\ sock' \in [Sock -> SockRecord]
           /\ \A j \in Sock \ {k} : sock'[j] = sock[j]
           /\ sock[k].at = "upgraded"
           /\ sock'[k].b = sock[k].b /\ sock'[k].side = sock[k].side
           /\ sock'[k].flush = sock[k].flush /\ sock'[k].early = sock[k].early
           /\ sock'[k].queue = sock[k].queue /\ sock'[k].got = sock[k].got /\ sock'[k].sent = sock[k].sent
           /\ \/ sock'[k].at = "known" /\ sock'[k].in = sock[k].in /\ sock'[k].client = sock[k].client
              \/ /\ sock'[k].at = "rejected" /\ sock'[k].in = <<>>
                 /\ sock'[k].client = AtClose(sock[k].client)
           /\ UNCHANGED <<asked, heard, registry>>
<1>0. sock \in [Sock -> SockRecord] /\ sock[k] \in SockRecord /\ <<>> \in Seq(Nat)
  BY DEF BridgeShape
<1>1. sock[k].at = "upgraded" /\ UNCHANGED <<asked, heard, registry>>
  BY DEF Lookup
<1>2. CASE sock[k].b \in waiting
  <2> DEFINE r == [sock[k] EXCEPT !.at = "known"]
  <2>1. /\ r \in SockRecord /\ r.b = sock[k].b /\ r.side = sock[k].side /\ r.at = "known" /\ r.client = sock[k].client
        /\ r.in = sock[k].in /\ r.sent = sock[k].sent /\ r.flush = sock[k].flush
        /\ r.early = sock[k].early /\ r.queue = sock[k].queue /\ r.got = sock[k].got
    BY <1>0 DEF SockRecord
  <2>2. sock' = [sock EXCEPT ![k] = r]
    BY <1>2, <1>0 DEF Lookup
  <2> HIDE DEF r
  <2>3. sock' \in [Sock -> SockRecord] /\ sock'[k] = r /\ \A j \in Sock \ {k} : sock'[j] = sock[j]
    BY <2>1, <2>2, OneSock
  <2> QED BY <1>1, <2>1, <2>3
<1>3. CASE sock[k].b \notin waiting
  <2> DEFINE r == [sock[k] EXCEPT !.at = "rejected", !.in = <<>>, !.client = AtClose(@)]
  <2>1. /\ r \in SockRecord /\ r.b = sock[k].b /\ r.side = sock[k].side /\ r.at = "rejected"
        /\ r.client = AtClose(sock[k].client)
        /\ r.in = <<>> /\ r.sent = sock[k].sent /\ r.flush = sock[k].flush
        /\ r.early = sock[k].early /\ r.queue = sock[k].queue /\ r.got = sock[k].got
    BY <1>0 DEF SockRecord, AtClose
  <2>2. sock' = [sock EXCEPT ![k] = r]
    BY <1>3, <1>0 DEF Lookup
  <2> HIDE DEF r
  <2>3. sock' \in [Sock -> SockRecord] /\ sock'[k] = r /\ \A j \in Sock \ {k} : sock'[j] = sock[j]
    BY <2>1, <2>2, OneSock
  <2> QED BY <1>1, <2>1, <2>3
<1> QED BY <1>2, <1>3

LEMMA JoinStep ==
    ASSUME BridgeShape, NEW k \in Sock, Join(k)
    PROVE  /\ sock' \in [Sock -> SockRecord]
           /\ \A j \in Sock \ {k} : sock'[j] = sock[j]
           /\ sock[k].at = "known" /\ sock'[k].at = "flush"
           /\ sock'[k].b = sock[k].b /\ sock'[k].side = sock[k].side /\ sock'[k].client = sock[k].client
           /\ sock'[k].in = sock[k].in /\ sock'[k].sent = sock[k].sent
           /\ sock'[k].queue = sock[k].queue /\ sock'[k].got = sock[k].got
           /\ sock'[k].flush = held[sock[k].b][sock[k].side]
           /\ sock'[k].early = Range(held[sock[k].b][sock[k].side])
           /\ active' = active \cup {sock[k].b}
           /\ tx' = [tx EXCEPT ![sock[k].b][sock[k].side] = k]
           /\ held' = [held EXCEPT ![sock[k].b][sock[k].side] = <<>>]
           /\ waiting' \subseteq waiting /\ UNCHANGED <<asked, heard>>
<1> DEFINE frames == held[sock[k].b][sock[k].side]
<1> DEFINE numbers == Range(held[sock[k].b][sock[k].side])
<1> DEFINE r == [sock[k] EXCEPT !.at = "flush", !.flush = frames, !.early = numbers]
<1>0. sock \in [Sock -> SockRecord] /\ sock[k] \in SockRecord
  BY DEF BridgeShape
<1>1. sock[k].at = "known" /\ sock[k].b \in Bridge /\ sock[k].side \in Side
  BY <1>0 DEF Join, BridgeShape, UsedHasBridge, SockRecord
<1>2. frames \in Seq(Nat)
  BY <1>1 DEF BridgeShape
<1>3. numbers \in SUBSET Nat
  BY <1>2, RangeOfSeq
<1>4. sock' = [sock EXCEPT ![k] = r]
  BY <1>0 DEF Join
<1>5. /\ active' = active \cup {sock[k].b}
      /\ tx' = [tx EXCEPT ![sock[k].b][sock[k].side] = k]
      /\ held' = [held EXCEPT ![sock[k].b][sock[k].side] = <<>>]
      /\ waiting' \subseteq waiting /\ UNCHANGED <<asked, heard>>
  BY DEF Join
<1> HIDE DEF frames, numbers
<1>6. /\ r \in SockRecord /\ r.b = sock[k].b /\ r.side = sock[k].side /\ r.at = "flush" /\ r.client = sock[k].client
      /\ r.in = sock[k].in /\ r.sent = sock[k].sent /\ r.flush = frames
      /\ r.early = numbers /\ r.queue = sock[k].queue /\ r.got = sock[k].got
  BY <1>0, <1>2, <1>3 DEF SockRecord
<1> HIDE DEF r
<1>7. sock' \in [Sock -> SockRecord] /\ sock'[k] = r /\ \A j \in Sock \ {k} : sock'[j] = sock[j]
  BY <1>4, <1>6, OneSock
<1> QED BY <1>1, <1>5, <1>6, <1>7 DEF frames, numbers

LEMMA FlushStep ==
    ASSUME BridgeShape, NEW k \in Sock, Flush(k)
    PROVE  /\ sock' \in [Sock -> SockRecord]
           /\ \A j \in Sock \ {k} : sock'[j] = sock[j]
           /\ sock[k].at = "flush"
           /\ sock'[k].b = sock[k].b /\ sock'[k].side = sock[k].side /\ sock'[k].client = sock[k].client
           /\ sock'[k].in = sock[k].in /\ sock'[k].sent = sock[k].sent
           /\ sock'[k].early = sock[k].early /\ sock'[k].got = sock[k].got
           /\ \/ sock'[k].at = "open" /\ sock'[k].flush = sock[k].flush /\ sock'[k].queue = sock[k].queue
              \/ /\ sock'[k].at = "flush" /\ sock[k].flush # <<>>
                 /\ sock'[k].flush = Tail(sock[k].flush)
                 /\ sock'[k].queue = Append(sock[k].queue, Head(sock[k].flush))
           /\ UNCHANGED <<asked, heard, registry>>
<1>0. sock \in [Sock -> SockRecord] /\ sock[k] \in SockRecord /\ sock[k].flush \in Seq(Nat) /\ sock[k].queue \in Seq(Nat)
  BY DEF BridgeShape, SockRecord
<1>1. sock[k].at = "flush" /\ UNCHANGED <<asked, heard, registry>>
  BY DEF Flush
<1>2. CASE sock[k].flush = <<>> /\ sock' = [sock EXCEPT ![k].at = "open"]
  <2> DEFINE r == [sock[k] EXCEPT !.at = "open"]
  <2>1. /\ r \in SockRecord /\ r.b = sock[k].b /\ r.side = sock[k].side /\ r.at = "open" /\ r.client = sock[k].client
        /\ r.in = sock[k].in /\ r.sent = sock[k].sent /\ r.flush = sock[k].flush
        /\ r.early = sock[k].early /\ r.queue = sock[k].queue /\ r.got = sock[k].got
    BY <1>0 DEF SockRecord
  <2>2. sock' = [sock EXCEPT ![k] = r]
    BY <1>2, <1>0
  <2> HIDE DEF r
  <2>3. sock' \in [Sock -> SockRecord] /\ sock'[k] = r /\ \A j \in Sock \ {k} : sock'[j] = sock[j]
    BY <2>1, <2>2, OneSock
  <2> QED BY <1>1, <2>1, <2>3
<1>3. CASE /\ sock[k].flush # <<>>
           /\ sock' = [sock EXCEPT ![k].flush = Tail(@), ![k].queue = Append(@, Head(sock[k].flush))]
  <2> DEFINE rest == Tail(sock[k].flush)
  <2> DEFINE longer == Append(sock[k].queue, Head(sock[k].flush))
  <2> DEFINE r == [sock[k] EXCEPT !.flush = rest, !.queue = longer]
  <2>0. rest \in Seq(Nat) /\ longer \in Seq(Nat)
    BY <1>0, <1>3, HeadTailProperties, AppendProperties
  <2>2. sock' = [sock EXCEPT ![k] = r]
    BY <1>3, <1>0
  <2> HIDE DEF rest, longer
  <2>1. /\ r \in SockRecord /\ r.b = sock[k].b /\ r.side = sock[k].side /\ r.at = sock[k].at /\ r.client = sock[k].client
        /\ r.in = sock[k].in /\ r.sent = sock[k].sent /\ r.flush = rest
        /\ r.early = sock[k].early /\ r.queue = longer /\ r.got = sock[k].got
    BY <1>0, <2>0 DEF SockRecord
  <2> HIDE DEF r
  <2>3. sock' \in [Sock -> SockRecord] /\ sock'[k] = r /\ \A j \in Sock \ {k} : sock'[j] = sock[j]
    BY <2>1, <2>2, OneSock
  <2> QED BY <1>1, <1>3, <2>1, <2>3 DEF rest, longer
<1> QED BY <1>2, <1>3 DEF Flush

LEMMA RelayStep ==
    ASSUME BridgeShape, NEW k \in Sock, Relay(k)
    PROVE  /\ sock' \in [Sock -> SockRecord]
           /\ \A j \in Sock \ {k} : sock'[j] = sock[j]
           /\ sock[k].at = "open" /\ sock'[k].at = "open"
           /\ sock'[k].b = sock[k].b /\ sock'[k].side = sock[k].side /\ sock'[k].client = sock[k].client
           /\ sock'[k].in = sock[k].in /\ sock'[k].sent = sock[k].sent
           /\ sock'[k].early = sock[k].early /\ sock'[k].flush = sock[k].flush
           /\ sock[k].queue # <<>> /\ sock'[k].queue = Tail(sock[k].queue)
           /\ sock'[k].got = IF sock[k].client = "up" THEN Append(sock[k].got, Head(sock[k].queue)) ELSE sock[k].got
           /\ UNCHANGED <<asked, heard, registry>>
<1>0. sock \in [Sock -> SockRecord] /\ sock[k] \in SockRecord /\ sock[k].got \in Seq(Nat) /\ sock[k].queue \in Seq(Nat)
  BY DEF BridgeShape, SockRecord
<1>1. sock[k].at = "open" /\ sock[k].queue # <<>> /\ UNCHANGED <<asked, heard, registry>>
  BY DEF Relay
<1> DEFINE rest == Tail(sock[k].queue)
<1> DEFINE longer == IF sock[k].client = "up" THEN Append(sock[k].got, Head(sock[k].queue)) ELSE sock[k].got
<1> DEFINE r == [sock[k] EXCEPT !.queue = rest, !.got = longer]
<1>2. rest \in Seq(Nat) /\ longer \in Seq(Nat)
  BY <1>0, <1>1, HeadTailProperties, AppendProperties
<1>3. sock' = [sock EXCEPT ![k] = r]
  BY <1>0 DEF Relay
<1> HIDE DEF rest, longer
<1>4. /\ r \in SockRecord /\ r.b = sock[k].b /\ r.side = sock[k].side /\ r.at = sock[k].at /\ r.client = sock[k].client
      /\ r.in = sock[k].in /\ r.sent = sock[k].sent /\ r.flush = sock[k].flush
      /\ r.early = sock[k].early /\ r.queue = rest /\ r.got = longer
  BY <1>0, <1>2 DEF SockRecord
<1> HIDE DEF r
<1>5. sock' \in [Sock -> SockRecord] /\ sock'[k] = r /\ \A j \in Sock \ {k} : sock'[j] = sock[j]
  BY <1>3, <1>4, OneSock
<1> QED BY <1>1, <1>4, <1>5 DEF rest, longer

LEMMA LeaveStep ==
    ASSUME BridgeShape, NEW k \in Sock, Leave(k)
    PROVE  /\ sock' \in [Sock -> SockRecord]
           /\ \A j \in Sock \ {k} : sock'[j] = sock[j]
           /\ sock[k].at = "leaving" /\ sock'[k].at = "done"
           /\ sock'[k].b = sock[k].b /\ sock'[k].side = sock[k].side
           /\ sock'[k].client = AtClose(sock[k].client)
           /\ sock'[k].in = <<>> /\ sock'[k].sent = sock[k].sent
           /\ sock'[k].early = sock[k].early /\ sock'[k].flush = sock[k].flush
           /\ sock'[k].queue = <<>> /\ sock'[k].got = sock[k].got
           /\ UNCHANGED <<asked, heard>>
<1> DEFINE r == [sock[k] EXCEPT !.at = "done", !.in = <<>>, !.queue = <<>>, !.client = AtClose(sock[k].client)]
<1>0. sock \in [Sock -> SockRecord] /\ sock[k] \in SockRecord /\ <<>> \in Seq(Nat)
  BY DEF BridgeShape
<1>1. sock[k].at = "leaving" /\ UNCHANGED <<asked, heard>>
  BY DEF Leave
<1>2. /\ r \in SockRecord /\ r.b = sock[k].b /\ r.side = sock[k].side /\ r.at = "done"
      /\ r.client = AtClose(sock[k].client)
      /\ r.in = <<>> /\ r.sent = sock[k].sent /\ r.flush = sock[k].flush
      /\ r.early = sock[k].early /\ r.queue = <<>> /\ r.got = sock[k].got
  BY <1>0 DEF SockRecord, AtClose
<1>3. sock' = [sock EXCEPT ![k] = r]
  BY <1>0 DEF Leave
<1> HIDE DEF r
<1>4. sock' \in [Sock -> SockRecord] /\ sock'[k] = r /\ \A j \in Sock \ {k} : sock'[j] = sock[j]
  BY <1>2, <1>3, OneSock
<1> QED BY <1>1, <1>2, <1>4

\* What Leave does to the registry.
LEMMA LeaveEntry ==
    ASSUME BridgeShape, NEW k \in Sock, Leave(k)
    PROVE  LET b == sock[k].b
               s == sock[k].side
               last == b \notin active \/ tx[b][Other(s)] = NoSock
           IN  /\ tx' = IF b \in active THEN [tx EXCEPT ![b][s] = NoSock] ELSE tx
               /\ active' = IF last THEN active \ {b} ELSE active
               /\ held' = IF last THEN [held EXCEPT ![b] = [u \in Side |-> <<>>]] ELSE held
               /\ waiting' \subseteq waiting
<1> DEFINE b == sock[k].b
<1> DEFINE s == sock[k].side
<1> DEFINE places == [tx[b] EXCEPT ![s] = NoSock]
<1>1. b \in Bridge /\ s \in Side /\ tx[b] \in [Side -> Sock \cup {NoSock}] /\ tx \in [Bridge -> [Side -> Sock \cup {NoSock}]]
  BY DEF Leave, BridgeShape, UsedHasBridge, SockRecord
<1>2. (\A u \in Side : places[u] = NoSock) <=> tx[b][Other(s)] = NoSock
  BY <1>1, Others
<1>3. [tx EXCEPT ![b] = places] = [tx EXCEPT ![b][s] = NoSock]
  BY <1>1
<1>4. /\ tx' = IF b \in active THEN [tx EXCEPT ![b] = places] ELSE tx
      /\ active' = IF b \notin active \/ \A u \in Side : places[u] = NoSock THEN active \ {b} ELSE active
      /\ held' = IF b \notin active \/ \A u \in Side : places[u] = NoSock THEN [held EXCEPT ![b] = [u \in Side |-> <<>>]] ELSE held
      /\ waiting' \subseteq waiting
  BY DEF Leave
<1> HIDE DEF places
<1> QED BY <1>2, <1>3, <1>4

\* A side of a bridge has its place from Join to Leave, and nothing waits for
\* a side that has its place; an entry has at least one.
Inside == {"flush", "open", "leaving"}

PlaceTaken(b, s) ==
    /\ b \in active /\ tx[b][s] \in Sock
    /\ sock[tx[b][s]].b = b /\ sock[tx[b][s]].side = s /\ sock[tx[b][s]].at \in Inside
    /\ held[b][s] = <<>>

Placed ==
    /\ \A b \in Bridge, s \in Side : tx[b][s] # NoSock => PlaceTaken(b, s)
    /\ \A b \in active : \E s \in Side : tx[b][s] # NoSock

\* The three ends of a frame that is read.
Passes(k, peer) ==
    /\ peer = tx[sock[k].b][Other(sock[k].side)] /\ peer # NoSock /\ peer \in Sock /\ peer # k
    /\ \A j \in Sock \ {k, peer} : sock'[j] = sock[j]
    /\ sock'[k].in = Tail(sock[k].in)
    /\ sock'[k].at = sock[k].at /\ sock'[k].queue = sock[k].queue
    /\ sock'[peer].b = sock[peer].b /\ sock'[peer].side = sock[peer].side /\ sock'[peer].at = sock[peer].at
    /\ sock'[peer].client = sock[peer].client /\ sock'[peer].sent = sock[peer].sent /\ sock'[peer].in = sock[peer].in
    /\ sock'[peer].flush = sock[peer].flush /\ sock'[peer].early = sock[peer].early /\ sock'[peer].got = sock[peer].got
    /\ sock'[peer].queue = Append(sock[peer].queue, Head(sock[k].in))
    /\ held' = held

HoldsFrame(k) ==
    /\ tx[sock[k].b][Other(sock[k].side)] = NoSock
    /\ \A j \in Sock \ {k} : sock'[j] = sock[j]
    /\ sock'[k].in = Tail(sock[k].in) /\ sock'[k].at = sock[k].at /\ sock'[k].queue = sock[k].queue
    /\ held' = [held EXCEPT ![sock[k].b][Other(sock[k].side)] = Append(@, Head(sock[k].in))]

Stops(k) ==
    /\ \A j \in Sock \ {k} : sock'[j] = sock[j]
    /\ sock'[k].in = Tail(sock[k].in) /\ sock'[k].at = "leaving" /\ sock'[k].queue = sock[k].queue
    /\ held' = held

LEMMA ForwardStep ==
    ASSUME BridgeShape, Placed, NEW k \in Sock, Forward(k)
    PROVE  /\ sock' \in [Sock -> SockRecord]
           /\ sock[k].at = "open" /\ sock[k].in # <<>> /\ sock[k].b \in Bridge
           /\ sock'[k].b = sock[k].b /\ sock'[k].side = sock[k].side
           /\ sock'[k].client = sock[k].client /\ sock'[k].sent = sock[k].sent
           /\ sock'[k].flush = sock[k].flush /\ sock'[k].early = sock[k].early /\ sock'[k].got = sock[k].got
           /\ (\E peer \in Sock : Passes(k, peer)) \/ HoldsFrame(k) \/ Stops(k)
           /\ UNCHANGED <<asked, heard, waiting, active, wasPaired, tx>>
<1>0. /\ sock \in [Sock -> SockRecord] /\ sock[k] \in SockRecord /\ sock[k].in \in Seq(Nat)
      /\ sock[k].at = "open" /\ sock[k].in # <<>> /\ sock[k].b \in Bridge /\ sock[k].side \in Side
      /\ UNCHANGED <<asked, heard, waiting, active, wasPaired, tx>>
  BY DEF BridgeShape, UsedHasBridge, SockRecord, Forward
<1> DEFINE rest == Tail(sock[k].in)
<1> DEFINE f == Head(sock[k].in)
<1> DEFINE peer == tx[sock[k].b][Other(sock[k].side)]
<1> DEFINE read == [sock EXCEPT ![k].in = rest]
<1>1. rest \in Seq(Nat) /\ f \in Nat
  BY <1>0, HeadTailProperties
<1>2. \/ peer # NoSock /\ sock' = [read EXCEPT ![peer].queue = Append(@, f)] /\ UNCHANGED held
      \/ peer = NoSock /\ sock' = read /\ held' = [held EXCEPT ![sock[k].b][Other(sock[k].side)] = Append(@, f)]
      \/ sock' = [read EXCEPT ![k].at = "leaving"] /\ UNCHANGED held
  BY DEF Forward
<1> HIDE DEF rest, f
<1> DEFINE r == [sock[k] EXCEPT !.in = rest]
<1>3. read = [sock EXCEPT ![k] = r]
  BY <1>0
<1>4. /\ r \in SockRecord /\ r.b = sock[k].b /\ r.side = sock[k].side /\ r.at = sock[k].at /\ r.client = sock[k].client
      /\ r.in = rest /\ r.sent = sock[k].sent /\ r.flush = sock[k].flush
      /\ r.early = sock[k].early /\ r.queue = sock[k].queue /\ r.got = sock[k].got
  BY <1>0, <1>1 DEF SockRecord
<1> HIDE DEF r, read
<1>5. read \in [Sock -> SockRecord] /\ read[k] = r /\ \A j \in Sock \ {k} : read[j] = sock[j]
  BY <1>0, <1>3, <1>4
<1>6. CASE peer # NoSock /\ sock' = [read EXCEPT ![peer].queue = Append(@, f)] /\ UNCHANGED held
  <2>1. peer \in Sock /\ sock[peer].side = Other(sock[k].side) /\ peer # k /\ read[peer] = sock[peer]
    <3>1. Other(sock[k].side) \in Side /\ Other(sock[k].side) # sock[k].side
      BY <1>0, Others
    <3>2. PlaceTaken(sock[k].b, Other(sock[k].side))
      BY <1>0, <1>6, <3>1 DEF Placed
    <3>3. peer \in Sock /\ sock[peer].side = Other(sock[k].side)
      BY <3>2 DEF PlaceTaken
    <3>4. peer # k
      BY <3>1, <3>3
    <3> QED BY <1>5, <3>3, <3>4
  <2> HIDE DEF peer
  <2> DEFINE longer == Append(sock[peer].queue, f)
  <2> DEFINE q == [sock[peer] EXCEPT !.queue = longer]
  <2>2. sock[peer] \in SockRecord /\ sock[peer].queue \in Seq(Nat)
    BY <2>1, <1>0 DEF SockRecord
  <2>3. longer \in Seq(Nat)
    BY <2>2, <1>1
  <2>4. sock' = [read EXCEPT ![peer] = q]
    BY <1>5, <1>6, <2>1
  <2> HIDE DEF longer
  <2>5. /\ q \in SockRecord /\ q.b = sock[peer].b /\ q.side = sock[peer].side /\ q.at = sock[peer].at /\ q.client = sock[peer].client
        /\ q.in = sock[peer].in /\ q.sent = sock[peer].sent /\ q.flush = sock[peer].flush
        /\ q.early = sock[peer].early /\ q.queue = longer /\ q.got = sock[peer].got
    BY <2>2, <2>3 DEF SockRecord
  <2> HIDE DEF q
  <2>6. /\ sock' \in [Sock -> SockRecord] /\ sock'[peer] = q /\ sock'[k] = r
        /\ \A j \in Sock \ {k, peer} : sock'[j] = sock[j]
    BY <2>1, <2>4, <2>5, <1>5
  <2>7. Passes(k, peer)
    BY <2>1, <2>5, <2>6, <1>4, <1>6 DEF Passes, peer, rest, f, longer
  <2> QED BY <2>1, <2>6, <2>7, <1>0, <1>4
<1>7. CASE peer = NoSock /\ sock' = read /\ held' = [held EXCEPT ![sock[k].b][Other(sock[k].side)] = Append(@, f)]
  <2>1. HoldsFrame(k)
    BY <1>4, <1>5, <1>7 DEF HoldsFrame, rest, f
  <2> QED BY <2>1, <1>0, <1>4, <1>5, <1>7
<1>8. CASE sock' = [read EXCEPT ![k].at = "leaving"] /\ UNCHANGED held
  <2> DEFINE q == [r EXCEPT !.at = "leaving"]
  <2>1. /\ q \in SockRecord /\ q.b = r.b /\ q.side = r.side /\ q.at = "leaving" /\ q.client = r.client
        /\ q.in = r.in /\ q.sent = r.sent /\ q.flush = r.flush
        /\ q.early = r.early /\ q.queue = r.queue /\ q.got = r.got
    BY <1>4 DEF SockRecord
  <2>2. sock' = [read EXCEPT ![k] = q]
    BY <1>5, <1>8
  <2> HIDE DEF q
  <2>3. sock' \in [Sock -> SockRecord] /\ sock'[k] = q /\ \A j \in Sock \ {k} : sock'[j] = sock[j]
    BY <2>1, <2>2, <1>5
  <2>4. Stops(k)
    BY <2>1, <2>3, <1>4, <1>8 DEF Stops, rest
  <2> QED BY <2>1, <2>3, <2>4, <1>0, <1>4
<1> QED BY <1>2, <1>6, <1>7, <1>8

\* The registry keeps its shape.
LEMMA ShapeStep ==
    BridgeShape /\ Placed /\ [BridgeNext]_bridgeVars => BridgeShape'
<1> SUFFICES ASSUME BridgeShape, Placed, [BridgeNext]_bridgeVars PROVE BridgeShape'
  OBVIOUS
<1>0. /\ tx \in [Bridge -> [Side -> Sock \cup {NoSock}]] /\ held \in [Bridge -> [Side -> Seq(Nat)]]
      /\ sock \in [Sock -> SockRecord] /\ \A k \in Sock : sock[k].side \in Side
      /\ asked \subseteq Bridge /\ heard \subseteq Bridge /\ waiting \subseteq Bridge /\ active \subseteq Bridge
      /\ \A k \in Sock : UsedHasBridge(k)
  BY DEF BridgeShape, SockRecord
<1> DEFINE Alone(k) == \A j \in Sock \ {k} : sock'[j] = sock[j]
<1>a. ASSUME NEW k \in Sock, Alone(k), UsedHasBridge(k)' PROVE \A j \in Sock : UsedHasBridge(j)'
  BY <1>0, <1>a DEF UsedHasBridge
<1>b. ASSUME sock' \in [Sock -> SockRecord], \A k \in Sock : UsedHasBridge(k)', UNCHANGED <<asked, heard, registry>>
      PROVE  BridgeShape'
  BY <1>0, <1>b DEF BridgeShape, registry
<1>1. CASE UNCHANGED bridgeVars
  BY <1>1 DEF bridgeVars, registry, BridgeShape, UsedHasBridge
<1>2. ASSUME Poll \/ \E b \in Bridge : Request(b) \/ ExpirePending(b) PROVE BridgeShape'
  BY <1>2 DEF Request, ExpirePending, Poll, registry, BridgeShape, UsedHasBridge
<1>3. ASSUME NEW k \in Sock, NEW b \in Bridge, NEW s \in Side, Dial(k, b, s) PROVE BridgeShape'
  <2>1. Alone(k) /\ sock' \in [Sock -> SockRecord] /\ UNCHANGED <<asked, heard, registry>>
    BY <1>3, DialStep
  <2>2. UsedHasBridge(k)'
    BY <1>3, DialStep DEF UsedHasBridge
  <2> QED BY <1>a, <1>b, <2>1, <2>2
<1>4. ASSUME NEW k \in Sock, Lives(k) PROVE BridgeShape'
  <2>1. Alone(k) /\ sock' \in [Sock -> SockRecord] /\ UNCHANGED <<asked, heard, registry>>
    BY <1>4, LifeStep
  <2>2. UsedHasBridge(k)'
    BY <1>0, <1>4, LifeStep DEF UsedHasBridge
  <2> QED BY <1>a, <1>b, <2>1, <2>2
<1>5. ASSUME NEW k \in Sock, SendFrame(k) PROVE BridgeShape'
  <2>1. Alone(k) /\ sock' \in [Sock -> SockRecord] /\ UNCHANGED <<asked, heard, registry>>
    BY <1>5, SendStep
  <2>2. UsedHasBridge(k)'
    BY <1>0, <1>5, SendStep DEF UsedHasBridge
  <2> QED BY <1>a, <1>b, <2>1, <2>2
<1>6. ASSUME NEW k \in Sock, Lookup(k) PROVE BridgeShape'
  <2>1. Alone(k) /\ sock' \in [Sock -> SockRecord] /\ UNCHANGED <<asked, heard, registry>>
    BY <1>6, LookupStep
  <2>2. UsedHasBridge(k)'
    BY <1>0, <1>6, LookupStep DEF UsedHasBridge, AtClose
  <2> QED BY <1>a, <1>b, <2>1, <2>2
<1>7. ASSUME NEW k \in Sock, Join(k) PROVE BridgeShape'
  <2>0. sock[k].at = "known"
    BY <1>7 DEF Join
  <2>e. <<>> \in Seq(Nat)
    OBVIOUS
  <2>1. sock[k].b \in Bridge /\ sock[k].side \in Side /\ <<>> \in Seq(Nat)
    BY <1>0, <2>0, <2>e DEF UsedHasBridge
  <2>2. tx' \in [Bridge -> [Side -> Sock \cup {NoSock}]] /\ held' \in [Bridge -> [Side -> Seq(Nat)]]
    <3>1. tx' = [tx EXCEPT ![sock[k].b][sock[k].side] = k] /\ held' = [held EXCEPT ![sock[k].b][sock[k].side] = <<>>]
      BY <1>7, JoinStep
    <3> HIDE DEF SockRecord
    <3>2. tx' \in [Bridge -> [Side -> Sock \cup {NoSock}]]
      BY <3>1, <2>1, <1>0
    <3>3. held' \in [Bridge -> [Side -> Seq(Nat)]]
      BY <3>1, <2>1, <1>0
    <3> QED BY <3>2, <3>3
  <2>3. active' \subseteq Bridge /\ waiting' \subseteq Bridge /\ asked' \subseteq Bridge /\ heard' \subseteq Bridge
    <3>1. active' = active \cup {sock[k].b} /\ waiting' \subseteq waiting /\ asked' = asked /\ heard' = heard
      BY <1>7, JoinStep
    <3> QED BY <1>0, <2>1, <3>1
  <2>4. sock' \in [Sock -> SockRecord] /\ Alone(k)
    BY <1>7, JoinStep
  <2>5. UsedHasBridge(k)'
    <3>1. sock'[k].at = "flush" /\ sock'[k].b = sock[k].b /\ sock'[k].client = sock[k].client
      BY <1>7, JoinStep
    <3> QED BY <3>1, <1>0, <2>0, <2>1 DEF UsedHasBridge
  <2> QED BY <1>a, <2>2, <2>3, <2>4, <2>5 DEF BridgeShape
<1>8. ASSUME NEW k \in Sock, Flush(k) PROVE BridgeShape'
  <2>1. Alone(k) /\ sock' \in [Sock -> SockRecord] /\ UNCHANGED <<asked, heard, registry>>
    BY <1>8, FlushStep
  <2>2. UsedHasBridge(k)'
    BY <1>0, <1>8, FlushStep DEF UsedHasBridge
  <2> QED BY <1>a, <1>b, <2>1, <2>2
<1>9. ASSUME NEW k \in Sock, Relay(k) PROVE BridgeShape'
  <2>1. Alone(k) /\ sock' \in [Sock -> SockRecord] /\ UNCHANGED <<asked, heard, registry>>
    BY <1>9, RelayStep
  <2>2. UsedHasBridge(k)'
    BY <1>0, <1>9, RelayStep DEF UsedHasBridge
  <2> QED BY <1>a, <1>b, <2>1, <2>2
<1>10. ASSUME NEW k \in Sock, Forward(k) PROVE BridgeShape'
  <2>1. UNCHANGED <<asked, heard, waiting, active, tx>> /\ sock' \in [Sock -> SockRecord]
    BY <1>10, ForwardStep
  <2>2. /\ sock[k].at = "open" /\ sock[k].in # <<>> /\ sock[k].b \in Bridge /\ sock'[k].b = sock[k].b
        /\ sock'[k].client = sock[k].client
        /\ (\E peer \in Sock : Passes(k, peer)) \/ HoldsFrame(k) \/ Stops(k)
    BY <1>10, ForwardStep
  <2>3. held' \in [Bridge -> [Side -> Seq(Nat)]]
    <3>1. CASE held' = held
      BY <3>1, <1>0
    <3>2. CASE HoldsFrame(k)
      <4>1. sock[k].in \in Seq(Nat) /\ sock[k].in # <<>> /\ sock[k].b \in Bridge /\ Other(sock[k].side) \in Side
        BY <1>0, <2>2, Others DEF SockRecord
      <4>2. Head(sock[k].in) \in Nat /\ held[sock[k].b][Other(sock[k].side)] \in Seq(Nat)
        BY <4>1, <1>0, HeadTailProperties
      <4> DEFINE longer == Append(held[sock[k].b][Other(sock[k].side)], Head(sock[k].in))
      <4>3. longer \in Seq(Nat)
        BY <4>2, AppendProperties
      <4>4. held' = [held EXCEPT ![sock[k].b][Other(sock[k].side)] = longer]
        BY <3>2, <4>1, <1>0 DEF HoldsFrame
      <4> HIDE DEF longer
      <4> QED BY <4>1, <4>3, <4>4, <1>0
    <3> QED BY <3>1, <3>2, <2>2 DEF Passes, Stops
  <2>4. \A j \in Sock : UsedHasBridge(j)'
    <3>1. CASE HoldsFrame(k) \/ Stops(k)
      <4>1. Alone(k) /\ UsedHasBridge(k)'
        BY <1>0, <2>2, <3>1 DEF HoldsFrame, Stops, UsedHasBridge
      <4> QED BY <1>a, <4>1
    <3>2. ASSUME NEW peer \in Sock, Passes(k, peer) PROVE \A j \in Sock : UsedHasBridge(j)'
      <4>1. UsedHasBridge(k)' /\ UsedHasBridge(peer)' /\ \A j \in Sock \ {k, peer} : sock'[j] = sock[j]
        BY <1>0, <2>2, <3>2 DEF Passes, UsedHasBridge
      <4> QED BY <1>0, <4>1 DEF UsedHasBridge
    <3> QED BY <3>1, <3>2, <2>2
  <2> QED BY <2>1, <2>3, <2>4, <1>0 DEF BridgeShape
<1>11. ASSUME NEW k \in Sock, Leave(k) PROVE BridgeShape'
  <2>1. sock[k].b \in Bridge /\ sock[k].side \in Side /\ <<>> \in Seq(Nat)
    BY <1>0, <1>11, LeaveStep DEF UsedHasBridge
  <2>2. tx' = tx \/ tx' = [tx EXCEPT ![sock[k].b][sock[k].side] = NoSock]
    BY <1>11, LeaveEntry
  <2>3. held' = held \/ held' = [held EXCEPT ![sock[k].b] = [u \in Side |-> <<>>]]
    BY <1>11, LeaveEntry
  <2>4. active' \subseteq active /\ waiting' \subseteq waiting
    BY <1>11, LeaveEntry
  <2>5. tx' \in [Bridge -> [Side -> Sock \cup {NoSock}]]
    <3>1. [tx EXCEPT ![sock[k].b][sock[k].side] = NoSock] \in [Bridge -> [Side -> Sock \cup {NoSock}]]
      BY <2>1, <1>0
    <3> QED BY <2>2, <3>1, <1>0
  <2>6. held' \in [Bridge -> [Side -> Seq(Nat)]]
    <3>1. [u \in Side |-> <<>>] \in [Side -> Seq(Nat)]
      BY <2>1
    <3>2. [held EXCEPT ![sock[k].b] = [u \in Side |-> <<>>]] \in [Bridge -> [Side -> Seq(Nat)]]
      BY <2>1, <3>1, <1>0
    <3> QED BY <2>3, <3>2, <1>0
  <2>7. sock' \in [Sock -> SockRecord] /\ UNCHANGED <<asked, heard>> /\ Alone(k)
    BY <1>11, LeaveStep
  <2>8. UsedHasBridge(k)'
    BY <1>0, <1>11, LeaveStep DEF AtClose, UsedHasBridge
  <2> QED BY <1>a, <2>4, <2>5, <2>6, <2>7, <2>8, <1>0 DEF BridgeShape
<1> QED BY <1>1, <1>2, <1>3, <1>4, <1>5, <1>6, <1>7, <1>8, <1>9, <1>10, <1>11 DEF BridgeNext, Task, Lives

\* What leaves the registry alone and no joined socket without its place.
LEMMA PlaceKept ==
    ASSUME Placed, UNCHANGED <<tx, active>>, NEW k \in Sock,
           \A b \in Bridge, s \in Side : tx[b][s] # NoSock => held'[b][s] = <<>>,
           \A j \in Sock \ {k} : /\ sock'[j].b = sock[j].b /\ sock'[j].side = sock[j].side
                                 /\ sock'[j].at = sock[j].at,
           sock[k].at \in Inside =>
               sock'[k].b = sock[k].b /\ sock'[k].side = sock[k].side /\ sock'[k].at \in Inside
    PROVE  Placed'
  BY DEF Placed, PlaceTaken

LEMMA PlacedStep ==
    BridgeShape /\ Placed /\ [BridgeNext]_bridgeVars => Placed'
<1> SUFFICES ASSUME BridgeShape, Placed, [BridgeNext]_bridgeVars PROVE Placed'
  OBVIOUS
<1>0. /\ tx \in [Bridge -> [Side -> Sock \cup {NoSock}]] /\ held \in [Bridge -> [Side -> Seq(Nat)]]
      /\ active \subseteq Bridge /\ NoSock \notin Sock
      /\ \A k \in Sock : UsedHasBridge(k) /\ sock[k].side \in Side
  <2>1. \A k \in Sock : sock[k].side \in Side
    BY DEF BridgeShape, SockRecord
  <2> QED BY <2>1, BridgeAssumption DEF BridgeShape, BridgeAssumption
<1>h. \A b \in Bridge, s \in Side : tx[b][s] # NoSock => held[b][s] = <<>>
  BY DEF Placed, PlaceTaken
<1>1. CASE UNCHANGED bridgeVars
  BY <1>1 DEF bridgeVars, registry, Placed, PlaceTaken
<1>2. ASSUME Poll \/ \E b \in Bridge : Request(b) \/ ExpirePending(b) PROVE Placed'
  BY <1>2 DEF Request, ExpirePending, Poll, registry, Placed, PlaceTaken
<1>3. ASSUME NEW k \in Sock, NEW b \in Bridge, NEW s \in Side, Dial(k, b, s) PROVE Placed'
  <2>1. UNCHANGED <<tx, active, held>> /\ sock[k].at \notin Inside /\ \A j \in Sock \ {k} : sock'[j] = sock[j]
    BY <1>3, DialStep DEF registry, Inside
  <2> QED BY <2>1, <1>h, PlaceKept
<1>4. ASSUME NEW k \in Sock, Lives(k) PROVE Placed'
  <2>1. /\ UNCHANGED <<tx, active, held>> /\ \A j \in Sock \ {k} : sock'[j] = sock[j]
        /\ sock'[k].b = sock[k].b /\ sock'[k].side = sock[k].side
        /\ sock'[k].at = sock[k].at \/ sock'[k].at = "leaving"
    BY <1>4, LifeStep DEF registry
  <2> QED BY <2>1, <1>h, PlaceKept DEF Inside
<1>5. ASSUME NEW k \in Sock, SendFrame(k) PROVE Placed'
  <2>1. /\ UNCHANGED <<tx, active, held>> /\ \A j \in Sock \ {k} : sock'[j] = sock[j]
        /\ sock'[k].b = sock[k].b /\ sock'[k].side = sock[k].side /\ sock'[k].at = sock[k].at
    BY <1>5, SendStep DEF registry
  <2> QED BY <2>1, <1>h, PlaceKept
<1>6. ASSUME NEW k \in Sock, Lookup(k) PROVE Placed'
  <2>1. UNCHANGED <<tx, active, held>> /\ sock[k].at \notin Inside /\ \A j \in Sock \ {k} : sock'[j] = sock[j]
    BY <1>6, LookupStep DEF registry, Inside
  <2> QED BY <2>1, <1>h, PlaceKept
<1>7. ASSUME NEW k \in Sock, Join(k) PROVE Placed'
  <2>1. /\ sock[k].at = "known" /\ sock'[k].at = "flush" /\ \A j \in Sock \ {k} : sock'[j] = sock[j]
        /\ sock'[k].b = sock[k].b /\ sock'[k].side = sock[k].side
        /\ active' = active \cup {sock[k].b}
        /\ tx' = [tx EXCEPT ![sock[k].b][sock[k].side] = k]
        /\ held' = [held EXCEPT ![sock[k].b][sock[k].side] = <<>>]
    BY <1>7, JoinStep
  <2>2. sock[k].b \in Bridge /\ sock[k].side \in Side
    BY <1>0, <2>1 DEF UsedHasBridge
  <2>3. /\ tx'[sock[k].b][sock[k].side] = k /\ held'[sock[k].b][sock[k].side] = <<>>
        /\ \A b \in Bridge, s \in Side : b # sock[k].b \/ s # sock[k].side => tx'[b][s] = tx[b][s] /\ held'[b][s] = held[b][s]
    BY <2>1, <2>2, <1>0
  <2>4. ASSUME NEW b \in Bridge, NEW s \in Side, tx'[b][s] # NoSock PROVE PlaceTaken(b, s)'
    <3>1. CASE b = sock[k].b /\ s = sock[k].side
      BY <3>1, <2>1, <2>3 DEF PlaceTaken, Inside
    <3>2. CASE b # sock[k].b \/ s # sock[k].side
      <4>1. tx'[b][s] = tx[b][s] /\ held'[b][s] = held[b][s] /\ PlaceTaken(b, s)
        BY <3>2, <2>3, <2>4 DEF Placed
      <4>2. tx[b][s] # k /\ tx[b][s] \in Sock
        BY <4>1, <2>1 DEF PlaceTaken, Inside
      <4> QED BY <4>1, <4>2, <2>1 DEF PlaceTaken
    <3> QED BY <3>1, <3>2
  <2>5. ASSUME NEW b \in active' PROVE \E s \in Side : tx'[b][s] # NoSock
    <3>1. CASE b = sock[k].b
      BY <3>1, <2>2, <2>3, <1>0
    <3>2. CASE b # sock[k].b
      BY <3>2, <2>1, <2>3, <1>0 DEF Placed
    <3> QED BY <3>1, <3>2
  <2> QED BY <2>4, <2>5 DEF Placed
<1>8. ASSUME NEW k \in Sock, Flush(k) PROVE Placed'
  <2>1. /\ UNCHANGED <<tx, active, held>> /\ \A j \in Sock \ {k} : sock'[j] = sock[j]
        /\ sock'[k].b = sock[k].b /\ sock'[k].side = sock[k].side /\ sock'[k].at \in Inside
    BY <1>8, FlushStep DEF registry, Inside
  <2> QED BY <2>1, <1>h, PlaceKept
<1>9. ASSUME NEW k \in Sock, Relay(k) PROVE Placed'
  <2>1. /\ UNCHANGED <<tx, active, held>> /\ \A j \in Sock \ {k} : sock'[j] = sock[j]
        /\ sock'[k].b = sock[k].b /\ sock'[k].side = sock[k].side /\ sock'[k].at \in Inside
    BY <1>9, RelayStep DEF registry, Inside
  <2> QED BY <2>1, <1>h, PlaceKept
<1>10. ASSUME NEW k \in Sock, Forward(k) PROVE Placed'
  <2>1. /\ UNCHANGED <<tx, active>> /\ sock'[k].b = sock[k].b /\ sock'[k].side = sock[k].side
        /\ sock[k].at = "open" /\ sock[k].b \in Bridge /\ sock[k].side \in Side
        /\ (\E peer \in Sock : Passes(k, peer)) \/ HoldsFrame(k) \/ Stops(k)
    BY <1>10, <1>0, ForwardStep
  <2>2. /\ sock'[k].at \in Inside
        /\ \A j \in Sock \ {k} : /\ sock'[j].b = sock[j].b /\ sock'[j].side = sock[j].side
                                 /\ sock'[j].at = sock[j].at
    BY <2>1 DEF Passes, HoldsFrame, Stops, Inside
  <2>3. \A b \in Bridge, s \in Side : tx[b][s] # NoSock => held'[b][s] = held[b][s]
    <3>1. CASE HoldsFrame(k)
      <4> DEFINE o == Other(sock[k].side)
      <4>1. /\ tx[sock[k].b][o] = NoSock /\ o \in Side
            /\ held' = [held EXCEPT ![sock[k].b][o] = Append(held[sock[k].b][o], Head(sock[k].in))]
        BY <3>1, <2>1, Others DEF HoldsFrame
      <4> QED BY <4>1, <1>0
    <3> QED BY <3>1, <2>1 DEF Passes, Stops
  <2> QED BY <2>1, <2>2, <2>3, <1>h, PlaceKept
<1>11. ASSUME NEW k \in Sock, Leave(k) PROVE Placed'
  <2> DEFINE c == sock[k].b
  <2> DEFINE u == sock[k].side
  <2> DEFINE last == c \notin active \/ tx[c][Other(u)] = NoSock
  <2>1. /\ sock[k].at = "leaving" /\ \A j \in Sock \ {k} : sock'[j] = sock[j]
        /\ tx' = IF c \in active THEN [tx EXCEPT ![c][u] = NoSock] ELSE tx
        /\ active' = IF last THEN active \ {c} ELSE active
        /\ held' = IF last THEN [held EXCEPT ![c] = [w \in Side |-> <<>>]] ELSE held
    BY <1>11, LeaveStep, LeaveEntry
  <2>2. c \in Bridge /\ u \in Side
    BY <1>0, <2>1 DEF UsedHasBridge
  <2>n. c \notin active => \A s \in Side : tx[c][s] = NoSock
    BY <2>2 DEF Placed, PlaceTaken
  <2>3. /\ tx'[c][u] = NoSock
        /\ \A b \in Bridge, s \in Side : b # c \/ s # u => tx'[b][s] = tx[b][s]
    BY <2>1, <2>2, <2>n, <1>0
  <2>4. \A b \in Bridge, s \in Side : held'[b][s] = <<>> \/ held'[b][s] = held[b][s]
    BY <2>1, <2>2, <1>0
  <2>o. last => \A s \in Side : tx'[c][s] = NoSock
    BY <2>n, <2>3, <2>2, Others
  <2>5. ASSUME NEW b \in Bridge, NEW s \in Side, tx'[b][s] # NoSock PROVE PlaceTaken(b, s)'
    <3>1. b # c \/ s # u
      BY <2>3, <2>5
    <3>2. tx'[b][s] = tx[b][s] /\ PlaceTaken(b, s)
      BY <2>3, <2>5, <3>1 DEF Placed
    <3>3. tx[b][s] \in Sock \ {k}
      BY <3>1, <3>2 DEF PlaceTaken
    <3>4. b \in active'
      BY <3>2, <2>1, <2>o, <2>5 DEF PlaceTaken
    <3>5. held'[b][s] = <<>>
      BY <3>2, <2>4 DEF PlaceTaken
    <3> QED BY <3>2, <3>3, <3>4, <3>5, <2>1 DEF PlaceTaken
  <2>6. ASSUME NEW b \in active' PROVE \E s \in Side : tx'[b][s] # NoSock
    <3>1. CASE b = c
      BY <3>1, <2>1, <2>2, <2>3, Others
    <3>2. CASE b # c
      BY <3>2, <2>1, <2>3, <1>0 DEF Placed
    <3> QED BY <3>1, <3>2
  <2> QED BY <2>5, <2>6 DEF Placed
<1> QED BY <1>1, <1>2, <1>3, <1>4, <1>5, <1>6, <1>7, <1>8, <1>9, <1>10, <1>11 DEF BridgeNext, Task, Lives

LEMMA BridgeShapeInit == BridgeInit => BridgeShape
<1> SUFFICES ASSUME BridgeInit PROVE BridgeShape
  OBVIOUS
<1>1. <<>> \in Seq(Nat)
  OBVIOUS
<1>2. NewSock \in SockRecord
  BY <1>1 DEF NewSock, SockRecord, Side
<1>3. held \in [Bridge -> [Side -> Seq(Nat)]]
  BY <1>1 DEF BridgeInit
<1>4. sock \in [Sock -> SockRecord]
  BY <1>2 DEF BridgeInit
<1>5. \A k \in Sock : UsedHasBridge(k)
  BY DEF BridgeInit, NewSock, UsedHasBridge
<1> QED BY <1>3, <1>4, <1>5 DEF BridgeInit, BridgeShape

LEMMA PlacedInit == BridgeInit => Placed
  BY DEF BridgeInit, Placed

LEMMA RegistryHolds == BridgeSpec => [](BridgeShape /\ Placed)
<1>1. BridgeInit => BridgeShape /\ Placed
  BY BridgeShapeInit, PlacedInit
<1>2. BridgeShape /\ Placed /\ [BridgeNext]_bridgeVars => (BridgeShape /\ Placed)'
  BY ShapeStep, PlacedStep
<1> QED BY <1>1, <1>2, PTL DEF BridgeSpec

\* An entry of the active map of the server has a socket that joined it and has
\* not left (EntryHasSocket): no order of dials, joins and leaves leaks one.
THEOREM EntriesDoNotLeak == BridgeSpec => []EntryHasSocket
<1>1. BridgeShape /\ Placed => EntryHasSocket
  BY DEF BridgeShape, Placed, PlaceTaken, Inside, EntryHasSocket
<1> QED BY <1>1, RegistryHolds, PTL

-----------------------------------------------------------------------------
(* Sequences of frames.                                                     *)

LEMMA NoFrames == Range(<<>>) = {}
  BY DEF Range

LEMMA RangeAppended ==
    ASSUME NEW s \in Seq(Nat), NEW x \in Nat
    PROVE  Range(Append(s, x)) = Range(s) \cup {x}
<1>1. /\ Append(s, x) \in Seq(Nat) /\ Len(Append(s, x)) = Len(s) + 1
      /\ \A i \in 1..Len(s) : Append(s, x)[i] = s[i]
      /\ Append(s, x)[Len(s) + 1] = x
  BY AppendProperties
<1>2. Range(Append(s, x)) = {Append(s, x)[i] : i \in 1..Len(Append(s, x))}
  BY <1>1, RangeEquality
<1>3. Range(s) = {s[i] : i \in 1..Len(s)} /\ Len(s) \in Nat
  BY RangeEquality
<1>4. 1..Len(Append(s, x)) = 1..Len(s) \cup {Len(s) + 1}
  BY <1>1, <1>3
<1> QED BY <1>1, <1>2, <1>3, <1>4

LEMMA RangeOfRest ==
    ASSUME NEW s \in Seq(Nat), s # <<>>
    PROVE  Head(s) \in Nat /\ Tail(s) \in Seq(Nat) /\ Range(s) = {Head(s)} \cup Range(Tail(s))
<1>1. /\ Head(s) \in Nat /\ Tail(s) \in Seq(Nat) /\ Len(Tail(s)) = Len(s) - 1
      /\ \A i \in 1..Len(Tail(s)) : Tail(s)[i] = s[i + 1]
  BY HeadTailProperties
<1>2. Head(s) = s[1] /\ Len(s) \in Nat \ {0}
  OBVIOUS
<1>3. /\ Range(Tail(s)) = {Tail(s)[i] : i \in 1..Len(Tail(s))}
      /\ Range(s) = {s[i] : i \in 1..Len(s)}
  BY <1>1, RangeEquality
<1>4. ASSUME NEW i \in 1..Len(s), i # 1 PROVE s[i] \in Range(Tail(s))
  <2>1. i - 1 \in 1..Len(Tail(s)) /\ Tail(s)[i - 1] = s[i]
    BY <1>1, <1>2, <1>4
  <2> QED BY <2>1, <1>3
<1>5. \A i \in 1..Len(Tail(s)) : i + 1 \in 1..Len(s) /\ 1 \in 1..Len(s)
  BY <1>1, <1>2
<1>6. 1 \in 1..Len(s)
  BY <1>2
<1> QED BY <1>1, <1>2, <1>3, <1>4, <1>5, <1>6

\* x may stand before y in a queue whose socket took the frames of e with it.
Before(x, y, e) == x < y \/ (x \notin e /\ y \in e)
Line(s, e) == \A i, j \in 1..Len(s) : i < j => Before(s[i], s[j], e)

LEMMA LineOfNone == \A e : Line(<<>>, e)
  BY DEF Line

LEMMA LineAppended ==
    ASSUME NEW s \in Seq(Nat), NEW x \in Nat, NEW e, Line(s, e), \A y \in Range(s) : Before(y, x, e)
    PROVE  Line(Append(s, x), e)
<1>1. /\ Len(Append(s, x)) = Len(s) + 1 /\ Len(s) \in Nat
      /\ \A i \in 1..Len(s) : Append(s, x)[i] = s[i]
      /\ Append(s, x)[Len(s) + 1] = x
  BY AppendProperties
<1>2. \A i \in 1..Len(s) : Before(s[i], x, e)
  BY RangeEquality
<1>3. ASSUME NEW i \in 1..Len(Append(s, x)), NEW j \in 1..Len(Append(s, x)), i < j
      PROVE  Before(Append(s, x)[i], Append(s, x)[j], e)
  <2>1. i \in 1..Len(s) /\ Append(s, x)[i] = s[i]
    BY <1>1, <1>3
  <2>2. CASE j \in 1..Len(s)
    BY <2>1, <2>2, <1>1, <1>3 DEF Line
  <2>3. CASE j = Len(s) + 1
    BY <2>1, <2>3, <1>1, <1>2
  <2> QED BY <2>2, <2>3, <1>1
<1> QED BY <1>3 DEF Line

LEMMA LineOfRest ==
    ASSUME NEW s \in Seq(Nat), s # <<>>, NEW e, Line(s, e)
    PROVE  Line(Tail(s), e) /\ \A y \in Range(Tail(s)) : Before(Head(s), y, e)
<1>1. /\ Tail(s) \in Seq(Nat) /\ Len(Tail(s)) = Len(s) - 1 /\ Head(s) = s[1] /\ Len(s) \in Nat \ {0}
      /\ \A i \in 1..Len(Tail(s)) : Tail(s)[i] = s[i + 1]
  BY HeadTailProperties
<1>2. \A i \in 1..Len(Tail(s)) : i + 1 \in 1..Len(s) /\ 1 \in 1..Len(s) /\ 1 < i + 1
  BY <1>1
<1>3. Line(Tail(s), e)
  BY <1>1, <1>2 DEF Line
<1>4. \A i \in 1..Len(Tail(s)) : Before(Head(s), Tail(s)[i], e)
  BY <1>1, <1>2 DEF Line
<1>5. Range(Tail(s)) = {Tail(s)[i] : i \in 1..Len(Tail(s))}
  BY <1>1, RangeEquality
<1> QED BY <1>3, <1>4, <1>5


-----------------------------------------------------------------------------
(* Clients.                                                                  *)

Living(k) == sock[k].client \in {"up", "gone"}
Talks(k) == Living(k) /\ sock[k].at \in {"open", "leaving", "done"}

\* Of the sockets of a side, all but one have been given up.
OneClient ==
    \A j, k \in Sock : /\ j # k /\ sock[j].at # "none" /\ sock[k].at # "none"
                       /\ sock[j].b = sock[k].b /\ sock[j].side = sock[k].side
        => sock[j].client = "quit" \/ sock[k].client = "quit"

\* What a socket that has not connected, or not joined, cannot have.
Quiet(k) ==
    /\ ~Living(k) => sock[k].sent = 0 /\ sock[k].in = <<>> /\ sock[k].got = <<>>
    /\ sock[k].at \in {"none", "upgraded", "known", "rejected"} =>
          sock[k].flush = <<>> /\ sock[k].queue = <<>> /\ sock[k].got = <<>> /\ sock[k].early = {}
    /\ sock[k].at = "leaving" => sock[k].client # "dialing"

\* No step takes back what a socket has become.
GoesOn(k) ==
    /\ sock'[k].b = sock[k].b /\ sock'[k].side = sock[k].side /\ sock'[k].at # "none"
    /\ sock[k].client = "quit" => sock'[k].client = "quit"
    /\ Living(k) => Living(k)'
    /\ Talks(k) => Talks(k)'
    /\ sock[k].sent <= sock'[k].sent

Calm == BridgeShape /\ Placed /\ OneClient /\ \A k \in Sock : Quiet(k)

LEMMA CalmFacts ==
    ASSUME Calm
    PROVE  \A k \in Sock : /\ sock[k].side \in Side /\ sock[k].sent \in Nat /\ sock[k] \in SockRecord
                           /\ UsedHasBridge(k) /\ Quiet(k)
                           /\ sock[k].in \in Seq(Nat) /\ sock[k].queue \in Seq(Nat) /\ sock[k].flush \in Seq(Nat)
                           /\ sock[k].got \in Seq(Nat)
<1>1. \A k \in Sock : sock[k] \in SockRecord /\ UsedHasBridge(k) /\ Quiet(k)
  BY DEF Calm, BridgeShape
<1> QED BY <1>1 DEF SockRecord

\* What a step of a socket makes of that socket and of the others.
LEMMA GoesOnStep ==
    ASSUME Calm, BridgeNext
    PROVE  \/ \E k \in Sock, b \in Bridge, s \in Side : Dial(k, b, s)
           \/ \A j \in Sock : /\ sock[j].at # "none" => GoesOn(j)
                              /\ sock[j].at = "none" => sock'[j] = sock[j]
<1> DEFINE Goal == \A j \in Sock : /\ sock[j].at # "none" => GoesOn(j)
                                   /\ sock[j].at = "none" => sock'[j] = sock[j]
<1>0. BridgeShape /\ Placed
  BY DEF Calm
<1>s. \A j \in Sock : sock'[j] = sock[j] => (sock[j].at # "none" => GoesOn(j))
  BY CalmFacts DEF GoesOn, Living, Talks
<1>o. ASSUME NEW k \in Sock, \A j \in Sock \ {k} : sock'[j] = sock[j], sock[k].at # "none", GoesOn(k) PROVE Goal
  BY <1>s, <1>o
<1>2. ASSUME Poll \/ \E b \in Bridge : Request(b) \/ ExpirePending(b) PROVE Goal
  BY <1>2, <1>s DEF Request, ExpirePending, Poll, registry
<1>4. ASSUME NEW k \in Sock, Lives(k) PROVE Goal
  <2>1. sock[k].at # "none" /\ \A j \in Sock \ {k} : sock'[j] = sock[j]
    BY <1>0, <1>4, LifeStep, CalmFacts DEF UsedHasBridge
  <2>2. GoesOn(k)
    BY <1>0, <1>4, <2>1, LifeStep, CalmFacts DEF GoesOn, Living, Talks
  <2> QED BY <1>o, <2>1, <2>2
<1>5. ASSUME NEW k \in Sock, SendFrame(k) PROVE Goal
  <2>1. sock[k].at # "none" /\ \A j \in Sock \ {k} : sock'[j] = sock[j]
    BY <1>0, <1>5, SendStep, CalmFacts DEF UsedHasBridge
  <2>2. GoesOn(k)
    BY <1>0, <1>5, <2>1, SendStep, CalmFacts DEF GoesOn, Living, Talks
  <2> QED BY <1>o, <2>1, <2>2
<1>6. ASSUME NEW k \in Sock, Lookup(k) PROVE Goal
  <2>1. sock[k].at # "none" /\ \A j \in Sock \ {k} : sock'[j] = sock[j]
    BY <1>0, <1>6, LookupStep
  <2>2. GoesOn(k)
    BY <1>0, <1>6, <2>1, LookupStep, CalmFacts DEF GoesOn, Living, Talks, AtClose
  <2> QED BY <1>o, <2>1, <2>2
<1>7. ASSUME NEW k \in Sock, Join(k) PROVE Goal
  <2>1. sock[k].at # "none" /\ \A j \in Sock \ {k} : sock'[j] = sock[j]
    BY <1>0, <1>7, JoinStep
  <2>2. GoesOn(k)
    <3>1. /\ sock'[k].b = sock[k].b /\ sock'[k].side = sock[k].side /\ sock'[k].at # "none"
          /\ sock'[k].client = sock[k].client /\ sock'[k].sent = sock[k].sent /\ sock[k].at = "known"
      BY <1>0, <1>7, JoinStep
    <3> QED BY <3>1, CalmFacts DEF GoesOn, Living, Talks
  <2> QED BY <1>o, <2>1, <2>2
<1>8. ASSUME NEW k \in Sock, Flush(k) PROVE Goal
  <2>1. sock[k].at # "none" /\ \A j \in Sock \ {k} : sock'[j] = sock[j]
    BY <1>0, <1>8, FlushStep
  <2>2. GoesOn(k)
    BY <1>0, <1>8, <2>1, FlushStep, CalmFacts DEF GoesOn, Living, Talks
  <2> QED BY <1>o, <2>1, <2>2
<1>9. ASSUME NEW k \in Sock, Relay(k) PROVE Goal
  <2>1. sock[k].at # "none" /\ \A j \in Sock \ {k} : sock'[j] = sock[j]
    BY <1>0, <1>9, RelayStep
  <2>2. GoesOn(k)
    BY <1>0, <1>9, <2>1, RelayStep, CalmFacts DEF GoesOn, Living, Talks
  <2> QED BY <1>o, <2>1, <2>2
<1>10. ASSUME NEW k \in Sock, Forward(k) PROVE Goal
  <2>1. /\ sock[k].at = "open" /\ sock'[k].b = sock[k].b /\ sock'[k].side = sock[k].side
        /\ sock'[k].client = sock[k].client /\ sock'[k].sent = sock[k].sent
        /\ (\E peer \in Sock : Passes(k, peer)) \/ HoldsFrame(k) \/ Stops(k)
    BY <1>0, <1>10, ForwardStep
  <2>2. GoesOn(k)
    BY <2>1, CalmFacts DEF GoesOn, Living, Talks, Passes, HoldsFrame, Stops
  <2>3. CASE HoldsFrame(k) \/ Stops(k)
    BY <1>o, <2>1, <2>2, <2>3 DEF HoldsFrame, Stops
  <2>4. ASSUME NEW peer \in Sock, Passes(k, peer) PROVE Goal
    <3>1. sock[peer].at # "none"
      BY <2>1, <2>4, <1>0, CalmFacts, Others DEF Passes, Placed, PlaceTaken, Inside, UsedHasBridge
    <3>2. GoesOn(peer)
      <4>1. /\ sock'[peer].b = sock[peer].b /\ sock'[peer].side = sock[peer].side /\ sock'[peer].at = sock[peer].at
            /\ sock'[peer].client = sock[peer].client /\ sock'[peer].sent = sock[peer].sent /\ sock[peer].sent \in Nat
        BY <2>4, CalmFacts DEF Passes
      <4> QED BY <3>1, <4>1 DEF GoesOn, Living, Talks
    <3> QED BY <1>s, <2>1, <2>2, <2>4, <3>1, <3>2 DEF Passes
  <2> QED BY <2>1, <2>3, <2>4
<1>11. ASSUME NEW k \in Sock, Leave(k) PROVE Goal
  <2>1. sock[k].at = "leaving" /\ \A j \in Sock \ {k} : sock'[j] = sock[j]
    BY <1>0, <1>11, LeaveStep
  <2>2. GoesOn(k)
    BY <1>0, <1>11, <2>1, LeaveStep, CalmFacts DEF GoesOn, Living, Talks, AtClose
  <2> QED BY <1>o, <2>1, <2>2
<1> QED BY <1>2, <1>4, <1>5, <1>6, <1>7, <1>8, <1>9, <1>10, <1>11 DEF BridgeNext, Task, Lives

LEMMA OneClientStep ==
    Calm /\ [BridgeNext]_bridgeVars => OneClient'
<1> SUFFICES ASSUME Calm, [BridgeNext]_bridgeVars PROVE OneClient'
  OBVIOUS
<1>0. OneClient /\ BridgeShape
  BY DEF Calm
<1>1. CASE UNCHANGED bridgeVars
  BY <1>0, <1>1 DEF bridgeVars, OneClient
<1>2. CASE \A j \in Sock : /\ sock[j].at # "none" => GoesOn(j)
                           /\ sock[j].at = "none" => sock'[j] = sock[j]
  <2>1. \A j \in Sock : sock'[j].at # "none" =>
            /\ sock[j].at # "none" /\ sock'[j].b = sock[j].b /\ sock'[j].side = sock[j].side
            /\ sock[j].client = "quit" => sock'[j].client = "quit"
    BY <1>2 DEF GoesOn
  <2> QED BY <1>0, <2>1 DEF OneClient
<1>3. ASSUME NEW k \in Sock, NEW b \in Bridge, NEW s \in Side, Dial(k, b, s) PROVE OneClient'
  <2>1. /\ \A j \in Sock \ {k} : sock'[j] = sock[j]
        /\ \A j \in Sock : sock[j].b = b /\ sock[j].side = s => sock[j].client = "quit"
        /\ sock'[k].b = b /\ sock'[k].side = s
    BY <1>0, <1>3, DialStep
  <2> QED BY <1>0, <2>1 DEF OneClient
<1> QED BY <1>1, <1>2, <1>3, GoesOnStep

LEMMA QuietStep ==
    Calm /\ [BridgeNext]_bridgeVars => \A k \in Sock : Quiet(k)'
<1> SUFFICES ASSUME Calm, [BridgeNext]_bridgeVars PROVE \A k \in Sock : Quiet(k)'
  OBVIOUS
<1> DEFINE Goal == \A k \in Sock : Quiet(k)'
<1>0. BridgeShape /\ Placed /\ \A k \in Sock : Quiet(k)
  BY DEF Calm
<1>o. ASSUME NEW k \in Sock, \A j \in Sock \ {k} : sock'[j] = sock[j], Quiet(k)' PROVE Goal
  BY <1>0, <1>o DEF Quiet, Living
<1>1. CASE UNCHANGED bridgeVars
  BY <1>0, <1>1 DEF bridgeVars, Quiet, Living
<1>2. ASSUME Poll \/ \E b \in Bridge : Request(b) \/ ExpirePending(b) PROVE Goal
  BY <1>0, <1>2 DEF Request, ExpirePending, Poll, registry, Quiet, Living
<1>3. ASSUME NEW k \in Sock, NEW b \in Bridge, NEW s \in Side, Dial(k, b, s) PROVE Goal
  BY <1>0, <1>3, <1>o, DialStep DEF Quiet, Living
<1>4. ASSUME NEW k \in Sock, Lives(k) PROVE Goal
  <2>1. Quiet(k)'
    BY <1>0, <1>4, LifeStep DEF Quiet, Living
  <2> QED BY <1>0, <1>4, <1>o, <2>1, LifeStep
<1>5. ASSUME NEW k \in Sock, SendFrame(k) PROVE Goal
  <2>1. Quiet(k)'
    BY <1>0, <1>5, SendStep DEF Quiet, Living
  <2> QED BY <1>0, <1>5, <1>o, <2>1, SendStep
<1>6. ASSUME NEW k \in Sock, Lookup(k) PROVE Goal
  <2>1. Quiet(k)'
    BY <1>0, <1>6, LookupStep DEF Quiet, Living, AtClose
  <2> QED BY <1>0, <1>6, <1>o, <2>1, LookupStep
<1>7. ASSUME NEW k \in Sock, Join(k) PROVE Goal
  <2>1. Quiet(k)'
    <3>1. /\ sock'[k].client = sock[k].client /\ sock'[k].sent = sock[k].sent /\ sock'[k].in = sock[k].in
          /\ sock'[k].got = sock[k].got /\ sock'[k].at = "flush"
      BY <1>0, <1>7, JoinStep
    <3> QED BY <1>0, <3>1 DEF Quiet, Living
  <2> QED BY <1>0, <1>7, <1>o, <2>1, JoinStep
<1>8. ASSUME NEW k \in Sock, Flush(k) PROVE Goal
  <2>1. Quiet(k)'
    BY <1>0, <1>8, FlushStep DEF Quiet, Living
  <2> QED BY <1>0, <1>8, <1>o, <2>1, FlushStep
<1>9. ASSUME NEW k \in Sock, Relay(k) PROVE Goal
  <2>1. Quiet(k)'
    BY <1>0, <1>9, RelayStep DEF Quiet, Living
  <2> QED BY <1>0, <1>9, <1>o, <2>1, RelayStep
<1>10. ASSUME NEW k \in Sock, Forward(k) PROVE Goal
  <2>1. /\ sock[k].at = "open" /\ sock[k].in # <<>> /\ sock'[k].got = sock[k].got
        /\ sock'[k].client = sock[k].client /\ sock'[k].sent = sock[k].sent
        /\ (\E peer \in Sock : Passes(k, peer)) \/ HoldsFrame(k) \/ Stops(k)
    BY <1>0, <1>10, ForwardStep
  <2>2. Living(k)
    BY <1>0, <2>1 DEF Quiet
  <2>3. Quiet(k)'
    BY <2>1, <2>2 DEF Quiet, Living, Passes, HoldsFrame, Stops
  <2>4. CASE HoldsFrame(k) \/ Stops(k)
    BY <1>o, <2>3, <2>4 DEF HoldsFrame, Stops
  <2>5. ASSUME NEW peer \in Sock, Passes(k, peer) PROVE Goal
    <3>1. sock[peer].at \in Inside
      BY <2>1, <2>5, <1>0, CalmFacts, Others DEF Passes, Placed, PlaceTaken, UsedHasBridge
    <3>2. Quiet(peer)'
      BY <1>0, <2>5, <3>1 DEF Quiet, Living, Passes, Inside
    <3>3. \A j \in Sock \ {k, peer} : Quiet(j)'
      <4>1. \A j \in Sock \ {k, peer} : sock'[j] = sock[j]
        BY <2>5 DEF Passes
      <4> QED BY <1>0, <4>1 DEF Quiet, Living
    <3> QED BY <2>3, <3>2, <3>3
  <2> QED BY <2>1, <2>4, <2>5
<1>11. ASSUME NEW k \in Sock, Leave(k) PROVE Goal
  <2>1. Quiet(k)'
    BY <1>0, <1>11, LeaveStep DEF Quiet, Living, AtClose
  <2> QED BY <1>0, <1>11, <1>o, <2>1, LeaveStep
<1> QED BY <1>1, <1>2, <1>3, <1>4, <1>5, <1>6, <1>7, <1>8, <1>9, <1>10, <1>11 DEF BridgeNext, Task, Lives


-----------------------------------------------------------------------------
(* Frames.                                                                   *)

\* Frame x has been read from side s of bridge b: its sender is a client of
\* that side, and what is still to be read comes after it.
FromClient(x, b, s) ==
    \E c \in Sock : sock[c].b = b /\ sock[c].side = s /\ Talks(c) /\ x \in 1..sock[c].sent
Below(x, b, s) ==
    \A j \in Sock : sock[j].b = b /\ sock[j].side = s => \A y \in Range(sock[j].in) : x < y
Read(x, b, s) == x \in Nat /\ FromClient(x, b, s) /\ Below(x, b, s)

\* The frames a socket took, whether its client has got them yet or not.
Passed(k) == Range(sock[k].flush) \cup Range(sock[k].queue) \cup Range(sock[k].got) \cup sock[k].early

InComes(k) == Line(sock[k].in, {}) /\ \A x \in Range(sock[k].in) : x \in 1..sock[k].sent

Waits(b, s) == Line(held[b][s], {}) /\ \A x \in Range(held[b][s]) : Read(x, b, Other(s))

WasRead(k) ==
    sock[k].at # "none" =>
        \A x \in Passed(k) : /\ Read(x, sock[k].b, Other(sock[k].side))
                             /\ \A y \in Range(held[sock[k].b][sock[k].side]) : x < y

Lined(k) ==
    LET e == sock[k].early IN
    /\ Line(sock[k].flush, {}) /\ Range(sock[k].flush) \subseteq e
    /\ Line(sock[k].queue, e) /\ Line(sock[k].got, e)
    /\ \A x \in Range(sock[k].got), y \in Range(sock[k].queue) : Before(x, y, e)
    /\ \A x \in Range(sock[k].got) \cup Range(sock[k].queue), y \in Range(sock[k].flush) : Before(x, y, e)

Frames ==
    /\ \A k \in Sock : InComes(k) /\ WasRead(k) /\ Lined(k)
    /\ \A b \in Bridge, s \in Side : Waits(b, s)

\* What has been read stays so.
LEMMA ReadKept ==
    ASSUME Calm, NEW x, NEW b, NEW s, Read(x, b, s),
           \A j \in Sock : /\ Talks(j) => /\ Talks(j)' /\ sock'[j].b = sock[j].b /\ sock'[j].side = sock[j].side
                                          /\ sock[j].sent <= sock'[j].sent /\ sock'[j].sent \in Nat,
           \A j \in Sock : \/ Range(sock'[j].in) = {}
                           \/ /\ Range(sock'[j].in) \subseteq Range(sock[j].in)
                              /\ sock'[j].b = sock[j].b /\ sock'[j].side = sock[j].side
    PROVE  Read(x, b, s)'
<1>1. PICK c \in Sock : sock[c].b = b /\ sock[c].side = s /\ Talks(c) /\ x \in 1..sock[c].sent
  BY DEF Read, FromClient
<1>2. /\ Talks(c)' /\ sock'[c].b = sock[c].b /\ sock'[c].side = sock[c].side
      /\ sock[c].sent <= sock'[c].sent /\ sock'[c].sent \in Nat /\ sock[c].sent \in Nat
  BY <1>1, CalmFacts
<1>3. x \in 1..sock'[c].sent
  BY <1>1, <1>2
<1>4. FromClient(x, b, s)'
  BY <1>1, <1>2, <1>3 DEF FromClient
<1>5. Below(x, b, s)'
  BY DEF Read, Below
<1> QED BY <1>4, <1>5 DEF Read

\* The same for a whole step that only reads frames or drops them.
Reads ==
    \A j \in Sock : \/ sock'[j].in = <<>>
                    \/ sock'[j].in = sock[j].in /\ sock'[j].b = sock[j].b /\ sock'[j].side = sock[j].side
                    \/ /\ sock[j].in # <<>> /\ sock'[j].in = Tail(sock[j].in)
                       /\ sock'[j].b = sock[j].b /\ sock'[j].side = sock[j].side

LEMMA ReadStays ==
    ASSUME Calm, BridgeShape', BridgeNext, Reads
    PROVE  \A x, b, s : Read(x, b, s) => Read(x, b, s)'
<1>1. \A j \in Sock : sock'[j].sent \in Nat
  <2>1. \A j \in Sock : sock'[j] \in SockRecord
    BY DEF BridgeShape
  <2> QED BY <2>1 DEF SockRecord
<1>2. \A j \in Sock : Talks(j) => /\ Talks(j)' /\ sock'[j].b = sock[j].b /\ sock'[j].side = sock[j].side
                                  /\ sock[j].sent <= sock'[j].sent /\ sock'[j].sent \in Nat
  <2>1. CASE \A j \in Sock : /\ sock[j].at # "none" => GoesOn(j)
                             /\ sock[j].at = "none" => sock'[j] = sock[j]
    BY <1>1, <2>1 DEF GoesOn, Talks
  <2>2. ASSUME NEW k \in Sock, NEW b \in Bridge, NEW s \in Side, Dial(k, b, s)
        PROVE  \A j \in Sock : Talks(j) => /\ Talks(j)' /\ sock'[j].b = sock[j].b /\ sock'[j].side = sock[j].side
                                           /\ sock[j].sent <= sock'[j].sent /\ sock'[j].sent \in Nat
    <3>1. sock[k].at = "none" /\ \A j \in Sock \ {k} : sock'[j] = sock[j]
      BY <2>2, DialStep DEF Calm
    <3>2. \A j \in Sock : sock[j].sent \in Nat
      BY CalmFacts
    <3> QED BY <1>1, <3>1, <3>2 DEF Talks, Living
  <2> QED BY <2>1, <2>2, GoesOnStep
<1>3. \A j \in Sock : \/ Range(sock'[j].in) = {}
                      \/ /\ Range(sock'[j].in) \subseteq Range(sock[j].in)
                         /\ sock'[j].b = sock[j].b /\ sock'[j].side = sock[j].side
  <2> SUFFICES ASSUME NEW j \in Sock
               PROVE  \/ Range(sock'[j].in) = {}
                      \/ /\ Range(sock'[j].in) \subseteq Range(sock[j].in)
                         /\ sock'[j].b = sock[j].b /\ sock'[j].side = sock[j].side
    OBVIOUS
  <2>1. sock[j].in \in Seq(Nat)
    BY CalmFacts
  <2>2. CASE sock[j].in # <<>> /\ sock'[j].in = Tail(sock[j].in)
    BY <2>1, <2>2, RangeOfRest, NoFrames DEF Reads
  <2> QED BY <2>2, NoFrames DEF Reads
<1> QED BY <1>2, <1>3, ReadKept


LEMMA AliveIsUsed ==
    ASSUME Calm, NEW k \in Sock
    PROVE  /\ Living(k) => sock[k].at # "none" /\ sock[k].b \in Bridge
           /\ sock[k].in # <<>> => Living(k)
  BY CalmFacts DEF Living, UsedHasBridge, Quiet

\* Two sockets of a side with a client are one.
LEMMA SameClient ==
    ASSUME Calm, NEW j \in Sock, NEW k \in Sock, Living(j), Living(k),
           sock[j].b = sock[k].b, sock[j].side = sock[k].side
    PROVE  j = k
  BY AliveIsUsed DEF Calm, OneClient, Living

LEMMA InComesStays ==
    ASSUME Calm, BridgeShape', BridgeNext, Reads, NEW k \in Sock, InComes(k)
    PROVE  InComes(k)'
<1>0. sock[k].in \in Seq(Nat) /\ sock[k].sent \in Nat
  BY CalmFacts
<1>1. sock'[k].sent \in Nat
  <2>1. sock'[k] \in SockRecord
    BY DEF BridgeShape
  <2> QED BY <2>1 DEF SockRecord
<1>2. CASE sock'[k].in = <<>>
  BY <1>2, LineOfNone, NoFrames DEF InComes
<1>3. CASE sock'[k].in # <<>>
  <2>1. \/ sock'[k].in = sock[k].in
        \/ sock[k].in # <<>> /\ sock'[k].in = Tail(sock[k].in)
    BY <1>3 DEF Reads
  <2>2. Line(sock'[k].in, {}) /\ Range(sock'[k].in) \subseteq Range(sock[k].in)
    BY <1>0, <2>1, LineOfRest, RangeOfRest DEF InComes
  <2>3. sock[k].at # "none"
    BY <1>3, <2>1, AliveIsUsed
  <2>4. sock[k].sent <= sock'[k].sent
    <3>1. CASE GoesOn(k)
      BY <3>1 DEF GoesOn
    <3>2. ASSUME NEW j \in Sock, NEW b \in Bridge, NEW s \in Side, Dial(j, b, s) PROVE sock'[k] = sock[k]
      BY <2>3, <3>2, DialStep DEF Calm
    <3> QED BY <2>3, <3>1, <3>2, <1>0, GoesOnStep
  <2>5. \A x \in 1..sock[k].sent : x \in 1..sock'[k].sent
    BY <1>0, <1>1, <2>4
  <2> QED BY <2>2, <2>5 DEF InComes
<1> QED BY <1>2, <1>3

\* What is true of the socket of a side when nothing is added for it.
LEMMA WasReadStays ==
    ASSUME Calm, \A x, b, s : Read(x, b, s) => Read(x, b, s)', NEW k \in Sock, WasRead(k),
           sock'[k].at # "none" => sock[k].at # "none",
           sock'[k].b = sock[k].b, sock'[k].side = sock[k].side,
           Passed(k)' \subseteq Passed(k),
           Range(held'[sock[k].b][sock[k].side]) \subseteq Range(held[sock[k].b][sock[k].side])
    PROVE  WasRead(k)'
  BY DEF WasRead

LEMMA FramesKept ==
    ASSUME Calm, Frames, \A x, b, s : Read(x, b, s) => Read(x, b, s)',
           \A b \in Bridge, s \in Side : held'[b][s] \in {<<>>, held[b][s]},
           \A k \in Sock : InComes(k)',
           \A k \in Sock : \/ /\ sock'[k].flush = <<>> /\ sock'[k].queue = <<>> /\ sock'[k].got = <<>>
                              /\ sock'[k].early = {}
                           \/ /\ sock'[k].at # "none" => sock[k].at # "none"
                              /\ sock'[k].b = sock[k].b /\ sock'[k].side = sock[k].side
                              /\ sock'[k].flush = sock[k].flush /\ sock'[k].early = sock[k].early
                              /\ sock'[k].got = sock[k].got /\ sock'[k].queue \in {<<>>, sock[k].queue}
    PROVE  Frames'
<1>1. ASSUME NEW k \in Sock PROVE WasRead(k)' /\ Lined(k)'
  <2>0. WasRead(k) /\ Lined(k) /\ sock[k].side \in Side /\ UsedHasBridge(k)
    BY CalmFacts DEF Frames
  <2>1. CASE /\ sock'[k].flush = <<>> /\ sock'[k].queue = <<>> /\ sock'[k].got = <<>>
             /\ sock'[k].early = {}
    <3>1. Passed(k)' = {}
      BY <2>1, NoFrames DEF Passed
    <3>2. Lined(k)'
      BY <2>1, NoFrames, LineOfNone DEF Lined
    <3> QED BY <3>1, <3>2 DEF WasRead
  <2>2. CASE /\ sock'[k].at # "none" => sock[k].at # "none"
             /\ sock'[k].b = sock[k].b /\ sock'[k].side = sock[k].side
             /\ sock'[k].flush = sock[k].flush /\ sock'[k].early = sock[k].early
             /\ sock'[k].got = sock[k].got /\ sock'[k].queue \in {<<>>, sock[k].queue}
    <3>1. Passed(k)' \subseteq Passed(k)
      BY <2>2, NoFrames DEF Passed
    <3>2. Lined(k)'
      BY <2>0, <2>2, NoFrames, LineOfNone DEF Lined
    <3>3. WasRead(k)'
      <4>1. CASE sock[k].at = "none"
        BY <2>2, <4>1 DEF WasRead
      <4>2. CASE sock[k].at # "none"
        <5>1. Range(held'[sock[k].b][sock[k].side]) \subseteq Range(held[sock[k].b][sock[k].side])
          BY <2>0, <4>2, NoFrames DEF UsedHasBridge
        <5> QED BY <2>0, <2>2, <3>1, <5>1, WasReadStays
      <4> QED BY <4>1, <4>2
    <3> QED BY <3>2, <3>3
  <2> QED BY <2>1, <2>2
<1>2. ASSUME NEW b \in Bridge, NEW s \in Side PROVE Waits(b, s)'
  <2>1. Waits(b, s) /\ held'[b][s] \in {<<>>, held[b][s]}
    BY DEF Frames
  <2> QED BY <2>1, NoFrames, LineOfNone DEF Waits
<1> QED BY <1>1, <1>2 DEF Frames

\* A frame that leaves for the other side has been read.
LEMMA ForwardReads ==
    ASSUME Calm, Frames, NEW k \in Sock, Forward(k),
           NEW f, NEW b, NEW s, f = Head(sock[k].in), b = sock[k].b, s = sock[k].side
    PROVE  Reads /\ f \in Nat /\ f \in Range(sock[k].in) /\ Read(f, b, s)'
<1>0. /\ sock[k].at = "open" /\ sock[k].in # <<>> /\ sock[k].in \in Seq(Nat)
      /\ sock'[k].b = b /\ sock'[k].side = s
      /\ sock'[k].client = sock[k].client /\ sock'[k].sent = sock[k].sent
      /\ (\E peer \in Sock : Passes(k, peer)) \/ HoldsFrame(k) \/ Stops(k)
  BY CalmFacts, ForwardStep DEF Calm
<1>1. /\ sock'[k].in = Tail(sock[k].in) /\ sock'[k].at \in {"open", "leaving"}
      /\ \A j \in Sock \ {k} : sock'[j].in = sock[j].in /\ sock'[j].b = sock[j].b /\ sock'[j].side = sock[j].side
  <2>1. CASE HoldsFrame(k)
    BY <1>0, <2>1 DEF HoldsFrame
  <2>2. CASE Stops(k)
    BY <1>0, <2>2 DEF Stops
  <2>3. ASSUME NEW peer \in Sock, Passes(k, peer)
        PROVE  /\ sock'[k].in = Tail(sock[k].in) /\ sock'[k].at \in {"open", "leaving"}
               /\ \A j \in Sock \ {k} : sock'[j].in = sock[j].in /\ sock'[j].b = sock[j].b /\ sock'[j].side = sock[j].side
    BY <1>0, <2>3 DEF Passes
  <2> QED BY <1>0, <2>1, <2>2, <2>3
<1>2. Reads
  BY <1>0, <1>1 DEF Reads
<1>3. f \in Nat /\ f \in Range(sock[k].in)
  BY <1>0, RangeOfRest
<1>4. Living(k) /\ f \in 1..sock[k].sent
  BY <1>0, <1>3, AliveIsUsed DEF Frames, InComes
<1>5. FromClient(f, b, s)'
  <2>1. Talks(k)' /\ f \in 1..sock'[k].sent
    BY <1>0, <1>1, <1>4 DEF Talks, Living
  <2> QED BY <1>0, <2>1 DEF FromClient
<1>6. \A y \in Range(Tail(sock[k].in)) : f < y
  <2>1. Line(sock[k].in, {})
    BY DEF Frames, InComes
  <2> QED BY <1>0, <2>1, LineOfRest DEF Before
<1>7. ASSUME NEW j \in Sock, j # k, sock[j].b = sock[k].b, sock[j].side = sock[k].side PROVE sock[j].in = <<>>
  BY <1>4, <1>7, SameClient, AliveIsUsed
<1>8. Below(f, b, s)'
  <2>1. ASSUME NEW j \in Sock, sock'[j].b = b, sock'[j].side = s, NEW y \in Range(sock'[j].in) PROVE f < y
    <3>1. CASE j = k
      BY <1>1, <1>6, <2>1, <3>1
    <3>2. CASE j # k
      <4>1. sock'[j].in = <<>>
        BY <1>1, <1>7, <2>1, <3>2
      <4> QED BY <4>1, <2>1, NoFrames
    <3> QED BY <3>1, <3>2
  <2> QED BY <2>1 DEF Below
<1> QED BY <1>2, <1>3, <1>5, <1>8 DEF Read


LEMMA SendReads ==
    ASSUME Calm, Frames, NEW k \in Sock, SendFrame(k)
    PROVE  /\ \A x, b, s : Read(x, b, s) => Read(x, b, s)'
           /\ \A j \in Sock : InComes(j)'
<1> DEFINE n == sock[k].sent
<1>0. /\ \A j \in Sock \ {k} : sock'[j] = sock[j]
      /\ sock'[k].b = sock[k].b /\ sock'[k].side = sock[k].side /\ sock'[k].at = sock[k].at
      /\ sock[k].client = "up" /\ sock'[k].client = "up"
      /\ sock'[k].in = Append(sock[k].in, n + 1) /\ sock'[k].sent = n + 1
      /\ n \in Nat /\ sock[k].in \in Seq(Nat)
  BY SendStep, CalmFacts DEF Calm
<1>1. /\ Range(sock'[k].in) = Range(sock[k].in) \cup {n + 1}
      /\ \A y \in Range(sock[k].in) : y \in 1..n
      /\ Line(sock[k].in, {})
  BY <1>0, RangeAppended DEF Frames, InComes
<1>2. InComes(k)'
  <2>1. \A y \in Range(sock[k].in) : Before(y, n + 1, {})
    BY <1>0, <1>1 DEF Before
  <2>2. Line(Append(sock[k].in, n + 1), {})
    BY <1>0, <1>1, <2>1, LineAppended
  <2>3. \A y \in Range(sock'[k].in) : y \in 1..n + 1
    BY <1>0, <1>1
  <2> QED BY <1>0, <2>2, <2>3 DEF InComes
<1>3. \A j \in Sock \ {k} : InComes(j)'
  BY <1>0 DEF Frames, InComes
<1>4. ASSUME NEW x, NEW b, NEW s, Read(x, b, s) PROVE Read(x, b, s)'
  <2>1. PICK c \in Sock : sock[c].b = b /\ sock[c].side = s /\ Talks(c) /\ x \in 1..sock[c].sent
    BY <1>4 DEF Read, FromClient
  <2>2. sock'[c].b = b /\ sock'[c].side = s /\ Talks(c)' /\ x \in 1..sock'[c].sent
    BY <1>0, <2>1 DEF Talks, Living
  <2>3. FromClient(x, b, s)'
    BY <2>2 DEF FromClient
  <2>4. ASSUME sock[k].b = b, sock[k].side = s PROVE x \in 1..n
    <3>1. Living(k) /\ Living(c)
      BY <1>0, <2>1 DEF Talks, Living
    <3>2. c = k
      BY <2>1, <2>4, <3>1, SameClient
    <3> QED BY <2>1, <3>2
  <2>5. Below(x, b, s)'
    <3>1. ASSUME NEW j \in Sock, sock'[j].b = b, sock'[j].side = s, NEW y \in Range(sock'[j].in) PROVE x < y
      <4>1. CASE j = k /\ y = n + 1
        BY <1>0, <2>4, <3>1, <4>1
      <4>2. CASE y \in Range(sock[j].in) /\ sock[j].b = b /\ sock[j].side = s
        BY <1>4, <4>2 DEF Read, Below
      <4>3. CASE j = k
        BY <1>0, <1>1, <3>1, <4>1, <4>2, <4>3
      <4>4. CASE j # k
        BY <1>0, <3>1, <4>2, <4>4
      <4> QED BY <4>3, <4>4
    <3> QED BY <3>1 DEF Below
  <2> QED BY <1>4, <2>3, <2>5 DEF Read
<1> QED BY <1>2, <1>3, <1>4

\* The steps after which every queue and every held sequence is what it was, or
\* gone.
LEMMA SettledStep ==
    ASSUME Calm, Frames, BridgeShape', BridgeNext, Reads,
           \A b \in Bridge, s \in Side : held'[b][s] \in {<<>>, held[b][s]},
           NEW k \in Sock, \A j \in Sock \ {k} : sock'[j] = sock[j],
           \/ /\ sock'[k].flush = <<>> /\ sock'[k].queue = <<>> /\ sock'[k].got = <<>>
              /\ sock'[k].early = {}
           \/ /\ sock'[k].at # "none" => sock[k].at # "none"
              /\ sock'[k].b = sock[k].b /\ sock'[k].side = sock[k].side
              /\ sock'[k].flush = sock[k].flush /\ sock'[k].early = sock[k].early
              /\ sock'[k].got = sock[k].got /\ sock'[k].queue \in {<<>>, sock[k].queue}
    PROVE  Frames'
<1>1. \A x, b, s : Read(x, b, s) => Read(x, b, s)'
  BY ReadStays
<1>2. \A j \in Sock : InComes(j)'
  BY InComesStays DEF Frames
<1> QED BY <1>1, <1>2, FramesKept

LEMMA JoinFrames ==
    ASSUME Calm, Frames, BridgeShape', BridgeNext, NEW k \in Sock, Join(k)
    PROVE  Frames'
<1> DEFINE c == sock[k].b
<1> DEFINE u == sock[k].side
<1>0. /\ \A j \in Sock \ {k} : sock'[j] = sock[j]
      /\ sock[k].at = "known" /\ sock'[k].at = "flush"
      /\ sock'[k].b = c /\ sock'[k].side = u
      /\ sock'[k].in = sock[k].in /\ sock'[k].queue = sock[k].queue /\ sock'[k].got = sock[k].got
      /\ sock'[k].flush = held[c][u] /\ sock'[k].early = Range(held[c][u])
      /\ held' = [held EXCEPT ![c][u] = <<>>]
  BY JoinStep DEF Calm
<1>1. c \in Bridge /\ u \in Side /\ sock[k].queue = <<>> /\ sock[k].got = <<>>
  BY <1>0, CalmFacts DEF UsedHasBridge, Quiet
<1>2. Reads
  BY <1>0 DEF Reads
<1>3. \A x, b, s : Read(x, b, s) => Read(x, b, s)'
  BY <1>2, ReadStays
<1>4. \A j \in Sock : InComes(j)'
  BY <1>2, InComesStays DEF Frames
<1>5. held'[c][u] = <<>> /\ \A b \in Bridge, s \in Side : held'[b][s] \in {<<>>, held[b][s]}
  BY <1>0, <1>1 DEF Calm, BridgeShape
<1>6. Waits(c, u)
  BY <1>1 DEF Frames
<1>7. WasRead(k)'
  <2>1. Passed(k)' = Range(held[c][u])
    BY <1>0, <1>1, NoFrames DEF Passed
  <2>2. \A x \in Range(held[c][u]) : Read(x, c, Other(u))
    BY <1>6 DEF Waits
  <2>3. Range(held'[c][u]) = {}
    BY <1>5, NoFrames
  <2> QED BY <1>0, <1>3, <2>1, <2>2, <2>3 DEF WasRead
<1>8. Lined(k)'
  <2>1. Line(sock'[k].flush, {}) /\ Range(sock'[k].flush) \subseteq sock'[k].early
    BY <1>0, <1>6 DEF Waits
  <2> QED BY <1>0, <1>1, <2>1, NoFrames, LineOfNone DEF Lined
<1>9. ASSUME NEW j \in Sock \ {k} PROVE WasRead(j)' /\ Lined(j)'
  <2>0. WasRead(j) /\ Lined(j) /\ UsedHasBridge(j) /\ sock[j].side \in Side /\ sock'[j] = sock[j]
    BY <1>0, CalmFacts DEF Frames
  <2>1. CASE sock[j].at = "none"
    BY <2>0, <2>1 DEF WasRead, Lined
  <2>2. CASE sock[j].at # "none"
    <3>1. Range(held'[sock[j].b][sock[j].side]) \subseteq Range(held[sock[j].b][sock[j].side])
      BY <1>5, <2>0, <2>2, NoFrames DEF UsedHasBridge
    <3>2. Passed(j)' = Passed(j)
      BY <2>0 DEF Passed
    <3>3. WasRead(j)'
      BY <1>3, <2>0, <2>2, <3>1, <3>2, WasReadStays
    <3> QED BY <2>0, <3>3 DEF Lined
  <2> QED BY <2>1, <2>2
<1>10. ASSUME NEW b \in Bridge, NEW s \in Side PROVE Waits(b, s)'
  <2>1. Waits(b, s) /\ held'[b][s] \in {<<>>, held[b][s]}
    BY <1>5 DEF Frames
  <2> QED BY <1>3, <2>1, NoFrames, LineOfNone DEF Waits
<1> QED BY <1>4, <1>7, <1>8, <1>9, <1>10 DEF Frames

LEMMA FlushFrames ==
    ASSUME Calm, Frames, BridgeShape', BridgeNext, NEW k \in Sock, Flush(k)
    PROVE  Frames'
<1>0. /\ \A j \in Sock \ {k} : sock'[j] = sock[j]
      /\ sock[k].at = "flush" /\ sock'[k].at \in {"open", "flush"}
      /\ sock'[k].b = sock[k].b /\ sock'[k].side = sock[k].side
      /\ sock'[k].in = sock[k].in /\ sock'[k].early = sock[k].early /\ sock'[k].got = sock[k].got
      /\ \/ sock'[k].flush = sock[k].flush /\ sock'[k].queue = sock[k].queue
         \/ /\ sock[k].flush # <<>>
            /\ sock'[k].flush = Tail(sock[k].flush)
            /\ sock'[k].queue = Append(sock[k].queue, Head(sock[k].flush))
      /\ held' = held
  BY FlushStep DEF Calm, registry
<1>1. Reads
  BY <1>0 DEF Reads
<1>2. CASE sock'[k].flush = sock[k].flush /\ sock'[k].queue = sock[k].queue
  BY <1>0, <1>1, <1>2, SettledStep
<1>3. CASE /\ sock[k].flush # <<>>
           /\ sock'[k].flush = Tail(sock[k].flush)
           /\ sock'[k].queue = Append(sock[k].queue, Head(sock[k].flush))
  <2> DEFINE f == Head(sock[k].flush)
  <2> DEFINE e == sock[k].early
  <2>0. sock[k].flush \in Seq(Nat) /\ sock[k].queue \in Seq(Nat)
    BY CalmFacts
  <2>1. /\ f \in Nat /\ Range(sock[k].flush) = {f} \cup Range(sock'[k].flush)
        /\ Range(sock'[k].queue) = Range(sock[k].queue) \cup {f}
    BY <1>3, <2>0, RangeOfRest, RangeAppended
  <2>2. \A x, b, s : Read(x, b, s) => Read(x, b, s)'
    BY <1>1, ReadStays
  <2>3. \A j \in Sock : InComes(j)'
    BY <1>1, InComesStays DEF Frames
  <2>4. WasRead(k) /\ Lined(k)
    BY DEF Frames
  <2>5. Passed(k)' = Passed(k)
    BY <1>0, <2>1 DEF Passed
  <2>6. WasRead(k)'
    BY <1>0, <2>2, <2>4, <2>5, WasReadStays
  <2>7. Line(sock'[k].flush, {}) /\ \A y \in Range(sock'[k].flush) : Before(f, y, {})
    BY <1>3, <2>0, <2>4, LineOfRest DEF Lined
  <2>8. Line(sock'[k].queue, e)
    BY <1>3, <2>0, <2>1, <2>4, LineAppended DEF Lined
  <2>9. \A y \in Range(sock'[k].flush) : Before(f, y, e)
    BY <2>7 DEF Before
  <2> HIDE DEF f
  <2>10. Lined(k)'
    BY <1>0, <2>1, <2>4, <2>7, <2>8, <2>9 DEF Lined
  <2>11. ASSUME NEW j \in Sock \ {k} PROVE WasRead(j)' /\ Lined(j)'
    <3>1. WasRead(j) /\ Lined(j) /\ sock'[j] = sock[j]
      BY <1>0 DEF Frames
    <3>2. Passed(j)' = Passed(j)
      BY <3>1 DEF Passed
    <3>3. WasRead(j)'
      BY <1>0, <2>2, <3>1, <3>2, WasReadStays
    <3> QED BY <3>1, <3>3 DEF Lined
  <2>12. ASSUME NEW b \in Bridge, NEW s \in Side PROVE Waits(b, s)'
    BY <1>0, <2>2 DEF Frames, Waits
  <2> QED BY <2>3, <2>6, <2>10, <2>11, <2>12 DEF Frames
<1> QED BY <1>0, <1>2, <1>3

LEMMA RelayFrames ==
    ASSUME Calm, Frames, BridgeShape', BridgeNext, NEW k \in Sock, Relay(k)
    PROVE  Frames'
<1> DEFINE f == Head(sock[k].queue)
<1> DEFINE e == sock[k].early
<1>0. /\ \A j \in Sock \ {k} : sock'[j] = sock[j]
      /\ sock[k].at = "open" /\ sock'[k].at = "open"
      /\ sock'[k].b = sock[k].b /\ sock'[k].side = sock[k].side
      /\ sock'[k].in = sock[k].in /\ sock'[k].early = sock[k].early /\ sock'[k].flush = sock[k].flush
      /\ sock[k].queue # <<>> /\ sock'[k].queue = Tail(sock[k].queue)
      /\ sock'[k].got \in {sock[k].got, Append(sock[k].got, f)}
      /\ held' = held
  BY RelayStep DEF Calm, registry
<1>1. Reads
  BY <1>0 DEF Reads
<1>2. sock[k].queue \in Seq(Nat) /\ sock[k].got \in Seq(Nat)
  BY CalmFacts
<1>3. f \in Nat /\ Range(sock[k].queue) = {f} \cup Range(sock'[k].queue)
  BY <1>0, <1>2, RangeOfRest
<1>4. Range(sock'[k].got) \subseteq Range(sock[k].got) \cup {f}
  BY <1>0, <1>2, <1>3, RangeAppended
<1>5. \A x, b, s : Read(x, b, s) => Read(x, b, s)'
  BY <1>1, ReadStays
<1>6. \A j \in Sock : InComes(j)'
  BY <1>1, InComesStays DEF Frames
<1>7. WasRead(k) /\ Lined(k)
  BY DEF Frames
<1>8. WasRead(k)'
  <2>1. Passed(k)' \subseteq Passed(k)
    BY <1>0, <1>3, <1>4 DEF Passed
  <2> QED BY <1>0, <1>5, <1>7, <2>1, WasReadStays
<1>9. Line(sock'[k].queue, e) /\ \A y \in Range(sock'[k].queue) : Before(f, y, e)
  BY <1>0, <1>2, <1>7, LineOfRest DEF Lined
<1>10. Line(sock'[k].got, e)
  <2>1. Line(Append(sock[k].got, f), e)
    BY <1>2, <1>3, <1>7, LineAppended DEF Lined
  <2> QED BY <1>0, <1>7, <2>1 DEF Lined
<1> HIDE DEF f
<1>11. Lined(k)'
  BY <1>0, <1>3, <1>4, <1>7, <1>9, <1>10 DEF Lined
<1>12. ASSUME NEW j \in Sock \ {k} PROVE WasRead(j)' /\ Lined(j)'
  <2>1. WasRead(j) /\ Lined(j) /\ sock'[j] = sock[j]
    BY <1>0 DEF Frames
  <2>2. Passed(j)' = Passed(j)
    BY <2>1 DEF Passed
  <2>3. WasRead(j)'
    BY <1>0, <1>5, <2>1, <2>2, WasReadStays
  <2> QED BY <2>1, <2>3 DEF Lined
<1>13. ASSUME NEW b \in Bridge, NEW s \in Side PROVE Waits(b, s)'
  BY <1>0, <1>5 DEF Frames, Waits
<1> QED BY <1>6, <1>8, <1>11, <1>12, <1>13 DEF Frames


LEMMA ForwardFrames ==
    ASSUME Calm, Frames, BridgeShape', BridgeNext, NEW k \in Sock, Forward(k)
    PROVE  Frames'
<1> DEFINE f == Head(sock[k].in)
<1> DEFINE c == sock[k].b
<1> DEFINE u == sock[k].side
<1>0. /\ sock[k].at = "open" /\ c \in Bridge /\ u \in Side
      /\ sock'[k].b = c /\ sock'[k].side = u
      /\ sock'[k].flush = sock[k].flush /\ sock'[k].early = sock[k].early /\ sock'[k].got = sock[k].got
      /\ (\E peer \in Sock : Passes(k, peer)) \/ HoldsFrame(k) \/ Stops(k)
  BY ForwardStep, CalmFacts DEF Calm
<1>1. Reads /\ f \in Nat /\ f \in Range(sock[k].in)
  BY ForwardReads
<1>2. \A x, b, s : Read(x, b, s) => Read(x, b, s)'
  BY <1>1, ReadStays
<1>3. \A j \in Sock : InComes(j)'
  BY <1>1, InComesStays DEF Frames
<1>4. \A x, b, s : x = f /\ b = c /\ s = u => Read(x, b, s)'
  BY ForwardReads
<1>5. \A x : Read(x, c, u) => x < f
  BY <1>1 DEF Read, Below
<1>6. CASE Stops(k)
  BY <1>0, <1>1, <1>6, SettledStep DEF Stops
<1>7. CASE HoldsFrame(k)
  <2> DEFINE o == Other(u)
  <2>0. /\ \A j \in Sock \ {k} : sock'[j] = sock[j]
        /\ sock'[k].at = sock[k].at /\ sock'[k].queue = sock[k].queue
        /\ o \in Side /\ Other(o) = u
        /\ held' = [held EXCEPT ![c][o] = Append(held[c][o], f)]
    BY <1>0, <1>7, Others DEF HoldsFrame
  <2>1. /\ held[c][o] \in Seq(Nat) /\ held'[c][o] = Append(held[c][o], f)
        /\ \A b \in Bridge, s \in Side : b # c \/ s # o => held'[b][s] = held[b][s]
    BY <1>0, <2>0 DEF Calm, BridgeShape
  <2>2. Range(held'[c][o]) = Range(held[c][o]) \cup {f}
    BY <1>1, <2>1, RangeAppended
  <2>3. Waits(c, o) /\ \A x \in Range(held[c][o]) : Read(x, c, u) /\ x < f
    BY <1>0, <1>5, <2>0 DEF Frames, Waits
  <2>4. Line(held'[c][o], {})
    BY <1>1, <2>1, <2>3, LineAppended DEF Waits, Before
  <2>5. ASSUME NEW b \in Bridge, NEW s \in Side PROVE Waits(b, s)'
    <3>1. CASE b = c /\ s = o
      <4>1. \A x \in Range(held'[c][o]) : Read(x, c, u)'
        <5>1. ASSUME NEW x \in Range(held'[c][o]), NEW b1, NEW s1, b1 = c, s1 = u PROVE Read(x, b1, s1)'
          BY <1>2, <1>4, <2>2, <2>3, <5>1
        <5> QED BY <1>0, <5>1
      <4> QED BY <1>0, <2>0, <2>4, <3>1, <4>1 DEF Waits
    <3>2. CASE b # c \/ s # o
      BY <1>2, <2>1, <3>2 DEF Frames, Waits
    <3> QED BY <3>1, <3>2
  <2>6. ASSUME NEW j \in Sock PROVE WasRead(j)' /\ Lined(j)'
    <3>0. WasRead(j) /\ Lined(j) /\ UsedHasBridge(j) /\ sock[j].side \in Side
      BY CalmFacts DEF Frames
    <3>1. /\ sock'[j].at = sock[j].at /\ sock'[j].b = sock[j].b /\ sock'[j].side = sock[j].side
          /\ sock'[j].flush = sock[j].flush /\ sock'[j].queue = sock[j].queue
          /\ sock'[j].early = sock[j].early /\ sock'[j].got = sock[j].got
      BY <1>0, <2>0
    <3>2. Lined(j)'
      BY <3>0, <3>1 DEF Lined
    <3>3. Passed(j)' = Passed(j)
      BY <3>1 DEF Passed
    <3>4. CASE sock[j].at = "none"
      BY <3>1, <3>2, <3>4 DEF WasRead
    <3>5. CASE sock[j].at # "none" /\ sock[j].b = c /\ sock[j].side = o
      <4>1. \A x \in Passed(j) : Read(x, c, u) /\ \A y \in Range(held[c][o]) : x < y
        BY <2>0, <3>0, <3>5 DEF WasRead
      <4>2. \A x \in Passed(j) : \A y \in Range(held'[c][o]) : x < y
        BY <1>5, <2>2, <4>1
      <4>3. \A x \in Passed(j) : Read(x, sock[j].b, Other(sock[j].side))
        BY <3>0, <3>5 DEF WasRead
      <4> QED BY <1>2, <3>1, <3>2, <3>3, <3>5, <4>2, <4>3 DEF WasRead
    <3>6. CASE sock[j].at # "none" /\ (sock[j].b # c \/ sock[j].side # o)
      <4>1. held'[sock[j].b][sock[j].side] = held[sock[j].b][sock[j].side]
        BY <2>1, <3>0, <3>6 DEF UsedHasBridge
      <4>2. WasRead(j)'
        BY <1>2, <3>0, <3>1, <3>3, <4>1, WasReadStays
      <4> QED BY <3>2, <4>2
    <3> QED BY <3>4, <3>5, <3>6
  <2> QED BY <1>3, <2>5, <2>6 DEF Frames
<1>8. ASSUME NEW p \in Sock, Passes(k, p) PROVE Frames'
  <2>0. /\ p = tx[c][Other(u)] /\ p # NoSock /\ p # k
        /\ \A j \in Sock \ {k, p} : sock'[j] = sock[j]
        /\ sock'[k].at = sock[k].at /\ sock'[k].queue = sock[k].queue
        /\ sock'[p].b = sock[p].b /\ sock'[p].side = sock[p].side /\ sock'[p].at = sock[p].at
        /\ sock'[p].flush = sock[p].flush /\ sock'[p].early = sock[p].early /\ sock'[p].got = sock[p].got
        /\ sock'[p].queue = Append(sock[p].queue, f)
        /\ held' = held
    BY <1>8 DEF Passes
  <2>1. /\ sock[p].b = c /\ sock[p].side = Other(u) /\ Other(sock[p].side) = u /\ sock[p].at # "none"
        /\ Range(held[c][Other(u)]) = {}
    <3>1. PlaceTaken(c, Other(u)) /\ Other(Other(u)) = u
      BY <1>0, <2>0, Others DEF Calm, Placed
    <3> QED BY <2>0, <3>1, NoFrames DEF PlaceTaken, Inside
  <2>2. WasRead(p) /\ Lined(p) /\ sock[p].queue \in Seq(Nat)
    BY CalmFacts DEF Frames
  <2>3. \A x \in Passed(p) : Read(x, c, u) /\ x < f
    BY <1>5, <2>1, <2>2 DEF WasRead
  <2>4. Range(sock'[p].queue) = Range(sock[p].queue) \cup {f}
    BY <1>1, <2>0, <2>2, RangeAppended
  <2>5. Passed(p)' = Passed(p) \cup {f}
    BY <2>0, <2>4 DEF Passed
  <2>6. WasRead(p)'
    <3>1. ASSUME NEW x \in Passed(p)', NEW b1, NEW s1, b1 = c, s1 = u PROVE Read(x, b1, s1)'
      BY <1>2, <1>4, <2>3, <2>5, <3>1
    <3>2. Range(held'[sock'[p].b][sock'[p].side]) = {} /\ sock'[p].b = c /\ Other(sock'[p].side) = u
      BY <2>0, <2>1
    <3> QED BY <3>1, <3>2 DEF WasRead
  <2>7. Lined(p)'
    <3> DEFINE e == sock[p].early
    <3>1. \A x \in Passed(p) : Before(x, f, e)
      BY <2>3 DEF Before
    <3>2. Line(Append(sock[p].queue, f), e)
      BY <1>1, <2>2, <3>1, LineAppended DEF Passed, Lined
    <3>3. f \notin e
      BY <1>1, <2>3 DEF Passed
    <3>4. \A y \in Range(sock[p].flush) : Before(f, y, e)
      BY <2>2, <3>3 DEF Before, Lined
    <3> HIDE DEF f
    <3> QED BY <2>0, <2>2, <2>4, <3>1, <3>2, <3>4 DEF Lined, Passed
  <2>8. ASSUME NEW j \in Sock \ {p} PROVE WasRead(j)' /\ Lined(j)'
    <3>1. /\ WasRead(j) /\ Lined(j)
          /\ sock'[j].at = sock[j].at /\ sock'[j].b = sock[j].b /\ sock'[j].side = sock[j].side
          /\ sock'[j].flush = sock[j].flush /\ sock'[j].queue = sock[j].queue
          /\ sock'[j].early = sock[j].early /\ sock'[j].got = sock[j].got
      BY <1>0, <2>0 DEF Frames
    <3>2. Passed(j)' = Passed(j)
      BY <3>1 DEF Passed
    <3>3. WasRead(j)'
      BY <1>2, <2>0, <3>1, <3>2, WasReadStays
    <3> QED BY <3>1, <3>3 DEF Lined
  <2>9. ASSUME NEW b \in Bridge, NEW s \in Side PROVE Waits(b, s)'
    BY <1>2, <2>0 DEF Frames, Waits
  <2> QED BY <1>3, <2>6, <2>7, <2>8, <2>9 DEF Frames
<1> QED BY <1>0, <1>6, <1>7, <1>8

LEMMA FramesStep ==
    Calm /\ Frames /\ BridgeShape' /\ [BridgeNext]_bridgeVars => Frames'
<1> SUFFICES ASSUME Calm, Frames, BridgeShape', [BridgeNext]_bridgeVars PROVE Frames'
  OBVIOUS
<1>0. BridgeShape /\ Placed
  BY DEF Calm
<1>1. CASE UNCHANGED <<sock, held>>
  <2>1. \A x, b, s : Read(x, b, s) => Read(x, b, s)'
    BY <1>1 DEF Read, FromClient, Below, Talks, Living
  <2>2. \A k \in Sock : InComes(k)'
    BY <1>1 DEF Frames, InComes
  <2> QED BY <1>1, <2>1, <2>2, FramesKept
<1>2. CASE UNCHANGED bridgeVars \/ Poll \/ \E b \in Bridge : Request(b) \/ ExpirePending(b)
  BY <1>1, <1>2 DEF Request, ExpirePending, Poll, registry, bridgeVars
<1> SUFFICES ASSUME BridgeNext PROVE Frames'
  BY <1>2
<1>3. ASSUME NEW k \in Sock, NEW b \in Bridge, NEW s \in Side, Dial(k, b, s) PROVE Frames'
  <2>1. /\ \A j \in Sock \ {k} : sock'[j] = sock[j]
        /\ sock'[k].in = <<>> /\ sock'[k].flush = <<>> /\ sock'[k].early = {}
        /\ sock'[k].queue = <<>> /\ sock'[k].got = <<>> /\ held' = held
    BY <1>0, <1>3, DialStep DEF registry
  <2>2. Reads
    BY <2>1 DEF Reads
  <2> QED BY <2>1, <2>2, SettledStep
<1>4. ASSUME NEW k \in Sock, Lives(k) PROVE Frames'
  <2>1. /\ \A j \in Sock \ {k} : sock'[j] = sock[j]
        /\ sock'[k].b = sock[k].b /\ sock'[k].side = sock[k].side
        /\ sock'[k].in = sock[k].in /\ sock'[k].flush = sock[k].flush /\ sock'[k].early = sock[k].early
        /\ sock'[k].queue = sock[k].queue /\ sock'[k].got = sock[k].got /\ held' = held
        /\ sock'[k].at # "none" => sock[k].at # "none"
    BY <1>0, <1>4, LifeStep DEF registry
  <2>2. Reads
    BY <2>1 DEF Reads
  <2> QED BY <2>1, <2>2, SettledStep
<1>5. ASSUME NEW k \in Sock, SendFrame(k) PROVE Frames'
  <2>1. /\ \A j \in Sock \ {k} : sock'[j] = sock[j]
        /\ sock'[k].b = sock[k].b /\ sock'[k].side = sock[k].side /\ sock'[k].at = sock[k].at
        /\ sock'[k].flush = sock[k].flush /\ sock'[k].early = sock[k].early
        /\ sock'[k].queue = sock[k].queue /\ sock'[k].got = sock[k].got /\ held' = held
    BY <1>0, <1>5, SendStep DEF registry
  <2> QED BY <1>5, <2>1, SendReads, FramesKept
<1>6. ASSUME NEW k \in Sock, Lookup(k) PROVE Frames'
  <2>1. /\ \A j \in Sock \ {k} : sock'[j] = sock[j]
        /\ sock'[k].b = sock[k].b /\ sock'[k].side = sock[k].side
        /\ sock'[k].in \in {sock[k].in, <<>>} /\ sock'[k].flush = sock[k].flush /\ sock'[k].early = sock[k].early
        /\ sock'[k].queue = sock[k].queue /\ sock'[k].got = sock[k].got /\ held' = held
        /\ sock[k].at # "none"
    BY <1>0, <1>6, LookupStep DEF registry
  <2>2. Reads
    BY <2>1 DEF Reads
  <2> QED BY <2>1, <2>2, SettledStep
<1>7. ASSUME NEW k \in Sock, Leave(k) PROVE Frames'
  <2>1. /\ \A j \in Sock \ {k} : sock'[j] = sock[j]
        /\ sock'[k].b = sock[k].b /\ sock'[k].side = sock[k].side
        /\ sock'[k].in = <<>> /\ sock'[k].flush = sock[k].flush /\ sock'[k].early = sock[k].early
        /\ sock'[k].queue = <<>> /\ sock'[k].got = sock[k].got
        /\ sock[k].at # "none"
    BY <1>0, <1>7, LeaveStep
  <2>2. Reads
    BY <2>1 DEF Reads
  <2>3. \A b \in Bridge, s \in Side : held'[b][s] \in {<<>>, held[b][s]}
    <3>1. held' = held \/ held' = [held EXCEPT ![sock[k].b] = [w \in Side |-> <<>>]]
      BY <1>0, <1>7, LeaveEntry
    <3>2. held \in [Bridge -> [Side -> Seq(Nat)]]
      BY <1>0 DEF BridgeShape
    <3>3. ASSUME NEW b \in Bridge, NEW s \in Side, held' = [held EXCEPT ![sock[k].b] = [w \in Side |-> <<>>]]
          PROVE  held'[b][s] \in {<<>>, held[b][s]}
      <4>1. CASE b = sock[k].b
        BY <3>2, <3>3, <4>1
      <4>2. CASE b # sock[k].b
        BY <3>2, <3>3, <4>2
      <4> QED BY <4>1, <4>2
    <3> QED BY <3>1, <3>3
  <2> QED BY <2>1, <2>2, <2>3, SettledStep
<1>8. ASSUME NEW k \in Sock, Join(k) \/ Flush(k) \/ Relay(k) \/ Forward(k) PROVE Frames'
  BY <1>8, JoinFrames, FlushFrames, RelayFrames, ForwardFrames
<1> QED BY <1>2, <1>3, <1>4, <1>5, <1>6, <1>7, <1>8 DEF BridgeNext, Task, Lives

LEMMA FramesInit == BridgeInit => Calm /\ Frames
<1> SUFFICES ASSUME BridgeInit PROVE Calm /\ Frames
  OBVIOUS
<1>1. \A k \in Sock : sock[k] = NewSock
  BY DEF BridgeInit
<1>2. OneClient /\ \A k \in Sock : Quiet(k)
  BY <1>1 DEF OneClient, Quiet, NewSock, Living
<1>3. \A k \in Sock : InComes(k) /\ WasRead(k) /\ Lined(k)
  BY <1>1, NoFrames, LineOfNone DEF NewSock, InComes, WasRead, Lined
<1>4. \A b \in Bridge, s \in Side : Waits(b, s)
  BY NoFrames, LineOfNone DEF BridgeInit, Waits
<1> QED BY <1>2, <1>3, <1>4, BridgeShapeInit, PlacedInit DEF Calm, Frames

LEMMA FramesHold == BridgeSpec => [](Calm /\ Frames)
<1>1. Calm /\ [BridgeNext]_bridgeVars => Calm'
  BY ShapeStep, PlacedStep, OneClientStep, QuietStep DEF Calm
<1>2. Calm /\ Frames /\ [BridgeNext]_bridgeVars => (Calm /\ Frames)'
  <2>1. Calm' => BridgeShape'
    BY DEF Calm
  <2> QED BY <1>1, <2>1, FramesStep
<1> QED BY <1>2, FramesInit, PTL DEF BridgeSpec

\* At the client, a frame comes after a younger one only if it was held for the
\* socket and the younger one was not (OnlyHeldAreOvertaken).
THEOREM OnlyHeldComeLate == BridgeSpec => []OnlyHeldAreOvertaken
<1>1. Calm /\ Frames => OnlyHeldAreOvertaken
  <2> SUFFICES ASSUME Calm, Frames, NEW k \in Sock,
                      NEW i \in DOMAIN sock[k].got, NEW j \in DOMAIN sock[k].got,
                      i < j, sock[k].got[i] > sock[k].got[j]
               PROVE  sock[k].got[j] \in sock[k].early /\ sock[k].got[i] \notin sock[k].early
    BY DEF OnlyHeldAreOvertaken
  <2>1. sock[k].got \in Seq(Nat) /\ Line(sock[k].got, sock[k].early)
    BY CalmFacts DEF Frames, Lined
  <2>2. i \in 1..Len(sock[k].got) /\ j \in 1..Len(sock[k].got) /\ sock[k].got[i] \in Nat /\ sock[k].got[j] \in Nat
    BY <2>1
  <2>3. Before(sock[k].got[i], sock[k].got[j], sock[k].early)
    BY <2>1, <2>2 DEF Line
  <2> QED BY <2>2, <2>3 DEF Before
<1> QED BY <1>1, FramesHold, PTL


-----------------------------------------------------------------------------
(* A bridge is a pipe.                                                       *)

There == {"flush", "open", "leaving", "done"}
Over(k) == sock[k].client = "gone" \/ sock[k].at \in {"leaving", "done"}

PipeGoes(b) == [PipeOf(b)!Next]_(PipeOf(b)!pipe)

LEMMA ClientIsAlive ==
    \A b, s : ClientOf(b, s) = {k \in Sock : sock[k].b = b /\ sock[k].side = s /\ Living(k)}
  BY DEF ClientOf, Living

LEMMA TheClient ==
    ASSUME Calm, NEW k \in Sock, Living(k), NEW b, NEW s \in Side, sock[k].b = b, sock[k].side = s
    PROVE  /\ ClientOf(b, s) = {k}
           /\ SentBy(b)[s] = sock[k].sent /\ GotFrom(b)[Other(s)] = sock[k].got
<1>1. ClientOf(b, s) = {k}
  BY ClientIsAlive, SameClient
<1>2. (CHOOSE j \in ClientOf(b, s) : TRUE) = k /\ ClientOf(b, s) # {}
  BY <1>1
<1>3. Other(s) \in Side /\ Other(Other(s)) = s
  BY Others
<1> QED BY <1>1, <1>2, <1>3 DEF SentBy, GotFrom

LEMMA SameFrames ==
    ASSUME NEW b,
           \A s \in Side :
              \/ /\ ClientOf(b, s)' = ClientOf(b, s)
                 /\ \A j \in ClientOf(b, s) : sock'[j].sent = sock[j].sent /\ sock'[j].got = sock[j].got
              \/ /\ ClientOf(b, s) = {}
                 /\ \A j \in ClientOf(b, s)' : sock'[j].sent = 0 /\ sock'[j].got = <<>>
    PROVE  SentBy(b)' = SentBy(b) /\ GotFrom(b)' = GotFrom(b)
<1>1. ASSUME NEW s \in Side PROVE SentBy(b)'[s] = SentBy(b)[s] /\ GotFrom(b)'[Other(s)] = GotFrom(b)[Other(s)]
  <2>0. Other(s) \in Side /\ Other(Other(s)) = s
    BY Others
  <2>1. /\ SentBy(b)[s] = IF ClientOf(b, s) = {} THEN 0 ELSE sock[CHOOSE k \in ClientOf(b, s) : TRUE].sent
        /\ GotFrom(b)[Other(s)] = IF ClientOf(b, s) = {} THEN <<>> ELSE sock[CHOOSE k \in ClientOf(b, s) : TRUE].got
        /\ SentBy(b)'[s] = IF ClientOf(b, s)' = {} THEN 0 ELSE sock'[CHOOSE k \in ClientOf(b, s)' : TRUE].sent
        /\ GotFrom(b)'[Other(s)] = IF ClientOf(b, s)' = {} THEN <<>> ELSE sock'[CHOOSE k \in ClientOf(b, s)' : TRUE].got
    BY <2>0 DEF SentBy, GotFrom
  <2>2. /\ ClientOf(b, s) # {} => (CHOOSE k \in ClientOf(b, s) : TRUE) \in ClientOf(b, s)
        /\ ClientOf(b, s)' # {} => (CHOOSE k \in ClientOf(b, s)' : TRUE) \in ClientOf(b, s)'
    OBVIOUS
  <2>3. CASE /\ ClientOf(b, s)' = ClientOf(b, s)
             /\ \A j \in ClientOf(b, s) : sock'[j].sent = sock[j].sent /\ sock'[j].got = sock[j].got
    BY <2>1, <2>2, <2>3
  <2>4. CASE /\ ClientOf(b, s) = {}
             /\ \A j \in ClientOf(b, s)' : sock'[j].sent = 0 /\ sock'[j].got = <<>>
    BY <2>1, <2>2, <2>4
  <2> QED BY <2>3, <2>4
<1>2. \A e \in Side : GotFrom(b)'[e] = GotFrom(b)[e]
  BY <1>1, Others
<1> QED BY <1>1, <1>2 DEF SentBy, GotFrom

LEMMA MetMeans ==
    \A b : MetAt(b) = \A s \in Side : \E k \in Sock : sock[k].b = b /\ sock[k].side = s /\ Living(k) /\ sock[k].at \in There
  BY ClientIsAlive DEF MetAt, There

LEMMA CutMeans == \A b : CutAt(b) = \E k \in Sock : sock[k].b = b /\ Over(k)
  BY DEF CutAt, Over

LEMMA Marked ==
    ASSUME NEW b, SentBy(b)' = SentBy(b), GotFrom(b)' = GotFrom(b),
           MetAt(b) => MetAt(b)', CutAt(b) => CutAt(b)',
           (MetAt(b)' => MetAt(b)) \/ (CutAt(b)' => CutAt(b))
    PROVE  PipeGoes(b)
<1>1. MetAt(b) \in BOOLEAN /\ CutAt(b) \in BOOLEAN /\ MetAt(b)' \in BOOLEAN /\ CutAt(b)' \in BOOLEAN
  BY DEF MetAt, CutAt
<1>2. CASE MetAt(b)' = MetAt(b) /\ CutAt(b)' = CutAt(b)
  BY <1>2 DEF PipeGoes, PipeOf!pipe
<1>3. CASE ~MetAt(b) /\ MetAt(b)' /\ CutAt(b)' = CutAt(b)
  BY <1>1, <1>3 DEF PipeGoes, PipeOf!pipe, PipeOf!Next, PipeOf!Meet
<1>4. CASE ~CutAt(b) /\ CutAt(b)' /\ MetAt(b)' = MetAt(b)
  BY <1>1, <1>4 DEF PipeGoes, PipeOf!pipe, PipeOf!Next, PipeOf!Cut
<1> QED BY <1>1, <1>2, <1>3, <1>4

\* Steps that the pipes do not see.
LEMMA Unseen ==
    ASSUME \A j \in Sock : \/ /\ sock'[j].b = sock[j].b /\ sock'[j].side = sock[j].side
                              /\ sock'[j].at = sock[j].at /\ sock'[j].client = sock[j].client
                              /\ sock'[j].sent = sock[j].sent /\ sock'[j].got = sock[j].got
                           \/ /\ ~Living(j) /\ ~Over(j) /\ ~Living(j)' /\ ~Over(j)',
           NEW b
    PROVE  PipeGoes(b)
<1>1. \A s : ClientOf(b, s)' = ClientOf(b, s)
  <2>1. \A s : ClientOf(b, s)' = {k \in Sock : sock'[k].b = b /\ sock'[k].side = s /\ Living(k)'}
    BY DEF ClientOf, Living
  <2>2. \A j \in Sock : Living(j)' = Living(j) /\ (Living(j) => sock'[j].b = sock[j].b /\ sock'[j].side = sock[j].side)
    BY DEF Living
  <2>3. \A s : \A k \in Sock : sock'[k].b = b /\ sock'[k].side = s /\ Living(k)'
                             <=> sock[k].b = b /\ sock[k].side = s /\ Living(k)
    BY <2>2
  <2>4. \A s : ClientOf(b, s) = {k \in Sock : sock[k].b = b /\ sock[k].side = s /\ Living(k)}
    BY ClientIsAlive
  <2> QED BY <2>1, <2>3, <2>4
<1>2. \A s : \A j \in ClientOf(b, s) : sock'[j].sent = sock[j].sent /\ sock'[j].got = sock[j].got
  BY ClientIsAlive
<1>3. MetAt(b)' <=> MetAt(b)
  <2>1. \A s : \A j \in ClientOf(b, s) : sock'[j].at = sock[j].at
    BY ClientIsAlive
  <2> QED BY <1>1, <2>1 DEF MetAt
<1>4. CutAt(b)' <=> CutAt(b)
  <2>1. CutAt(b)' <=> \E k \in Sock : sock'[k].b = b /\ Over(k)'
    BY DEF CutAt, Over
  <2> QED BY <2>1, CutMeans DEF Over
<1>5. SentBy(b)' = SentBy(b) /\ GotFrom(b)' = GotFrom(b)
  BY <1>1, <1>2, SameFrames
<1> QED BY <1>3, <1>4, <1>5, Marked

\* Steps in which one socket comes or goes.
LEMMA OneMark ==
    ASSUME Calm, NEW k \in Sock, \A j \in Sock \ {k} : sock'[j] = sock[j],
           sock[k].at # "none", sock'[k].b = sock[k].b, sock'[k].side = sock[k].side,
           sock'[k].sent = sock[k].sent, sock'[k].got = sock[k].got,
           sock[k].client = "quit" => sock'[k].client = "quit",
           Living(k) => Living(k)', sock[k].at \in There => sock'[k].at \in There,
           Over(k) => Over(k)',
           \/ Over(k)' => Over(k)
           \/ Living(k)' /\ sock'[k].at \in There => Living(k) /\ sock[k].at \in There,
           NEW b
    PROVE  PipeGoes(b)
<1> DEFINE c == sock[k].b
<1> DEFINE u == sock[k].side
<1>0. u \in Side /\ sock[k].client # "none" /\ Quiet(k)
  BY CalmFacts DEF UsedHasBridge
<1>p. \A s : ClientOf(b, s)' = {j \in Sock : sock'[j].b = b /\ sock'[j].side = s /\ Living(j)'}
  BY DEF ClientOf, Living
<1>q. \A j \in Sock \ {k} : Living(j)' = Living(j) /\ Over(j)' = Over(j)
  BY DEF Living, Over
<1>1. ASSUME NEW s \in Side
      PROVE  \/ /\ ClientOf(b, s)' = ClientOf(b, s)
                /\ \A j \in ClientOf(b, s) : sock'[j].sent = sock[j].sent /\ sock'[j].got = sock[j].got
             \/ /\ ClientOf(b, s) = {}
                /\ \A j \in ClientOf(b, s)' : sock'[j].sent = 0 /\ sock'[j].got = <<>>
  <2>1. \A j \in ClientOf(b, s) : sock'[j].sent = sock[j].sent /\ sock'[j].got = sock[j].got
    BY ClientIsAlive
  <2>2. CASE Living(k)' = Living(k)
    <3>1. \A j \in Sock : sock'[j].b = sock[j].b /\ sock'[j].side = sock[j].side /\ Living(j)' = Living(j)
      BY <1>q, <2>2
    <3>2. \A j \in Sock : sock'[j].b = b /\ sock'[j].side = s /\ Living(j)'
                          <=> sock[j].b = b /\ sock[j].side = s /\ Living(j)
      BY <3>1
    <3>3. ClientOf(b, s) = {j \in Sock : sock[j].b = b /\ sock[j].side = s /\ Living(j)}
      BY ClientIsAlive
    <3>4. ClientOf(b, s)' = ClientOf(b, s)
      BY <1>p, <3>2, <3>3
    <3> QED BY <2>1, <3>4
  <2>3. CASE ~Living(k) /\ Living(k)'
    <3>1. CASE b = c /\ s = u
      <4>1. ASSUME NEW j \in Sock, Living(j), sock[j].b = b, sock[j].side = s PROVE FALSE
        <5>1. j # k /\ sock[j].at # "none"
          BY <2>3, <4>1, AliveIsUsed
        <5>2. sock[k].client # "quit" /\ sock[j].client # "quit"
          BY <2>3, <4>1 DEF Living
        <5> QED BY <3>1, <4>1, <5>1, <5>2 DEF Calm, OneClient
      <4>2. ClientOf(b, s) = {}
        BY <4>1, ClientIsAlive
      <4>3. \A j \in ClientOf(b, s)' : j = k
        BY <1>p, <1>q, <4>1
      <4>4. sock'[k].sent = 0 /\ sock'[k].got = <<>>
        BY <1>0, <2>3 DEF Quiet
      <4> QED BY <4>2, <4>3, <4>4
    <3>2. CASE b # c \/ s # u
      <4>1. \A j \in Sock : sock'[j].b = b /\ sock'[j].side = s /\ Living(j)'
                            <=> sock[j].b = b /\ sock[j].side = s /\ Living(j)
        BY <1>q, <3>2
      <4>2. ClientOf(b, s) = {j \in Sock : sock[j].b = b /\ sock[j].side = s /\ Living(j)}
        BY ClientIsAlive
      <4>3. ClientOf(b, s)' = ClientOf(b, s)
        BY <1>p, <4>1, <4>2
      <4> QED BY <2>1, <4>3
    <3> QED BY <3>1, <3>2
  <2> QED BY <2>2, <2>3 DEF Living
<1>2. SentBy(b)' = SentBy(b) /\ GotFrom(b)' = GotFrom(b)
  BY <1>1, SameFrames
<1>3. MetAt(b)' = \A s \in Side : \E j \in Sock : sock'[j].b = b /\ sock'[j].side = s /\ Living(j)' /\ sock'[j].at \in There
  BY <1>p DEF MetAt, There
<1>4. CutAt(b)' = \E j \in Sock : sock'[j].b = b /\ Over(j)'
  BY DEF CutAt, Over
<1>5. MetAt(b) => MetAt(b)'
  <2> SUFFICES ASSUME MetAt(b), NEW s \in Side
               PROVE  \E j \in Sock : sock'[j].b = b /\ sock'[j].side = s /\ Living(j)' /\ sock'[j].at \in There
    BY <1>3
  <2>1. PICK j \in Sock : sock[j].b = b /\ sock[j].side = s /\ Living(j) /\ sock[j].at \in There
    BY MetMeans
  <2>2. sock'[j].b = b /\ sock'[j].side = s /\ Living(j)' /\ sock'[j].at \in There
    BY <1>q, <2>1
  <2> QED BY <2>2
<1>6. CutAt(b) => CutAt(b)'
  BY <1>4, <1>q, CutMeans
<1>7. CASE Over(k)' => Over(k)
  <2>1. CutAt(b)' => CutAt(b)
    BY <1>4, <1>7, <1>q, CutMeans
  <2> QED BY <1>2, <1>5, <1>6, <2>1, Marked
<1>8. CASE Living(k)' /\ sock'[k].at \in There => Living(k) /\ sock[k].at \in There
  <2>1. MetAt(b)' => MetAt(b)
    <3> SUFFICES ASSUME MetAt(b)', NEW s \in Side
                 PROVE  \E j \in Sock : sock[j].b = b /\ sock[j].side = s /\ Living(j) /\ sock[j].at \in There
      BY MetMeans
    <3>1. PICK j \in Sock : sock'[j].b = b /\ sock'[j].side = s /\ Living(j)' /\ sock'[j].at \in There
      BY <1>3
    <3>2. sock[j].b = b /\ sock[j].side = s /\ Living(j) /\ sock[j].at \in There
      BY <1>8, <1>q, <3>1
    <3> QED BY <3>2
  <2> QED BY <1>2, <1>5, <1>6, <2>1, Marked
<1> QED BY <1>7, <1>8


\* A pipe none of whose sockets takes part.
LEMMA ElseWhere ==
    ASSUME NEW k \in Sock, \A j \in Sock \ {k} : sock'[j] = sock[j], sock'[k].b = sock[k].b,
           sock'[k].side = sock[k].side,
           NEW b, b # sock[k].b
    PROVE  PipeGoes(b)
<1>1. \A s : ClientOf(b, s)' = ClientOf(b, s)
  <2>1. \A s : ClientOf(b, s)' = {j \in Sock : sock'[j].b = b /\ sock'[j].side = s /\ sock'[j].client \in {"up", "gone"}}
    BY DEF ClientOf
  <2> QED BY <2>1 DEF ClientOf
<1>2. \A s : k \notin ClientOf(b, s)
  BY DEF ClientOf
<1>3. \A s : \A j \in ClientOf(b, s) : sock'[j] = sock[j]
  BY <1>2 DEF ClientOf
<1>4. MetAt(b)' <=> MetAt(b)
  BY <1>1, <1>3 DEF MetAt
<1>5. CutAt(b)' <=> CutAt(b)
  <2>1. CutAt(b)' <=> \E j \in Sock : sock'[j].b = b /\ (sock'[j].client = "gone" \/ sock'[j].at \in {"leaving", "done"})
    BY DEF CutAt
  <2> QED BY <2>1 DEF CutAt
<1>6. SentBy(b)' = SentBy(b) /\ GotFrom(b)' = GotFrom(b)
  BY <1>1, <1>3, SameFrames
<1> QED BY <1>4, <1>5, <1>6, Marked

LEMMA SendPipe ==
    ASSUME Calm, Calm', NEW k \in Sock, SendFrame(k), NEW b
    PROVE  PipeGoes(b)
<1>0. /\ \A j \in Sock \ {k} : sock'[j] = sock[j]
      /\ sock'[k].b = sock[k].b /\ sock'[k].side = sock[k].side /\ sock'[k].at = sock[k].at
      /\ sock[k].client = "up" /\ sock'[k].client = "up"
      /\ sock'[k].sent = sock[k].sent + 1 /\ sock'[k].got = sock[k].got
  BY SendStep DEF Calm
<1>1. CASE b # sock[k].b
  BY <1>0, <1>1, ElseWhere
<1>2. CASE b = sock[k].b
  <2> DEFINE u == sock[k].side
  <2>0. u \in Side /\ Other(u) \in Side /\ Other(u) # u /\ Other(Other(u)) = u /\ \A s \in Side : s = u \/ s = Other(u)
    BY CalmFacts, Others
  <2>1. Living(k) /\ Living(k)' /\ \A j \in Sock : Living(j)' = Living(j)
    BY <1>0 DEF Living
  <2>2. \A s : ClientOf(b, s)' = ClientOf(b, s)
    <3>1. \A s : ClientOf(b, s)' = {j \in Sock : sock'[j].b = b /\ sock'[j].side = s /\ Living(j)'}
      BY DEF ClientOf, Living
    <3>2. \A j \in Sock : sock'[j].b = sock[j].b /\ sock'[j].side = sock[j].side
      BY <1>0
    <3> DEFINE m(s) == {j \in Sock : sock'[j].b = b /\ sock'[j].side = s /\ Living(j)'}
    <3>3. \A s : m(s) = {j \in Sock : sock[j].b = b /\ sock[j].side = s /\ Living(j)}
      BY <2>1, <3>2
    <3> HIDE DEF m
    <3>4. \A s : ClientOf(b, s)' = m(s)
      BY <3>1 DEF m
    <3> QED BY <3>3, <3>4, ClientIsAlive
  <2>3. ClientOf(b, u) = {k} /\ SentBy(b)[u] = sock[k].sent
    BY <1>2, <2>0, <2>1, TheClient
  <2>4. SentBy(b)'[u] = sock'[k].sent
    <3>1. (CHOOSE j \in ClientOf(b, u) : TRUE) = k
      BY <2>3
    <3> QED BY <2>0, <2>2, <2>3, <3>1 DEF SentBy
  <2>5. \A j \in ClientOf(b, Other(u)) : j # k
    BY <2>0 DEF ClientOf
  <2>6. SentBy(b)'[Other(u)] = SentBy(b)[Other(u)]
    <3>1. CASE ClientOf(b, Other(u)) = {}
      BY <2>0, <2>2, <3>1 DEF SentBy
    <3>2. CASE ClientOf(b, Other(u)) # {}
      <4>1. (CHOOSE j \in ClientOf(b, Other(u)) : TRUE) \in ClientOf(b, Other(u))
        BY <3>2
      <4> DEFINE x == CHOOSE j \in ClientOf(b, Other(u)) : TRUE
      <4>2. x \in Sock \ {k}
        BY <4>1, <2>5 DEF ClientOf
      <4>3. SentBy(b)[Other(u)] = sock[x].sent /\ SentBy(b)'[Other(u)] = sock'[x].sent
        BY <2>0, <2>2, <3>2 DEF SentBy
      <4> QED BY <1>0, <4>2, <4>3
    <3> QED BY <3>1, <3>2
  <2>7. GotFrom(b)' = GotFrom(b)
    <3>1. \A s \in Side : sock'[CHOOSE j \in ClientOf(b, Other(s)) : TRUE].got = sock[CHOOSE j \in ClientOf(b, Other(s)) : TRUE].got \/ ClientOf(b, Other(s)) = {}
      <4>1. \A s : ClientOf(b, s) # {} => (CHOOSE j \in ClientOf(b, s) : TRUE) \in ClientOf(b, s)
        OBVIOUS
      <4>2. \A s : ClientOf(b, s) # {} => (CHOOSE j \in ClientOf(b, s) : TRUE) \in Sock
        BY <4>1 DEF ClientOf
      <4>3. \A j \in Sock : sock'[j].got = sock[j].got
        BY <1>0
      <4> QED BY <4>2, <4>3
    <3> QED BY <2>2, <3>1 DEF GotFrom
  <2>8. SentBy(b)' = [SentBy(b) EXCEPT ![u] = @ + 1]
    <3>1. SentBy(b) = [s \in Side |-> SentBy(b)[s]] /\ SentBy(b)' = [s \in Side |-> SentBy(b)'[s]]
      BY DEF SentBy
    <3> QED BY <1>0, <2>0, <2>3, <2>4, <2>6, <3>1
  <2>9. MetAt(b)' = MetAt(b)
    <3>1. \A s : \A j \in ClientOf(b, s) : sock'[j].at = sock[j].at
      BY <1>0 DEF ClientOf
    <3> QED BY <2>2, <3>1 DEF MetAt
  <2>10. CutAt(b)' = CutAt(b)
    <3>1. CutAt(b)' = \E j \in Sock : sock'[j].b = b /\ Over(j)'
      BY DEF CutAt, Over
    <3>2. \A j \in Sock : sock'[j].b = sock[j].b /\ Over(j)' = Over(j)
      BY <1>0 DEF Over
    <3> QED BY <3>1, <3>2, CutMeans
  <2> QED BY <2>0, <2>7, <2>8, <2>9, <2>10 DEF PipeGoes, PipeOf!Next, PipeOf!Send
<1> QED BY <1>1, <1>2

LEMMA RelayPipe ==
    ASSUME Calm, Frames, NEW k \in Sock, Relay(k), NEW b
    PROVE  PipeGoes(b)
<1> DEFINE f == Head(sock[k].queue)
<1>0. /\ \A j \in Sock \ {k} : sock'[j] = sock[j]
      /\ sock[k].at = "open" /\ sock'[k].at = "open"
      /\ sock'[k].b = sock[k].b /\ sock'[k].side = sock[k].side
      /\ sock'[k].client = sock[k].client /\ sock'[k].sent = sock[k].sent
      /\ sock[k].queue # <<>>
      /\ sock'[k].got = IF sock[k].client = "up" THEN Append(sock[k].got, f) ELSE sock[k].got
  BY RelayStep DEF Calm
<1>1. CASE b # sock[k].b
  BY <1>0, <1>1, ElseWhere
<1>2. CASE sock[k].client # "up"
  BY <1>0, <1>2, Unseen
<1>3. CASE b = sock[k].b /\ sock[k].client = "up"
  <2> DEFINE u == sock[k].side
  <2> DEFINE e == Other(u)
  <2>0. u \in Side /\ e \in Side /\ e # u /\ Other(e) = u /\ \A s \in Side : s = u \/ s = e
    BY CalmFacts, Others
  <2>1. Living(k) /\ \A j \in Sock : Living(j)' = Living(j)
    BY <1>0, <1>3 DEF Living
  <2>2. \A s : ClientOf(b, s)' = ClientOf(b, s)
    <3>1. \A s : ClientOf(b, s)' = {j \in Sock : sock'[j].b = b /\ sock'[j].side = s /\ Living(j)'}
      BY DEF ClientOf, Living
    <3>2. \A j \in Sock : sock'[j].b = sock[j].b /\ sock'[j].side = sock[j].side
      BY <1>0
    <3> DEFINE m(s) == {j \in Sock : sock'[j].b = b /\ sock'[j].side = s /\ Living(j)'}
    <3>3. \A s : m(s) = {j \in Sock : sock[j].b = b /\ sock[j].side = s /\ Living(j)}
      BY <2>1, <3>2
    <3> HIDE DEF m
    <3>4. \A s : ClientOf(b, s)' = m(s)
      BY <3>1 DEF m
    <3> QED BY <3>3, <3>4, ClientIsAlive
  <2>3. ClientOf(b, u) = {k} /\ GotFrom(b)[e] = sock[k].got
    BY <1>3, <2>0, <2>1, TheClient
  <2>4. GotFrom(b)'[e] = Append(sock[k].got, f)
    <3>1. (CHOOSE j \in ClientOf(b, u) : TRUE) = k
      BY <2>3
    <3>2. GotFrom(b)'[e] = sock'[k].got
      BY <2>0, <2>2, <2>3, <3>1 DEF GotFrom
    <3> QED BY <1>0, <1>3, <3>2
  <2>5. GotFrom(b)'[u] = GotFrom(b)[u]
    <3>1. CASE ClientOf(b, e) = {}
      BY <2>0, <2>2, <3>1 DEF GotFrom
    <3>2. CASE ClientOf(b, e) # {}
      <4>1. (CHOOSE j \in ClientOf(b, e) : TRUE) \in ClientOf(b, e)
        BY <3>2
      <4>2. (CHOOSE j \in ClientOf(b, e) : TRUE) \in Sock \ {k}
        BY <4>1, <2>0 DEF ClientOf
      <4> QED BY <1>0, <2>0, <2>2, <3>2, <4>2 DEF GotFrom
    <3> QED BY <3>1, <3>2
  <2>6. SentBy(b)' = SentBy(b)
    <3>1. \A s \in Side : sock'[CHOOSE j \in ClientOf(b, s) : TRUE].sent = sock[CHOOSE j \in ClientOf(b, s) : TRUE].sent \/ ClientOf(b, s) = {}
      <4>1. \A s : ClientOf(b, s) # {} => (CHOOSE j \in ClientOf(b, s) : TRUE) \in ClientOf(b, s)
        OBVIOUS
      <4>2. \A s : ClientOf(b, s) # {} => (CHOOSE j \in ClientOf(b, s) : TRUE) \in Sock
        BY <4>1 DEF ClientOf
      <4>3. \A j \in Sock : sock'[j].sent = sock[j].sent
        BY <1>0
      <4> QED BY <4>2, <4>3
    <3> QED BY <2>2, <3>1 DEF SentBy
  <2>7. GotFrom(b)' = [GotFrom(b) EXCEPT ![e] = Append(@, f)]
    <3>1. GotFrom(b) = [s \in Side |-> GotFrom(b)[s]] /\ GotFrom(b)' = [s \in Side |-> GotFrom(b)'[s]]
      BY DEF GotFrom
    <3> HIDE DEF f
    <3> QED BY <2>0, <2>3, <2>4, <2>5, <3>1
  <2>8. MetAt(b)' = MetAt(b)
    <3>1. \A s : \A j \in ClientOf(b, s) : sock'[j].at = sock[j].at
      BY <1>0 DEF ClientOf
    <3> QED BY <2>2, <3>1 DEF MetAt
  <2>9. CutAt(b)' = CutAt(b)
    <3>1. CutAt(b)' = \E j \in Sock : sock'[j].b = b /\ Over(j)'
      BY DEF CutAt, Over
    <3>2. \A j \in Sock : sock'[j].b = sock[j].b /\ Over(j)' = Over(j)
      BY <1>0 DEF Over
    <3> QED BY <3>1, <3>2, CutMeans
  <2>10. f \in Range(sock[k].queue) /\ f \in Nat
    BY <1>0, CalmFacts, RangeOfRest
  <2>11. Read(f, b, e)
    BY <1>0, <1>3, <2>10 DEF Frames, WasRead, Passed
  <2>12. PICK x \in Sock : sock[x].b = b /\ sock[x].side = e /\ Talks(x) /\ f \in 1..sock[x].sent
    BY <2>11 DEF Read, FromClient
  <2>13. f \in 1..SentBy(b)[e]
    <3>1. Living(x)
      BY <2>12 DEF Talks
    <3> QED BY <2>0, <2>12, <3>1, TheClient
  <2>14. MetAt(b)
    <3>1. sock[k].at \in There /\ sock[x].at \in There /\ Living(x)
      BY <1>0, <2>12 DEF There, Talks
    <3> QED BY <1>3, <2>0, <2>1, <2>12, <3>1, MetMeans
  <2>15. f \notin Range(sock[k].got)
    <3>1. \A y \in Range(sock[k].got) : Before(y, f, sock[k].early)
      BY <2>10 DEF Frames, Lined
    <3>2. ~Before(f, f, sock[k].early)
      BY <2>10 DEF Before
    <3> QED BY <3>1, <3>2
  <2>16. f \in 1..SentBy(b)[e] \ Range(GotFrom(b)[e])
    BY <2>3, <2>13, <2>15
  <2>17. PipeOf(b)!Arrive(e)
    <3>1. PipeOf(b)!Range(GotFrom(b)[e]) = Range(GotFrom(b)[e])
      BY DEF PipeOf!Range, Range
    <3>2. \E x1 \in 1..SentBy(b)[e] \ PipeOf(b)!Range(GotFrom(b)[e]) : GotFrom(b)' = [GotFrom(b) EXCEPT ![e] = Append(@, x1)]
      BY <2>7, <2>16, <3>1
    <3> QED BY <2>6, <2>8, <2>9, <2>14, <3>2 DEF PipeOf!Arrive
  <2> QED BY <2>0, <2>17 DEF PipeGoes, PipeOf!Next
<1> QED BY <1>1, <1>2, <1>3

LEMMA PipeStep ==
    Calm /\ Frames /\ Calm' /\ [BridgeNext]_bridgeVars => \A b \in Bridge : PipeGoes(b)
<1> SUFFICES ASSUME Calm, Frames, Calm', [BridgeNext]_bridgeVars, NEW b \in Bridge PROVE PipeGoes(b)
  OBVIOUS
<1>0. BridgeShape /\ Placed
  BY DEF Calm
<1>1. CASE UNCHANGED bridgeVars \/ Poll \/ \E c \in Bridge : Request(c) \/ ExpirePending(c)
  <2>1. sock' = sock
    BY <1>1 DEF Request, ExpirePending, Poll, registry, bridgeVars
  <2> QED BY <2>1, Unseen
<1> SUFFICES ASSUME BridgeNext PROVE PipeGoes(b)
  BY <1>1
<1>3. ASSUME NEW k \in Sock, NEW c \in Bridge, NEW s \in Side, Dial(k, c, s) PROVE PipeGoes(b)
  <2>1. /\ \A j \in Sock \ {k} : sock'[j] = sock[j]
        /\ sock[k].at = "none" /\ sock'[k].at = "upgraded" /\ sock'[k].client = "dialing"
    BY <1>0, <1>3, DialStep
  <2>2. ~Living(k) /\ ~Over(k) /\ ~Living(k)' /\ ~Over(k)'
    BY <2>1, CalmFacts DEF UsedHasBridge, Living, Over
  <2> QED BY <2>1, <2>2, Unseen
<1>4. ASSUME NEW k \in Sock, Lives(k) PROVE PipeGoes(b)
  <2>0. UsedHasBridge(k)
    BY CalmFacts
  <2>1. /\ \A j \in Sock \ {k} : sock'[j] = sock[j]
        /\ sock[k].at # "none" /\ sock'[k].b = sock[k].b /\ sock'[k].side = sock[k].side
        /\ sock'[k].sent = sock[k].sent /\ sock'[k].got = sock[k].got
    BY <1>0, <1>4, <2>0, LifeStep DEF UsedHasBridge
  <2>2. /\ sock[k].client = "quit" => sock'[k].client = "quit"
        /\ Living(k) => Living(k)'
        /\ sock[k].at \in There => sock'[k].at \in There
        /\ Over(k) => Over(k)'
        /\ \/ Over(k)' => Over(k)
           \/ Living(k)' /\ sock'[k].at \in There => Living(k) /\ sock[k].at \in There
    BY <1>0, <1>4, LifeStep DEF Living, Over, There
  <2> QED BY <2>1, <2>2, OneMark
<1>5. ASSUME NEW k \in Sock, Lookup(k) PROVE PipeGoes(b)
  <2>1. /\ \A j \in Sock \ {k} : sock'[j] = sock[j]
        /\ sock[k].at # "none" /\ sock'[k].b = sock[k].b /\ sock'[k].side = sock[k].side
        /\ sock'[k].sent = sock[k].sent /\ sock'[k].got = sock[k].got
    BY <1>0, <1>5, LookupStep
  <2>2. /\ sock[k].client = "quit" => sock'[k].client = "quit"
        /\ Living(k) => Living(k)'
        /\ sock[k].at \in There => sock'[k].at \in There
        /\ Over(k) => Over(k)'
        /\ \/ Over(k)' => Over(k)
           \/ Living(k)' /\ sock'[k].at \in There => Living(k) /\ sock[k].at \in There
    BY <1>0, <1>5, LookupStep DEF Living, Over, There, AtClose
  <2> QED BY <2>1, <2>2, OneMark
<1>6. ASSUME NEW k \in Sock, Join(k) PROVE PipeGoes(b)
  <2>1. /\ \A j \in Sock \ {k} : sock'[j] = sock[j]
        /\ sock[k].at = "known" /\ sock'[k].b = sock[k].b /\ sock'[k].side = sock[k].side
        /\ sock'[k].sent = sock[k].sent /\ sock'[k].got = sock[k].got
        /\ sock'[k].at = "flush" /\ sock'[k].client = sock[k].client
    BY <1>0, <1>6, JoinStep
  <2>2. (Living(k) => Living(k)') /\ (Over(k) => Over(k)') /\ (Over(k)' => Over(k)) /\ sock[k].at \notin There
    BY <2>1 DEF Living, Over, There
  <2> QED BY <2>1, <2>2, OneMark
<1>7. ASSUME NEW k \in Sock, Flush(k) PROVE PipeGoes(b)
  <2>1. /\ \A j \in Sock \ {k} : sock'[j] = sock[j]
        /\ sock[k].at = "flush" /\ sock'[k].b = sock[k].b /\ sock'[k].side = sock[k].side
        /\ sock'[k].sent = sock[k].sent /\ sock'[k].got = sock[k].got
        /\ sock'[k].at \in {"open", "flush"} /\ sock'[k].client = sock[k].client
    BY <1>0, <1>7, FlushStep
  <2>2. (Living(k) => Living(k)') /\ (Over(k) => Over(k)') /\ (Over(k)' => Over(k)) /\ sock'[k].at \in There
    BY <2>1 DEF Living, Over, There
  <2> QED BY <2>1, <2>2, OneMark
<1>8. ASSUME NEW k \in Sock, Leave(k) PROVE PipeGoes(b)
  <2>0. sock[k].client # "dialing" /\ UsedHasBridge(k)
    BY <1>0, <1>8, CalmFacts, LeaveStep DEF Quiet
  <2>1. /\ \A j \in Sock \ {k} : sock'[j] = sock[j]
        /\ sock[k].at = "leaving" /\ sock'[k].b = sock[k].b /\ sock'[k].side = sock[k].side
        /\ sock'[k].sent = sock[k].sent /\ sock'[k].got = sock[k].got
        /\ sock'[k].at = "done" /\ sock'[k].client = AtClose(sock[k].client)
    BY <1>0, <1>8, LeaveStep
  <2>2. /\ sock[k].client = "quit" => sock'[k].client = "quit"
        /\ Living(k) => Living(k)'
        /\ sock'[k].at \in There
        /\ Over(k) /\ Over(k)'
    BY <2>1 DEF Living, Over, There, AtClose
  <2> QED BY <2>1, <2>2, OneMark
<1>9. ASSUME NEW k \in Sock, Forward(k) PROVE PipeGoes(b)
  <2>1. /\ sock[k].at = "open" /\ sock[k].in # <<>>
        /\ sock'[k].b = sock[k].b /\ sock'[k].side = sock[k].side
        /\ sock'[k].client = sock[k].client /\ sock'[k].sent = sock[k].sent /\ sock'[k].got = sock[k].got
        /\ (\E peer \in Sock : Passes(k, peer)) \/ HoldsFrame(k) \/ Stops(k)
    BY <1>0, <1>9, ForwardStep
  <2>2. CASE Stops(k)
    <3>1. /\ \A j \in Sock \ {k} : sock'[j] = sock[j]
          /\ sock'[k].at = "leaving"
      BY <2>2 DEF Stops
    <3>2. /\ (Living(k) => Living(k)') /\ (Over(k) => Over(k)') /\ sock'[k].at \in There
          /\ (Living(k)' => Living(k)) /\ sock[k].at \in There
      BY <2>1, <3>1 DEF Living, Over, There
    <3> QED BY <2>1, <3>1, <3>2, OneMark
  <2>3. CASE HoldsFrame(k)
    BY <2>1, <2>3, Unseen DEF HoldsFrame
  <2>4. ASSUME NEW p \in Sock, Passes(k, p) PROVE PipeGoes(b)
    <3>1. \A j \in Sock : /\ sock'[j].b = sock[j].b /\ sock'[j].side = sock[j].side
                          /\ sock'[j].at = sock[j].at /\ sock'[j].client = sock[j].client
                          /\ sock'[j].sent = sock[j].sent /\ sock'[j].got = sock[j].got
      BY <2>1, <2>4 DEF Passes
    <3> QED BY <3>1, Unseen
  <2> QED BY <2>1, <2>2, <2>3, <2>4
<1>10. ASSUME NEW k \in Sock, SendFrame(k) \/ Relay(k) PROVE PipeGoes(b)
  BY <1>10, SendPipe, RelayPipe
<1> QED BY <1>3, <1>4, <1>5, <1>6, <1>7, <1>8, <1>9, <1>10, <1>1 DEF BridgeNext, Task, Lives

LEMMA PipeInit == BridgeInit => \A b \in Bridge : PipeOf(b)!Init
<1> SUFFICES ASSUME BridgeInit, NEW b \in Bridge PROVE PipeOf(b)!Init
  OBVIOUS
<1>1. \A k \in Sock : sock[k] = NewSock
  BY DEF BridgeInit
<1>2. \A s : ClientOf(b, s) = {}
  BY <1>1 DEF ClientOf, NewSock
<1>3. ~CutAt(b)
  BY <1>1 DEF CutAt, NewSock
<1>4. ~MetAt(b)
  BY <1>2 DEF MetAt, Side
<1>5. SentBy(b) = [e \in Side |-> 0] /\ GotFrom(b) = [e \in Side |-> <<>>]
  BY <1>2 DEF SentBy, GotFrom
<1> QED BY <1>3, <1>4, <1>5 DEF PipeOf!Init

\* Each bridge implements BytePipe (BridgeIsPipe): whatever the sockets and the
\* registry do, a frame that comes out is one the other side's client sent, and
\* it comes out once.
THEOREM BridgeIsAPipe == BridgeSpec => BridgeIsPipe
<1>1. BridgeInit => \A b \in Bridge : PipeOf(b)!Init
  BY PipeInit
<1>2. (Calm /\ Frames) /\ (Calm /\ Frames)' /\ [BridgeNext]_bridgeVars
          => [\A b \in Bridge : [PipeOf(b)!Next]_(PipeOf(b)!pipe)]_bridgeVars
  BY PipeStep DEF PipeGoes
<1> QED BY <1>1, <1>2, FramesHold, PTL DEF BridgeSpec, BridgeIsPipe
=============================================================================
