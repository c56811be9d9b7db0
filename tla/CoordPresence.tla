--------------------------- MODULE CoordPresence ---------------------------
(***************************************************************************)
(* Presence on the coordination servers: coord_runtime.rs of one device    *)
(* (register worker, self-lookup poll, heartbeat threads, the upkeep tick, *)
(* log out) and the rows and challenges of ghalbol_coord.                  *)
(*                                                                         *)
(* Each thread is an actor with a program counter. A step is what it does  *)
(* between two HTTP answers or two acquisitions of heartbeat_join; `who`   *)
(* is the identity a thread took and still uses. Clock is the 25 seconds of  *)
(* a heartbeat, Pause the seconds of the throttles. Branches behind        *)
(* local_relay_circuit_listening are dead (nothing sets the flag), and so  *)
(* is every forced register.                                               *)
(***************************************************************************)
EXTENDS Naturals, FiniteSets, FiniteSetsExt

CONSTANTS
    Ident,          \* identities that may log in on the device
    Server,         \* coordination servers, as numbers in the order of the list
    Addr,           \* public addresses the device may get
    OldAddr,        \* the address of an earlier process of the device
    Hb,             \* slots for heartbeat threads
    NoOne,
    PollTries,      \* self-lookups of one poll
    Budgets         \* bounds of the environment: how often it may do what, at most

PresenceTtl == 3            \* presence_ttl: 90 seconds, in Clock steps
Stale == 3          \* PRESENCE_STALE_MS: 70 seconds
Actor == {"reg", "poll", "call"} \cup Hb
NoPresence == [eps |-> {}, age |-> 0]
NoWork == [eps |-> {}, todo |-> {}, on |-> {}]

CoordAssumption ==
    /\ IsFiniteSet(Hb) /\ Hb \cap {"reg", "poll", "call"} = {}
    /\ Server \subseteq Nat /\ Server # {} /\ IsFiniteSet(Server)
    /\ NoOne \notin Ident
    /\ Budgets \subseteq [login : Nat, logout : Nat, fault : Nat, call : Nat]
    /\ PollTries \in Nat

ASSUME CoordAssumption

VARIABLES
    session,        \* session_runtime: the unlocked identity
    ui,             \* the UI thread: at rest, or at a line of a log out
    eps,            \* CoordGlobals.endpoints: only ever grows
    registered, registeredOn, regPending,
    fails, okAge,   \* COORD_CONSEC_FAILS (to 3), age of COORD_LAST_OK_MS
    lastTry,        \* age of COORD_LAST_REG_ATTEMPT_MS: 0 < 2 s, 1 < 10 s, 2
    recoverRecent, pollRecent, tries,
    pc, who,        \* of each actor
    reg,            \* locals of the register worker
    hbStop, hbJoin, made,
    rows, nonce, serves,    \* of the servers
    listed,         \* the device has the list of servers
    left,           \* of the budget
    strayed         \* history since the last log out began, see Late and MistakenFor

flags == <<registered, registeredOn, regPending, fails, okAge>>
throttles == <<lastTry, recoverRecent, pollRecent, tries>>
threads == <<hbStop, hbJoin, made>>
servers == <<rows, nonce, serves>>
counts == <<listed, left>>
world == <<counts, strayed>>
coordVars == <<session, ui, eps, flags, throttles, pc, who, reg, threads, servers, world>>

-----------------------------------------------------------------------------
Spend(k) == left[k] > 0 /\ left' = [left EXCEPT ![k] = @ - 1]

Busy == pc["reg"] # "idle"
Throttled(isReg) == lastTry = 0 \/ (lastTry = 1 /\ isReg)
Spawns(isReg) == ~Throttled(isReg) /\ ~Busy

\* spawn_register_presence_inner(false), called by a step that leaves the
\* program counters at f, finds COORD_REGISTERED at isReg and pending at p.
SpawnRegister(f, isReg, p) ==
    /\ pc' = IF Spawns(isReg) THEN [f EXCEPT !["reg"] = "begin"] ELSE f
    /\ lastTry' = IF Spawns(isReg) THEN 0 ELSE lastTry
    /\ regPending' = (p \/ IF Throttled(isReg) THEN ~isReg ELSE Busy)

\* schedule_check_relay_presence_once: one poll at a time, with a gap.
SchedulePoll(f) ==
    IF pc["poll"] = "idle" /\ ~pollRecent
    THEN /\ pc' = [f EXCEPT !["poll"] = "look"]
         /\ tries' = 0
    ELSE pc' = f /\ UNCHANGED tries

\* What a thread took ends with it.
Ended(f) == [x \in Actor |-> IF f[x] \in {"idle", "dead"} THEN NoOne ELSE who[x]]

Alive(t) == pc[t] \notin {"dead"}
HbRunning == hbJoin # NoOne /\ Alive(hbJoin)
JoinFree == ui # "joining"
\* Where a thread goes on after start_heartbeat_loop.
Rest(x) == IF x \in Hb THEN "sleep" ELSE "idle"
Visible(s, i) == rows[s][i].eps # {} /\ rows[s][i].age <= PresenceTtl
NodeRuns == session # NoOne
\* Only waiting is left: for the next minute, or for heartbeat_join.
Waiting(x) == pc[x] \in {"idle", "sleep", "dead"} \/ (pc[x] \in {"hbcheck", "hbstore"} /\ ~JoinFree)

CoordInit ==
    /\ session = NoOne /\ ui = "idle" /\ eps = {}
    /\ registered = FALSE /\ registeredOn = {} /\ regPending = FALSE
    /\ fails = 0 /\ okAge = Stale
    /\ lastTry = 2 /\ recoverRecent = FALSE /\ pollRecent = FALSE /\ tries = 0
    /\ pc = [x \in Actor |-> IF x \in Hb THEN "dead" ELSE "idle"]
    /\ who = [x \in Actor |-> NoOne]
    /\ reg = NoWork
    /\ hbStop = FALSE /\ hbJoin = NoOne /\ made = [x \in Actor |-> NoOne]
    /\ \E prior \in SUBSET Ident :    \* rows of an earlier process
          rows = [s \in Server |-> [i \in Ident |->
                     IF i \in prior THEN [eps |-> {OldAddr}, age |-> 0] ELSE NoPresence]]
    /\ nonce = [s \in Server |-> [i \in Ident |-> "none"]]
    /\ serves = [s \in Server |-> TRUE]
    /\ listed = FALSE /\ left \in Budgets /\ strayed = FALSE

-----------------------------------------------------------------------------
\* host::start_network after an unlock: set_coord_base_urls registers the
\* first time, and later finds the list unchanged.
Login(i) ==
    /\ ui = "idle" /\ session = NoOne /\ Spend("login")
    /\ session' = i /\ listed' = TRUE
    /\ IF listed
       THEN /\ IF registered THEN UNCHANGED <<pc, tries>> ELSE SchedulePoll(pc)
            /\ UNCHANGED <<lastTry, regPending>>
       ELSE SpawnRegister(pc, FALSE, regPending) /\ UNCHANGED tries
    /\ UNCHANGED <<ui, eps, registered, registeredOn, fails, okAge, recoverRecent,
                   pollRecent, who, reg, threads, servers, strayed>>

\* host::lock, as far as presence is concerned: stop_coord_presence lowers the
\* flags, tells the heartbeat to stop, takes heartbeat_join and keeps it while it
\* joins the thread; then the node is stopped and lock_identity forgets the
\* identity. Registers, polls and the upkeep go on meanwhile.
Logout ==
    /\ ui = "idle" /\ session # NoOne /\ Spend("logout")
    /\ ui' = "lowering"
    /\ registered' = FALSE /\ okAge' = Stale /\ fails' = 0
    /\ strayed' = FALSE
    /\ UNCHANGED <<session, eps, registeredOn, regPending, throttles, pc, who, reg,
                   threads, servers, listed>>

TellStop ==
    /\ ui = "lowering"
    /\ ui' = "stopping" /\ hbStop' = TRUE
    /\ UNCHANGED <<session, eps, flags, throttles, pc, who, reg, hbJoin, made,
                   servers, world>>

TakeJoin ==
    /\ ui = "stopping"
    /\ ui' = "joining"
    /\ UNCHANGED <<session, eps, flags, throttles, pc, who, reg, threads, servers, world>>

Joined ==
    /\ ui = "joining" /\ ~HbRunning
    /\ ui' = "closing" /\ hbJoin' = NoOne
    /\ UNCHANGED <<session, eps, flags, throttles, pc, who, reg, hbStop, made, servers, world>>

Close ==
    /\ ui = "closing"
    /\ ui' = "idle" /\ session' = NoOne
    /\ UNCHANGED <<eps, flags, throttles, pc, who, reg, threads, servers, world>>

-----------------------------------------------------------------------------
(* The upkeep of the connect worker, once a second.                        *)

\* on_listen_dm_addr: a public address of the device that is not known yet.
Listen(a) ==
    /\ NodeRuns
    /\ a \notin eps
    /\ eps' = eps \cup {a}
    /\ SpawnRegister(pc, registered, regPending)
    /\ UNCHANGED <<session, ui, registered, registeredOn, fails, okAge, recoverRecent,
                   pollRecent, tries, who, reg, threads, servers, world>>

\* coord_register_tick(&[]). While unregistered it asks twice, and the second
\* one always leaves the request pending.
RegisterTick ==
    /\ NodeRuns
    /\ \/ /\ ~registered /\ eps # {}
          /\ SpawnRegister(pc, FALSE, TRUE)
          /\ UNCHANGED <<recoverRecent, tries>>
       \/ /\ registered /\ regPending
          /\ SpawnRegister(pc, TRUE, FALSE)
          /\ UNCHANGED <<recoverRecent, tries>>
       \/ /\ registered /\ ~regPending
          /\ okAge = Stale /\ fails >= 1 /\ ~recoverRecent
          /\ recoverRecent' = TRUE
          /\ SchedulePoll(pc)
          /\ UNCHANGED <<lastTry, regPending>>
    /\ UNCHANGED <<session, ui, eps, registered, registeredOn, fails, okAge, pollRecent,
                   who, reg, threads, servers, world>>

-----------------------------------------------------------------------------
(* The register worker: try_register_presence.                             *)

RegBegin ==
    /\ pc["reg"] = "begin"
    /\ CASE session = NoOne ->
              /\ pc' = [pc EXCEPT !["reg"] = "idle"]
              /\ fails' = Min({3, fails + 1})
              /\ UNCHANGED <<tries, who, reg>>
         [] session # NoOne /\ eps = {} ->
              /\ SchedulePoll([pc EXCEPT !["reg"] = "idle"])
              /\ UNCHANGED <<fails, who, reg>>
         [] OTHER ->
              /\ pc' = [pc EXCEPT !["reg"] = "challenge"]
              /\ who' = [who EXCEPT !["reg"] = session]
              /\ reg' = [eps |-> eps, todo |-> Server, on |-> {}]
              /\ UNCHANGED <<fails, tries>>
    /\ UNCHANGED <<session, ui, eps, registered, registeredOn, regPending, okAge, lastTry,
                   recoverRecent, pollRecent, threads, servers, world>>

NextServer(rest) == [pc EXCEPT !["reg"] = IF rest = {} THEN "done" ELSE "challenge"]

\* ChallengeStore keeps one nonce per identity, whoever asked, and take_valid
\* consumes it whether it fits or not.
Issue(s, i, asker) == [nonce EXCEPT ![s][i] = asker]
Take(s, i) == IF serves[s] THEN [nonce EXCEPT ![s][i] = "none"] ELSE nonce

\* CoordHttpClient::register, first request.
RegChallenge ==
    /\ pc["reg"] = "challenge"
    /\ LET s == Min(reg.todo) IN
        IF serves[s]
        THEN /\ nonce' = Issue(s, who["reg"], "reg")
             /\ pc' = [pc EXCEPT !["reg"] = "post"]
             /\ UNCHANGED reg
        ELSE /\ reg' = [reg EXCEPT !.todo = @ \ {s}]
             /\ pc' = NextServer(reg.todo \ {s})
             /\ UNCHANGED nonce
    /\ UNCHANGED <<session, ui, eps, flags, throttles, who, threads, rows, serves, world>>

\* merge_client_register replaces the row.
Merge(s, i, e) == [rows EXCEPT ![s][i] = [eps |-> e, age |-> 0]]

\* Second request: the row is written, and the client looks itself up. The
\* answer may be lost, and the client takes the server for failed.
RegPost ==
    /\ pc["reg"] = "post"
    /\ LET s == Min(reg.todo)
           i == who["reg"]
           accepted == serves[s] /\ nonce[s][i] = "reg" IN
        /\ nonce' = Take(s, i)
        /\ rows' = IF accepted THEN Merge(s, i, reg.eps) ELSE rows
        /\ \/ /\ reg' = [reg EXCEPT !.todo = @ \ {s},
                                    !.on = IF accepted THEN @ \cup {s} ELSE @]
              /\ UNCHANGED left
           \/ /\ accepted /\ Spend("fault")
              /\ reg' = [reg EXCEPT !.todo = @ \ {s}]
        /\ pc' = NextServer(reg.todo \ {s})
    /\ UNCHANGED <<session, ui, eps, flags, throttles, who, threads, serves, listed,
                   strayed>>

\* The device is not logged in as i, or is being logged out: it should not be
\* counted as registered for i any more.
Late(i) == ui # "idle" \/ session = NoOne \/ i # session

\* One server is enough: the flags go up and a heartbeat is wanted.
RegDone ==
    /\ pc["reg"] = "done"
    /\ IF reg.on = {}
       THEN /\ pc' = [pc EXCEPT !["reg"] = "idle"]
            /\ fails' = Min({3, fails + 1})
            /\ UNCHANGED <<registered, registeredOn, okAge, strayed>>
       ELSE /\ pc' = [pc EXCEPT !["reg"] = "hbcheck"]
            /\ registered' = TRUE /\ registeredOn' = reg.on
            /\ fails' = 0 /\ okAge' = 0
            /\ strayed' = (strayed \/ Late(who["reg"]))
    /\ reg' = NoWork /\ who' = Ended(pc')
    /\ UNCHANGED <<session, ui, eps, regPending, throttles, threads, servers, counts>>

-----------------------------------------------------------------------------
(* start_heartbeat_loop, by the worker, the poll or a heartbeat thread: the *)
(* look at heartbeat_join, the new thread and its handle are three steps.   *)

\* The thread in heartbeat_join passes for the heartbeat that x asks for, but
\* has been told to stop, or beats for another identity.
MistakenFor(x) == HbRunning /\ (hbStop \/ who[hbJoin] # who[x])

HbCheck(x) ==
    /\ pc[x] = "hbcheck" /\ JoinFree
    /\ pc' = [pc EXCEPT ![x] = IF HbRunning THEN Rest(x) ELSE "hbspawn"]
    /\ pollRecent' = (pollRecent \/ (x = "poll" /\ HbRunning))
    /\ strayed' = (strayed \/ MistakenFor(x))
    /\ who' = Ended(pc')
    /\ UNCHANGED <<session, ui, eps, flags, lastTry, recoverRecent, tries, reg,
                   threads, servers, counts>>

\* Mutant of HbSpawn: the stop of the last log out still stands.
HbSpawnStopped(x) ==
    /\ pc[x] = "hbspawn"
    /\ \E u \in Hb : ~Alive(u)
    /\ LET t == CHOOSE u \in Hb : ~Alive(u) IN
        /\ pc' = [pc EXCEPT ![x] = "hbstore", ![t] = "sleep"]
        /\ who' = [who EXCEPT ![t] = who[x]]
        /\ made' = [made EXCEPT ![x] = t]
    /\ fails' = 0
    /\ UNCHANGED <<session, ui, eps, registered, registeredOn, regPending, okAge, throttles,
                   reg, hbStop, hbJoin, servers, world>>

HbSpawn(x) ==
    /\ pc[x] = "hbspawn"
    /\ \E u \in Hb : ~Alive(u)
    /\ LET t == CHOOSE u \in Hb : ~Alive(u) IN
        /\ pc' = [pc EXCEPT ![x] = "hbstore", ![t] = "sleep"]
        /\ who' = [who EXCEPT ![t] = who[x]]
        /\ made' = [made EXCEPT ![x] = t]
    /\ hbStop' = FALSE /\ fails' = 0
    /\ UNCHANGED <<session, ui, eps, registered, registeredOn, regPending, okAge, throttles,
                   reg, hbJoin, servers, world>>

HbStore(x) ==
    /\ pc[x] = "hbstore" /\ JoinFree
    /\ hbJoin' = made[x]
    /\ made' = [made EXCEPT ![x] = NoOne]
    /\ pc' = [pc EXCEPT ![x] = Rest(x)]
    /\ pollRecent' = (pollRecent \/ x = "poll")
    /\ who' = Ended(pc')
    /\ UNCHANGED <<session, ui, eps, flags, lastTry, recoverRecent, tries, reg,
                   hbStop, servers, world>>

-----------------------------------------------------------------------------
(* refresh_relay_presence_from_coord: the device looks itself up on every   *)
(* server of the list.                                                      *)

Reached == {s \in Server : serves[s]}
Seen(i) == {s \in Reached : Visible(s, i)}

\* Mutant of RowSeen: the servers that showed the row are not noted.
RowSeenNowhere(x, i) ==
    /\ fails' = 0 /\ okAge' = 0
    /\ registered' = TRUE /\ UNCHANGED registeredOn
    /\ pc' = [pc EXCEPT ![x] = IF registered THEN Rest(x) ELSE "hbcheck"]
    /\ pollRecent' = (pollRecent \/ (x = "poll" /\ registered))
    /\ strayed' = (strayed \/ (~registered /\ Late(i)))
    /\ UNCHANGED <<regPending, lastTry, recoverRecent>>

\* A row is there: whoever wrote it, the device counts as registered.
RowSeen(x, i) ==
    /\ fails' = 0 /\ okAge' = 0
    /\ registered' = TRUE
    /\ registeredOn' = IF registered THEN registeredOn ELSE Seen(i)
    /\ pc' = [pc EXCEPT ![x] = IF registered THEN Rest(x) ELSE "hbcheck"]
    /\ pollRecent' = (pollRecent \/ (x = "poll" /\ registered))
    /\ strayed' = (strayed \/ (~registered /\ Late(i)))
    /\ UNCHANGED <<regPending, lastTry, recoverRecent>>

\* What a lookup that found no row does next: register if there is something
\* to register, or else poll again.
AskAgain(f, p) ==
    IF eps # {}
    THEN SpawnRegister(f, registered, p) /\ UNCHANGED tries
    ELSE SchedulePoll(f) /\ UNCHANGED <<lastTry, regPending>>

\* One lookup of the poll. It stops when the row is seen, and after a few
\* tries, since no relay circuit is listening.
PollLook ==
    /\ pc["poll"] = "look"
    /\ IF session = NoOne
       THEN /\ pc' = [pc EXCEPT !["poll"] = "idle"]
            /\ pollRecent' = TRUE /\ tries' = 0
            /\ UNCHANGED <<flags, lastTry, recoverRecent, who, strayed>>
       ELSE /\ IF Seen(session) # {}
               THEN /\ RowSeen("poll", session) /\ tries' = 0
                    /\ who' = IF registered THEN who ELSE [who EXCEPT !["poll"] = session]
               ELSE LET last == tries + 1 >= PollTries
                        f == IF last THEN [pc EXCEPT !["poll"] = "idle"] ELSE pc IN
                    /\ tries' = IF last THEN 0 ELSE tries + 1
                    /\ pollRecent' = (pollRecent \/ last)
                    /\ IF Reached # {}
                       THEN fails' = 0 /\ okAge' = 0
                       ELSE UNCHANGED <<fails, okAge>>
                    /\ IF Reached # {} /\ eps # {}
                       THEN SpawnRegister(f, registered, regPending)
                       ELSE pc' = f /\ UNCHANGED <<lastTry, regPending>>
                    /\ recoverRecent' = (recoverRecent \/ (Reached # {} /\ eps = {}))
                    /\ UNCHANGED <<registered, registeredOn, who, strayed>>
    /\ UNCHANGED <<session, ui, eps, reg, threads, servers, counts>>

-----------------------------------------------------------------------------
(* A heartbeat thread.                                                      *)

HbExit(t) ==
    /\ pc[t] = "sleep" /\ hbStop
    /\ pc' = [pc EXCEPT ![t] = "dead"]
    /\ who' = Ended(pc')
    /\ UNCHANGED <<session, ui, eps, flags, throttles, reg, threads, servers, world>>

\* recover_coord_presence_after_server_drop, at most every 15 seconds.
Recover(t) == [pc EXCEPT ![t] = IF recoverRecent THEN "sleep" ELSE "recover"]

\* Mutant of Beat: a row that is gone counts as an answer.
BeatAnyAnswer(t, s) ==
    /\ rows' = IF rows[s][who[t]].eps = {} THEN rows ELSE [rows EXCEPT ![s][who[t]].age = 0]
    /\ fails' = 0 /\ okAge' = 0
    /\ pc' = [pc EXCEPT ![t] = "sleep"]
    /\ UNCHANGED <<registered, recoverRecent>>

\* A server answers the heartbeat: the row is younger, expired or not, or it
\* is gone and the device no longer counts as registered.
Beat(t, s) ==
    IF rows[s][who[t]].eps # {}
    THEN /\ rows' = [rows EXCEPT ![s][who[t]].age = 0]
         /\ fails' = 0 /\ okAge' = 0
         /\ pc' = [pc EXCEPT ![t] = "sleep"]
         /\ UNCHANGED <<registered, recoverRecent>>
    ELSE /\ registered' = FALSE
         /\ pc' = Recover(t)
         /\ recoverRecent' = TRUE
         /\ fails' = IF recoverRecent THEN 0 ELSE fails
         /\ UNCHANGED <<okAge, rows>>

\* The first server that answers settles the beat; the others are not asked.
\* Each error counts, and so does the beat that failed.
HbBeat(t) ==
    /\ pc[t] = "beat"
    /\ CASE registeredOn = {} \/ ~registered ->
              /\ pc' = [pc EXCEPT ![t] = IF registeredOn = {} THEN "sleep" ELSE "look"]
              /\ UNCHANGED <<registered, fails, okAge, recoverRecent, rows>>
         [] OTHER ->
              \/ \E s \in registeredOn \cap Reached : Beat(t, s)
              \/ /\ registeredOn \cap Reached = {}
                 /\ fails' = Min({3, fails + Cardinality(registeredOn) + 1})
                 /\ pc' = [pc EXCEPT ![t] = IF fails' = 3 THEN "look3" ELSE "look2"]
                 /\ UNCHANGED <<registered, okAge, recoverRecent, rows>>
    /\ UNCHANGED <<session, ui, eps, registeredOn, regPending, lastTry, pollRecent, tries,
                   who, reg, threads, nonce, serves, world>>

\* The lookup of an unregistered beat (look), of the second failed one (look2)
\* and of the third (look3), which recovers when nothing is seen; recover
\* looks once more and then asks for a register.
HbLook(t) ==
    /\ pc[t] \in {"look", "look2", "look3", "recover"}
    /\ IF Seen(who[t]) # {}
       THEN RowSeen(t, who[t]) /\ UNCHANGED tries
       ELSE LET recovering == pc[t] = "recover"
                third == pc[t] = "look3"
                f == IF third THEN Recover(t) ELSE [pc EXCEPT ![t] = "sleep"] IN
            /\ fails' = IF Reached # {} \/ recovering \/ (third /\ recoverRecent)
                        THEN 0 ELSE fails
            /\ okAge' = IF Reached # {} THEN 0 ELSE okAge
            /\ recoverRecent' = (recoverRecent \/ third \/ (Reached # {} /\ eps = {}))
            /\ IF recovering \/ (Reached # {} /\ (eps # {} \/ ~recoverRecent))
               THEN AskAgain(f, regPending \/ (recovering /\ Reached # {} /\ ~registered))
               ELSE pc' = f /\ UNCHANGED <<lastTry, regPending, tries>>
            /\ UNCHANGED <<registered, registeredOn, pollRecent, strayed>>
    /\ UNCHANGED <<session, ui, eps, who, reg, threads, servers, counts>>

-----------------------------------------------------------------------------
(* A call asks the first server for a bridge with the same challenges, and  *)
(* does not take the lock of the register worker.                           *)

First == Min(Server)

CallChallenge ==
    /\ pc["call"] = "idle" /\ Spend("call")
    /\ NodeRuns /\ serves[First]
    /\ who' = [who EXCEPT !["call"] = session]
    /\ pc' = [pc EXCEPT !["call"] = "post"]
    /\ nonce' = Issue(First, session, "call")
    /\ UNCHANGED <<session, ui, eps, flags, throttles, reg, threads, rows, serves,
                   listed, strayed>>

CallRequest ==
    /\ pc["call"] = "post"
    /\ pc' = [pc EXCEPT !["call"] = "idle"]
    /\ nonce' = Take(First, who["call"])
    /\ who' = Ended(pc')
    /\ UNCHANGED <<session, ui, eps, flags, throttles, reg, threads, rows, serves, world>>

-----------------------------------------------------------------------------
(* Servers and time.                                                        *)

ServerDown(s) ==
    /\ serves[s] /\ Spend("fault")
    /\ serves' = [serves EXCEPT ![s] = FALSE]
    /\ nonce' = [nonce EXCEPT ![s] = [i \in Ident |-> "none"]]
    /\ UNCHANGED <<session, ui, eps, flags, throttles, pc, who, reg, threads, rows,
                   listed, strayed>>

ServerUp(s) ==
    /\ ~serves[s]
    /\ serves' = [serves EXCEPT ![s] = TRUE]
    /\ UNCHANGED <<session, ui, eps, flags, throttles, pc, who, reg, threads, rows, nonce,
                   world>>

\* purge_expired.
Purge(s) ==
    /\ \E i \in Ident : rows[s][i].age > PresenceTtl
    /\ rows' = [rows EXCEPT ![s] = [i \in Ident |->
                   IF rows[s][i].age > PresenceTtl THEN NoPresence ELSE rows[s][i]]]
    /\ UNCHANGED <<session, ui, eps, flags, throttles, pc, who, reg, threads, nonce, serves,
                   world>>

\* Seconds pass, as the throttles see them.
Pause ==
    /\ lastTry < 2 \/ pollRecent
    /\ lastTry' = Min({2, lastTry + 1}) /\ pollRecent' = FALSE
    /\ UNCHANGED <<session, ui, eps, flags, recoverRecent, tries, pc, who, reg, threads,
                   servers, world>>

\* 25 seconds pass. Requests have ended by then, and so have the seconds of
\* the throttles and the second after which a stopped thread looks at the flag.
Clock ==
    /\ lastTry = 2 /\ \A x \in Actor : Waiting(x)
    /\ ui = "idle" \/ (ui = "joining" /\ HbRunning)
    /\ hbStop => \A t \in Hb : pc[t] # "sleep"
    /\ rows' = [s \in Server |-> [i \in Ident |->
                   IF rows[s][i].eps = {} THEN NoPresence
                   ELSE [rows[s][i] EXCEPT !.age = Min({PresenceTtl + 1, @ + 1})]]]
    /\ okAge' = Min({Stale, okAge + 1})
    /\ recoverRecent' = FALSE /\ pollRecent' = FALSE
    /\ pc' = [x \in Actor |-> IF pc[x] = "sleep" THEN "beat" ELSE pc[x]]
    /\ UNCHANGED <<session, ui, eps, registered, registeredOn, regPending, fails, lastTry,
                   tries, who, reg, threads, nonce, serves, world>>

Heartbeat(t) == HbExit(t) \/ HbBeat(t) \/ HbLook(t)
Starter(x) == HbCheck(x) \/ HbSpawn(x) \/ HbStore(x)
RegWorker == RegBegin \/ RegChallenge \/ RegPost \/ RegDone
StopSteps == TellStop \/ TakeJoin \/ Joined \/ Close

CoordNext ==
    \/ \E i \in Ident : Login(i)
    \/ Logout \/ StopSteps
    \/ \E a \in Addr : Listen(a)
    \/ RegisterTick
    \/ RegWorker \/ PollLook
    \/ \E x \in Actor : Starter(x)
    \/ \E t \in Hb : Heartbeat(t)
    \/ CallChallenge \/ CallRequest
    \/ \E s \in Server : ServerDown(s) \/ ServerUp(s) \/ Purge(s)
    \/ Pause \/ Clock

CoordSpec == CoordInit /\ [][CoordNext]_coordVars

\* What a thread does, one thing at a time.
Thread(x) ==
    \/ Starter(x)
    \/ x = "reg" /\ RegWorker
    \/ x = "poll" /\ PollLook
    \/ x = "call" /\ CallRequest
    \/ x \in Hb /\ Heartbeat(x)

\* Threads run, the upkeep ticks and time passes. Nobody has to log in or out,
\* a server that is down need not come back, and a lost answer is not fair.
CoordFairness ==
    /\ WF_coordVars(StopSteps) /\ WF_coordVars(RegisterTick)
    /\ WF_coordVars(Pause) /\ WF_coordVars(Clock)
    /\ \A x \in Actor : WF_coordVars(Thread(x))

CoordFairSpec == CoordSpec /\ CoordFairness

-----------------------------------------------------------------------------
(* Properties.                                                              *)

CoordTypeOK ==
    /\ session \in Ident \cup {NoOne} /\ eps \subseteq Addr
    /\ ui \in {"idle", "lowering", "stopping", "joining", "closing"}
    /\ registered \in BOOLEAN /\ regPending \in BOOLEAN /\ hbStop \in BOOLEAN
    /\ registeredOn \subseteq Server
    /\ registered => registeredOn # {}      \* it knows where
    /\ fails \in 0..3 /\ okAge \in 0..Stale /\ lastTry \in 0..2
    /\ hbJoin \in Hb \cup {NoOne}
    /\ who \in [Actor -> Ident \cup {NoOne}]
    /\ nonce \in [Server -> [Ident -> {"none", "reg", "call"}]]

\* A device that counts as registered has a heartbeat for the identity of the
\* session, or a thread that is about to look for one: nothing registers again
\* while the flag is up, and a row that nobody refreshes would expire unnoticed.
\* It holds unless, since the last log out began, a thread raised the flag for an
\* identity that is logged out, or took a heartbeat told to stop, or one of another
\* identity, for its own: a log out and a login in the middle of a register or of a
\* beat are not excused. What may happen then is RowIsKept.
Keeps(x) ==
    /\ who[x] = session
    /\ \/ x \in Hb /\ Alive(x) /\ ~hbStop
       \/ pc[x] \in {"hbcheck", "hbspawn"}
RegisteredHasHeartbeat == registered /\ ~strayed => \E x \in Actor : Keeps(x)

\* Nobody logs in or out, the servers are up and the device knows an address.
AtEase == session # NoOne /\ ui = "idle" /\ eps # {} /\ \A s \in Server : serves[s]
RowIsFound == \E s \in Server, i \in Ident : i = session /\ Visible(s, i)

\* Once the device is at ease its row is found again, whatever failed before and
\* however log outs met the threads, unless one strayed as above since the last.
RowComesBack == <>[](AtEase /\ ~strayed) => <>[]RowIsFound

\* COORDINATION_SERVER.md: the goal is to stay present with a correct row, and a
\* presence without a heartbeat for 70 seconds is registered again.
RowIsKept == <>[]AtEase => <>[]RowIsFound
=============================================================================
