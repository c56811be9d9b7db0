-------------------------- MODULE DeliverySessions --------------------------
(***************************************************************************)
(* The connections of two devices to the delivery server: the login with a *)
(* challenge, the nonce of a signed operation, the table of live sessions  *)
(* on the server (ws.rs, auth.rs), and what a client does with frames that *)
(* arrive while it waits for an answer (delivery_client.rs).               *)
(*                                                                         *)
(* Every request of a device (an upload thread, an extension, the list of  *)
(* the outbox) opens a connection of its own beside the session of the     *)
(* worker, and the server keeps one challenge and one nonce per identity.  *)
(***************************************************************************)
EXTENDS Naturals, Sequences, FiniteSets

CONSTANTS
    Conn,
    Worker,        \* the connections that stay open, those of the workers
    Writer, Reader, \* the devices: messages go from the one to the other
    OwnerOf,       \* the device of a connection
    Mail,          \* ids of messages
    WaitLimit,     \* bound of the frames a client reads for one answer (128 in the code)
    MaxConnects, MaxMishaps,
    NoId

ASSUME DeliverySessionsAssumption ==
    /\ Worker \subseteq Conn /\ OwnerOf \in [Conn -> {Writer, Reader}]
    /\ \A c \in Conn \ Worker : OwnerOf[c] = Writer
    /\ WaitLimit \in Nat \ {0} /\ MaxConnects \in Nat /\ MaxMishaps \in Nat

VARIABLES
    challenge,   \* ChallengeStore.pending: the nonce a login must sign, 0 if none
    opNonce,     \* ChallengeStore.op_nonces
    issued,      \* nonces made so far
    over,        \* nonces whose time has passed
    line,        \* of a connection: "none", "up", or "down" until the server notices
    auth,        \* who the socket belongs to (handle_socket)
    registry,    \* SessionRegistry
    pushes,      \* push_rx of the socket: the task of the socket picks from it and from
    answers,     \* its own answers at random, so that each keeps only its order
    toServer,
    at, waited,  \* the client: what it waits for, and the frames it has read meanwhile
    prefetched,
    backlog,     \* sessions whose deliver_pending_inbound has not run
    queued,      \* messages that are stored and not acknowledged
    pushed,      \* history: how much was pushed to a connection, which numbers its frames
    handled,     \* history: the number of the last one its client has handled
    rivalled,    \* history: connections another one of their identity got in the way of
    refused,     \* history: connections the server has turned down
    connects, mishaps

storeVars == <<challenge, opNonce, issued, over>>
socketVars == <<line, auth, registry, pushes, answers, toServer>>
clientVars == <<at, waited, prefetched, handled>>
sessionVars == <<storeVars, socketVars, clientVars, backlog, queued, pushed, rivalled, refused,
                 connects, mishaps>>

Nonce == 0..(3 * MaxConnects)
Frame(t, n, m) == [type |-> t, nonce |-> n, id |-> m]
Frames == [type : {"challenge", "ready", "ok", "error", "inbound", "notice"},
           nonce : Nat, id : Mail \cup {NoId}]
ClientFrame == [type : {"none", "open", "auth", "upload", "extend", "list", "ack"},
            nonce : Nonce, id : Mail \cup {NoId}]
Silent == Frame("none", 0, NoId)

SessionsTypeOK ==
    /\ challenge \in [{Writer, Reader} -> Nonce] /\ opNonce \in [{Writer, Reader} -> Nonce]
    /\ issued \in Nonce /\ over \subseteq Nonce
    /\ line \in [Conn -> {"none", "up", "down"}]
    /\ auth \in [Conn -> BOOLEAN] /\ registry \subseteq Conn
    /\ pushes \in [Conn -> Seq(Frames)] /\ answers \in [Conn -> Seq(Frames)]
    /\ toServer \in [Conn -> ClientFrame]
    /\ at \in [Conn -> {"idle", "opening", "authing", "ready", "asking"}]
    /\ waited \in [Conn -> 0..WaitLimit] /\ prefetched \in [Conn -> Seq(Frames)]
    /\ backlog \subseteq Conn /\ queued \subseteq Mail
    /\ pushed \in [Conn -> Nat] /\ handled \in [Conn -> Nat]
    /\ rivalled \subseteq Conn /\ refused \subseteq Conn
    /\ connects \in 0..MaxConnects /\ mishaps \in 0..MaxMishaps

SessionsInit ==
    /\ challenge = [d \in {Writer, Reader} |-> 0] /\ opNonce = challenge
    /\ issued = 0 /\ over = {}
    /\ line = [c \in Conn |-> "none"] /\ auth = [c \in Conn |-> FALSE] /\ registry = {}
    /\ pushes = [c \in Conn |-> <<>>] /\ answers = pushes /\ prefetched = pushes
    /\ pushed = [c \in Conn |-> 0] /\ handled = pushed
    /\ toServer = [c \in Conn |-> Silent]
    /\ at = [c \in Conn |-> "idle"] /\ waited = [c \in Conn |-> 0]
    /\ backlog = {} /\ queued = {} /\ rivalled = {} /\ refused = {}
    /\ connects = 0 /\ mishaps = 0

Rivals(c) == {d \in Conn \ {c} : OwnerOf[d] = OwnerOf[c]}

\* From session.open to session.auth, the frame of a client that has gone included.
LoggingIn(c) ==
    \/ at[c] \in {"opening", "authing"}
    \/ line[c] = "down" /\ toServer[c].type \in {"open", "auth"}

-----------------------------------------------------------------------------
(* The client.                                                             *)

\* connect_and_auth up to session.open; a short request connects once, the
\* worker again after every error.
Connect(c) ==
    /\ at[c] = "idle" /\ line[c] = "none" /\ connects < MaxConnects
    /\ connects' = connects + 1
    /\ line' = [line EXCEPT ![c] = "up"]
    /\ toServer' = [toServer EXCEPT ![c] = Frame("open", 0, NoId)]
    /\ at' = [at EXCEPT ![c] = "opening"] /\ UNCHANGED waited
    /\ LET rivals == {d \in Rivals(c) : LoggingIn(d)} IN
       rivalled' = IF rivals = {} THEN rivalled ELSE rivalled \cup {d \in rivals : line[d] = "up"} \cup {c}
    /\ UNCHANGED <<storeVars, auth, registry, pushes, answers, prefetched, handled, backlog,
                   queued, pushed, refused, mishaps>>

\* The socket of the client is dropped: what it has not read is gone.
Hangup(c) ==
    /\ line' = [line EXCEPT ![c] = "down"]
    /\ at' = [at EXCEPT ![c] = "idle"]
    /\ answers' = [answers EXCEPT ![c] = <<>>]
    /\ prefetched' = [prefetched EXCEPT ![c] = <<>>]
    /\ waited' = [waited EXCEPT ![c] = 0]
    /\ pushed' = [pushed EXCEPT ![c] = 0] /\ handled' = [handled EXCEPT ![c] = 0]
    /\ rivalled' = rivalled \ {c} /\ refused' = refused \ {c}

ReadAnswer(c) == answers' = [answers EXCEPT ![c] = Tail(@)]

Ask(c, frame, next) ==
    /\ toServer' = [toServer EXCEPT ![c] = frame]
    /\ at' = [at EXCEPT ![c] = next] /\ waited' = [waited EXCEPT ![c] = 0]

\* recv_until_type: the answer a client waits for
Wanted(c) == CASE at[c] = "opening" -> "challenge" [] at[c] = "authing" -> "ready" [] OTHER -> "ok"

Waits(c) == at[c] \in {"opening", "authing", "asking"}
Answered(c, t) == Waits(c) /\ answers[c] # <<>> /\ Head(answers[c]).type = t

\* The challenge is signed, session_challenge_bytes and sign_delivery_challenge.
ReadChallenge(c) ==
    /\ Answered(c, "challenge") /\ Wanted(c) = "challenge"
    /\ ReadAnswer(c) /\ Ask(c, Frame("auth", Head(answers[c]).nonce, NoId), "authing")
    /\ UNCHANGED <<storeVars, line, auth, registry, pushes, prefetched, handled, queued,
                   pushed, rivalled, refused, backlog, connects, mishaps>>

\* The worker is ready; a short request goes on with its one operation:
\* upload_text and its kin, extend_ttl (both sign the nonce), mailbox_list.
ReadReady(c) ==
    /\ Answered(c, "ready") /\ Wanted(c) = "ready"
    /\ ReadAnswer(c)
    /\ IF c \in Worker
       THEN /\ at' = [at EXCEPT ![c] = "ready"] /\ waited' = [waited EXCEPT ![c] = 0]
            /\ UNCHANGED toServer
       ELSE \E t \in {"upload", "extend", "list"}, m \in Mail :
               /\ t # "upload" => m \in queued
               /\ Ask(c, Frame(t, IF t = "list" THEN 0 ELSE Head(answers[c]).nonce, m), "asking")
    /\ UNCHANGED <<storeVars, line, auth, registry, pushes, prefetched, handled, queued,
                   pushed, rivalled, refused, backlog, connects, mishaps>>

\* A short request ends with its answer; the worker goes back to its pushes.
ReadOk(c) ==
    /\ Answered(c, "ok") /\ Wanted(c) = "ok"
    /\ IF c \in Worker
       THEN ReadAnswer(c) /\ at' = [at EXCEPT ![c] = "ready"] /\ UNCHANGED <<line, prefetched, waited, handled, pushed, rivalled, refused>>
       ELSE Hangup(c)
    /\ UNCHANGED <<storeVars, auth, registry, pushes, toServer, queued, backlog, connects, mishaps>>

\* An error ends the wait: of inbox_ack it is only logged, all else gives up
\* the connection.
ReadError(c) ==
    /\ Answered(c, "error")
    /\ IF c \in Worker /\ at[c] = "asking"
       THEN ReadAnswer(c) /\ at' = [at EXCEPT ![c] = "ready"] /\ UNCHANGED <<line, prefetched, waited, handled, pushed, rivalled, refused>>
       ELSE Hangup(c)
    /\ UNCHANGED <<storeVars, auth, registry, pushes, toServer, queued, backlog, connects, mishaps>>

\* Any other frame is kept for recv_push, and after WaitLimit of them the wait
\* is given up: that is the end of the connection, but for an acknowledgement.
KeepFrame(c) ==
    /\ Waits(c) /\ pushes[c] # <<>>
    /\ pushes' = [pushes EXCEPT ![c] = Tail(@)]
    /\ LET more == waited[c] + 1 < WaitLimit IN
       IF more \/ (c \in Worker /\ at[c] = "asking")
       THEN /\ prefetched' = [prefetched EXCEPT ![c] = Append(@, Head(pushes[c]))]
            /\ at' = [at EXCEPT ![c] = IF more THEN @ ELSE "ready"]
            /\ waited' = [waited EXCEPT ![c] = @ + 1]
            /\ UNCHANGED <<line, answers, handled, pushed, rivalled, refused>>
       ELSE Hangup(c)
    /\ UNCHANGED <<storeVars, auth, registry, toServer, queued, backlog, connects, mishaps>>

\* Mutant of NextPush: the socket is read before what was kept.
NextPushFromSocket(c) ==
    IF pushes[c] # <<>>
    THEN <<Head(pushes[c]), Tail(pushes[c]), prefetched[c]>>
    ELSE <<Head(prefetched[c]), pushes[c], Tail(prefetched[c])>>

\* recv_push: the frame, and what stays unread and kept
NextPush(c) ==
    IF prefetched[c] # <<>>
    THEN <<Head(prefetched[c]), pushes[c], Tail(prefetched[c])>>
    ELSE <<Head(pushes[c]), Tail(pushes[c]), prefetched[c]>>

\* handle_push_frame: an inbound message is acknowledged on the same session,
\* where the server reads the frames of the client in their order.
HandlePush(c) ==
    /\ at[c] = "ready" /\ prefetched[c] \o pushes[c] # <<>> /\ toServer[c] = Silent
    /\ LET next == NextPush(c)
           f == next[1]
       IN /\ pushes' = [pushes EXCEPT ![c] = next[2]]
          /\ prefetched' = [prefetched EXCEPT ![c] = next[3]]
          /\ handled' = [handled EXCEPT ![c] = f.nonce]
          /\ IF f.type = "inbound" THEN Ask(c, Frame("ack", 0, f.id), "asking")
             ELSE UNCHANGED <<toServer, at, waited>>
    /\ UNCHANGED <<storeVars, line, auth, registry, answers, queued, pushed, rivalled,
                   refused, backlog, connects, mishaps>>

\* The answer to an acknowledgement that was given up comes as a push of no
\* known type.
DropAnswer(c) ==
    /\ at[c] = "ready" /\ prefetched[c] = <<>> /\ answers[c] # <<>> /\ ReadAnswer(c)
    /\ UNCHANGED <<storeVars, line, auth, registry, pushes, toServer, clientVars, queued,
                   pushed, rivalled, refused, backlog, connects, mishaps>>

-----------------------------------------------------------------------------
(* The server.                                                             *)

Listens(c) == line[c] # "none"
Answer(c, f) == answers' = [answers EXCEPT ![c] = IF line[c] = "up" THEN Append(@, f) ELSE @]
Taken(c) == toServer' = [toServer EXCEPT ![c] = Silent]

\* SessionRegistry::push, to every session of the identity; what is pushed to a
\* socket that has broken is lost.
PushTo(d, type, ids) ==
    LET theirs == {c \in registry : OwnerOf[c] = d /\ line[c] = "up"}
        framesOf(c) == [i \in DOMAIN ids |-> Frame(type, pushed[c] + i, ids[i])]
    IN /\ pushes' = [c \in Conn |-> IF c \in theirs THEN pushes[c] \o framesOf(c) ELSE pushes[c]]
       /\ pushed' = [c \in Conn |-> IF c \in theirs THEN pushed[c] + Len(ids) ELSE pushed[c]]

NoPush == UNCHANGED <<pushes, pushed>>

\* issue_session and issue_op_nonce: a nonce replaces the identity's last one.
Issued(store, d) == [store EXCEPT ![d] = issued + 1]

\* Mutant of Purged: whoever opens clears the table.
PurgedAll(store) == [d \in DOMAIN store |-> 0]

\* purge_expired
Purged(store) == [d \in DOMAIN store |-> IF store[d] \in over THEN 0 ELSE store[d]]

\* handle_session_open
ServeOpen(c) ==
    /\ Listens(c) /\ toServer[c].type = "open" /\ Taken(c)
    /\ challenge' = Issued(Purged(challenge), OwnerOf[c])
    /\ opNonce' = Purged(opNonce)
    /\ issued' = issued + 1
    /\ auth' = [auth EXCEPT ![c] = FALSE]
    /\ Answer(c, Frame("challenge", issued + 1, NoId))
    /\ NoPush
    /\ UNCHANGED <<over, line, registry, clientVars, queued, rivalled, refused, backlog, connects, mishaps>>

\* take_session_valid
SessionValid(d, n) == challenge[d] = n /\ n # 0 /\ n \notin over

\* handle_session_auth: the challenge is gone, whether it was the right one or
\* not.
RefuseAuth(c) ==
    /\ Listens(c) /\ toServer[c].type = "auth" /\ Taken(c)
    /\ ~SessionValid(OwnerOf[c], toServer[c].nonce)
    /\ challenge' = [challenge EXCEPT ![OwnerOf[c]] = 0]
    /\ refused' = IF line[c] = "up" THEN refused \cup {c} ELSE refused
    /\ Answer(c, Frame("error", 0, NoId))
    /\ NoPush
    /\ UNCHANGED <<opNonce, issued, over, line, auth, registry, clientVars, queued, rivalled,
                   backlog, connects, mishaps>>

\* The session is registered and gets its nonce for an operation.
Ready(c) ==
    /\ challenge' = [challenge EXCEPT ![OwnerOf[c]] = 0]
    /\ opNonce' = Issued(opNonce, OwnerOf[c]) /\ issued' = issued + 1
    /\ auth' = [auth EXCEPT ![c] = TRUE] /\ registry' = registry \cup {c}

\* The other connections hold a nonce that is no longer the last.
Overtakes(c) == rivalled' = rivalled \cup {d \in Rivals(c) : line[d] = "up" /\ auth[d]}

ServeAuth(c) ==
    /\ Listens(c) /\ toServer[c].type = "auth" /\ Taken(c)
    /\ SessionValid(OwnerOf[c], toServer[c].nonce)
    /\ Ready(c) /\ Overtakes(c)
    /\ backlog' = backlog \cup {c}
    /\ Answer(c, Frame("ready", issued + 1, NoId))
    /\ NoPush
    /\ UNCHANGED <<over, line, clientVars, queued, refused, connects, mishaps>>

\* deliver_pending_inbound, in a task of its own after session.ready
DeliverPending(c) ==
    /\ c \in backlog /\ backlog' = backlog \ {c}
    /\ LET mine == IF OwnerOf[c] = Reader THEN queued ELSE {} IN
       \E s \in [1..Cardinality(mine) -> mine] :
          /\ {s[i] : i \in DOMAIN s} = mine
          /\ PushTo(OwnerOf[c], "inbound", s)
    /\ UNCHANGED <<storeVars, line, auth, registry, answers, toServer, clientVars, queued,
                   rivalled, refused, connects, mishaps>>

\* take_op_valid
OpValid(d, n) == opNonce[d] = n /\ n # 0 /\ n \notin over

\* handle_upload, handle_extend: a nonce that is not valid stays, unless its
\* time is over.
RefuseOp(c) ==
    /\ Listens(c) /\ toServer[c].type \in {"upload", "extend"} /\ Taken(c)
    /\ LET d == OwnerOf[c] IN
       /\ ~(auth[c] /\ OpValid(d, toServer[c].nonce))
       /\ opNonce' = [opNonce EXCEPT ![d] = IF @ \in over THEN 0 ELSE @]
    /\ refused' = IF line[c] = "up" THEN refused \cup {c} ELSE refused
    /\ Answer(c, Frame("error", 0, NoId))
    /\ NoPush
    /\ UNCHANGED <<challenge, issued, over, line, auth, registry, clientVars, queued, rivalled,
                   backlog, connects, mishaps>>

\* The nonce is used up and the next one issued before the store is asked.
UsesNonce(c) ==
    /\ auth[c] /\ OpValid(OwnerOf[c], toServer[c].nonce)
    /\ opNonce' = Issued(opNonce, OwnerOf[c]) /\ issued' = issued + 1
    /\ Overtakes(c)

ServeUpload(c) ==
    /\ Listens(c) /\ toServer[c].type = "upload" /\ Taken(c) /\ UsesNonce(c)
    /\ queued' = queued \cup {toServer[c].id}
    /\ PushTo(Reader, "inbound", <<toServer[c].id>>)
    /\ Answer(c, Frame("ok", issued + 1, NoId))
    /\ UNCHANGED <<challenge, over, line, auth, registry, clientVars, refused, backlog, connects, mishaps>>

\* extend_ttl refuses what has been delivered meanwhile.
ServeExtend(c) ==
    /\ Listens(c) /\ toServer[c].type = "extend" /\ Taken(c) /\ UsesNonce(c)
    /\ Answer(c, IF toServer[c].id \in queued THEN Frame("ok", issued + 1, NoId)
                                              ELSE Frame("error", 0, NoId))
    /\ NoPush
    /\ UNCHANGED <<challenge, over, line, auth, registry, clientVars, queued, refused, backlog, connects, mishaps>>

\* handle_outbox_list, handle_quota
ServeList(c) ==
    /\ Listens(c) /\ toServer[c].type = "list" /\ Taken(c)
    /\ Answer(c, Frame(IF auth[c] THEN "ok" ELSE "error", 0, NoId))
    /\ NoPush
    /\ UNCHANGED <<storeVars, line, auth, registry, clientVars, queued, rivalled, refused,
                   backlog, connects, mishaps>>

\* handle_inbox_ack: only what is still queued, and the writer hears of it.
ServeInboxAck(c) ==
    /\ Listens(c) /\ toServer[c].type = "ack" /\ Taken(c)
    /\ LET m == toServer[c].id IN
       IF auth[c] /\ m \in queued
       THEN /\ queued' = queued \ {m}
            /\ PushTo(Writer, "notice", <<m>>)
            /\ Answer(c, Frame("ok", 0, NoId))
       ELSE /\ NoPush /\ UNCHANGED queued
            /\ Answer(c, Frame("error", 0, NoId))
    /\ UNCHANGED <<storeVars, line, auth, registry, clientVars, rivalled, refused, backlog, connects, mishaps>>

\* SessionRegistry::unregister, by the channel of the socket
Unregister(c) == registry' = registry \ {c}

\* The end of handle_socket, when the server reads the close or fails to send;
\* frames that were on their way may have been read before.
SocketEnds(c) ==
    /\ line[c] = "down"
    /\ line' = [line EXCEPT ![c] = "none"]
    /\ IF auth[c] THEN Unregister(c) ELSE UNCHANGED registry
    /\ auth' = [auth EXCEPT ![c] = FALSE]
    /\ pushes' = [pushes EXCEPT ![c] = <<>>] /\ Taken(c)
    /\ UNCHANGED <<storeVars, answers, clientVars, queued, pushed, rivalled, refused,
                   backlog, connects, mishaps>>

-----------------------------------------------------------------------------
(* What may go wrong.                                                      *)

Mishap == mishaps < MaxMishaps /\ mishaps' = mishaps + 1

LineBreaks(c) ==
    /\ line[c] = "up" /\ Mishap /\ Hangup(c)
    /\ UNCHANGED <<storeVars, auth, registry, pushes, toServer, queued, backlog, connects>>

\* A device is slow: 120 seconds for a login, 60 for an operation.
NonceExpires(c) ==
    /\ toServer[c].type \in {"auth", "upload", "extend"} /\ toServer[c].nonce \notin over
    /\ Mishap
    /\ over' = over \cup {toServer[c].nonce}
    /\ UNCHANGED <<challenge, opNonce, issued, socketVars, clientVars, queued, pushed, rivalled,
                   refused, backlog, connects>>

SessionsNext ==
    \/ \E c \in Conn :
          \/ Connect(c) \/ ReadChallenge(c) \/ ReadReady(c) \/ ReadOk(c) \/ ReadError(c)
          \/ KeepFrame(c) \/ HandlePush(c) \/ DropAnswer(c)
          \/ ServeOpen(c) \/ RefuseAuth(c) \/ ServeAuth(c) \/ DeliverPending(c)
          \/ RefuseOp(c) \/ ServeUpload(c) \/ ServeExtend(c) \/ ServeList(c) \/ ServeInboxAck(c)
          \/ SocketEnds(c) \/ LineBreaks(c) \/ NonceExpires(c)

SessionsSpec == SessionsInit /\ [][SessionsNext]_sessionVars

-----------------------------------------------------------------------------
(* Properties.                                                             *)

\* A login or an operation is turned down only when another connection of the
\* same identity logged in or acted meanwhile, or when a nonce was let run
\* out: the session of the worker alone never keeps a request out
\* (take_session_valid, take_op_valid).
OnlyRivalsRefuse == over = {} => refused \subseteq rivalled

\* The worker handles what the server has pushed to its session in the order
\* of the pushes, also what arrived while it waited for the answer to an
\* acknowledgement (recv_until_type, recv_push).
PushesInOrder ==
    [][\A c \in Conn : handled'[c] \in {handled[c], handled[c] + 1, 0}]_sessionVars
=============================================================================
