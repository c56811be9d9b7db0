----------------------------- MODULE BridgeRelay -----------------------------
(***************************************************************************)
(* The call bridge of the coordination server (ghalbol_coord/bridge.rs) and *)
(* the two devices that meet on it: one caller, one callee, the bridges     *)
(* that the caller asks for, and their sockets.                             *)
(*                                                                          *)
(* The registry's lock is taken for one block at a time, and every block is *)
(* a step: the look at the token and the joining of the socket are two. A   *)
(* frame is its number among those of its sender. Bytes are not limited     *)
(* (max_bytes 0), and four bridges per identity are never reached by one    *)
(* caller and one callee, since a request replaces the one before.          *)
(***************************************************************************)
EXTENDS Naturals, Sequences, SequencesExt

CONSTANTS
    Bridge,       \* bridge ids, in the order they are given out
    Sock,         \* WebSockets to /v1/bridge/connect, in the order they are opened
    NoSock,
    MaxFrames     \* bound of the frames that clients send

Side == {"caller", "callee"}
Other(s) == IF s = "caller" THEN "callee" ELSE "caller"

BridgeAssumption ==
    /\ Bridge \subseteq Nat /\ Sock \subseteq Nat /\ NoSock \notin Sock
    /\ IsFiniteSet(Sock)
    /\ MaxFrames \in Nat

ASSUME BridgeAssumption

VARIABLES
    asked,        \* bridges the caller has got
    waiting,      \* pending: requested, not paired, not expired
    heard,        \* bridges that the callee has seen in the pending list
    active,       \* keys of the map of active bridges
    wasPaired,    \* those with was_paired
    tx,           \* caller_tx and callee_tx
    held,         \* to_caller and to_callee
    sock          \* of each socket: its server task and its client

registry == <<waiting, active, wasPaired, tx, held>>
bridgeVars == <<asked, heard, registry, sock>>

NewSock == [b |-> 0, side |-> "caller", at |-> "none", client |-> "none",
            in |-> <<>>, flush |-> <<>>, early |-> {}, queue |-> <<>>,
            got |-> <<>>, sent |-> 0]

BridgeInit ==
    /\ asked = {} /\ waiting = {} /\ heard = {}
    /\ active = {} /\ wasPaired = {}
    /\ tx = [b \in Bridge |-> [s \in Side |-> NoSock]]
    /\ held = [b \in Bridge |-> [s \in Side |-> <<>>]]
    /\ sock = [k \in Sock |-> NewSock]

-----------------------------------------------------------------------------
(* Requests, the pending list and expiry.                                   *)

\* post_bridge_request: the new bridge replaces the one that still waits.
Request(b) ==
    /\ b \notin asked /\ \A c \in Bridge : c < b => c \in asked
    /\ asked' = asked \cup {b}
    /\ waiting' = {b}
    /\ UNCHANGED <<heard, active, wasPaired, tx, held, sock>>

\* get_bridge_pending, polled by the callee.
Poll ==
    /\ ~ waiting \subseteq heard
    /\ heard' = heard \cup waiting
    /\ UNCHANGED <<asked, registry, sock>>

\* purge_expired, 90 seconds after the request.
ExpirePending(b) ==
    /\ b \in waiting
    /\ waiting' = waiting \ {b}
    /\ UNCHANGED <<asked, heard, active, wasPaired, tx, held, sock>>

-----------------------------------------------------------------------------
(* The client of a socket: open_bridge_ws and the session that runs on it.  *)

Using(b, s) == {k \in Sock : sock[k].b = b /\ sock[k].side = s}

\* A dial of a candidate address, once the dial before has been given up.
Dial(k, b, s) ==
    /\ sock[k].at = "none" /\ \A j \in Sock : j < k => sock[j].at # "none"
    /\ b \in (IF s = "caller" THEN asked ELSE heard)
    /\ \A j \in Using(b, s) : sock[j].client = "quit"
    /\ sock' = [sock EXCEPT ![k] = [NewSock EXCEPT !.b = b, !.side = s,
                                       !.at = "upgraded", !.client = "dialing"]]
    /\ UNCHANGED <<asked, heard, registry>>

Connected(k) ==
    /\ sock[k].client = "dialing"
    /\ sock' = [sock EXCEPT ![k].client = "up"]
    /\ UNCHANGED <<asked, heard, registry>>

\* A dial that is given up after four seconds, and a session that ends.
GiveUp(k) ==
    /\ sock[k].client = "dialing"
    /\ sock' = [sock EXCEPT ![k].client = "quit"]
    /\ UNCHANGED <<asked, heard, registry>>

Finish(k) ==
    /\ sock[k].client = "up"
    /\ sock' = [sock EXCEPT ![k].client = "gone"]
    /\ UNCHANGED <<asked, heard, registry>>

SendFrame(k) ==
    /\ sock[k].client = "up"
    /\ MapThenSumSet(LAMBDA j : sock[j].sent, Sock) < MaxFrames
    /\ sock' = [sock EXCEPT ![k].sent = @ + 1,
                            ![k].in = Append(@, sock[k].sent + 1)]
    /\ UNCHANGED <<asked, heard, registry>>

-----------------------------------------------------------------------------
(* handle_bridge_socket. A client whose socket is closed is gone.            *)

AtClose(client) == IF client = "quit" THEN "quit" ELSE "gone"

Lookup(k) ==
    /\ sock[k].at = "upgraded"
    /\ \/ sock[k].b \in waiting /\ sock' = [sock EXCEPT ![k].at = "known"]
       \/ /\ sock[k].b \notin waiting
          /\ sock' = [sock EXCEPT ![k].at = "rejected", ![k].in = <<>>, ![k].client = AtClose(@)]
    /\ UNCHANGED <<asked, heard, registry>>

\* Mutant of Join: what waits for the side is dropped.
JoinForgetsHeld(k) ==
    LET b == sock[k].b
        s == sock[k].side
        both == tx[b][Other(s)] # NoSock IN
    /\ sock[k].at = "known"
    /\ active' = active \cup {b}
    /\ tx' = [tx EXCEPT ![b][s] = k]
    /\ wasPaired' = IF both THEN wasPaired \cup {b} ELSE wasPaired
    /\ waiting' = IF both THEN waiting \ {b} ELSE waiting
    /\ held' = [held EXCEPT ![b][s] = <<>>]
    /\ sock' = [sock EXCEPT ![k].at = "flush", ![k].early = Range(held[b][s])]
    /\ UNCHANGED <<asked, heard>>

\* The second block makes the entry if there is none, takes the place of the
\* side, whoever had it, and the frames that wait for it.
Join(k) ==
    LET b == sock[k].b
        s == sock[k].side
        both == tx[b][Other(s)] # NoSock IN
    /\ sock[k].at = "known"
    /\ active' = active \cup {b}
    /\ tx' = [tx EXCEPT ![b][s] = k]
    /\ wasPaired' = IF both THEN wasPaired \cup {b} ELSE wasPaired
    /\ waiting' = IF both THEN waiting \ {b} ELSE waiting
    /\ held' = [held EXCEPT ![b][s] = <<>>]
    /\ sock' = [sock EXCEPT ![k].at = "flush", ![k].flush = held[b][s],
                            ![k].early = Range(held[b][s])]
    /\ UNCHANGED <<asked, heard>>

\* Mutant of Flush: from the end.
FlushFromTheEnd(k) ==
    /\ sock[k].at = "flush"
    /\ \/ sock[k].flush = <<>> /\ sock' = [sock EXCEPT ![k].at = "open"]
       \/ /\ sock[k].flush # <<>>
          /\ sock' = [sock EXCEPT ![k].flush = Front(@), ![k].queue = Append(@, Last(sock[k].flush))]
    /\ UNCHANGED <<asked, heard, registry>>

\* Out of the lock: what was taken goes to the socket's own channel.
Flush(k) ==
    /\ sock[k].at = "flush"
    /\ \/ sock[k].flush = <<>> /\ sock' = [sock EXCEPT ![k].at = "open"]
       \/ /\ sock[k].flush # <<>>
          /\ sock' = [sock EXCEPT ![k].flush = Tail(@), ![k].queue = Append(@, Head(sock[k].flush))]
    /\ UNCHANGED <<asked, heard, registry>>

\* The relay task sends the channel to the client, which reads it when it is up.
Relay(k) ==
    /\ sock[k].at = "open" /\ sock[k].queue # <<>> /\ sock[k].client # "dialing"
    /\ sock' = [sock EXCEPT ![k].queue = Tail(@),
                            ![k].got = IF sock[k].client = "up"
                                       THEN Append(@, Head(sock[k].queue)) ELSE @]
    /\ UNCHANGED <<asked, heard, registry>>

\* Mutant of Forward: to the side that sent it.
ForwardEchoes(k) ==
    LET b == sock[k].b
        s == sock[k].side
        peer == tx[b][s]
        f == Head(sock[k].in)
        read == [sock EXCEPT ![k].in = Tail(@)] IN
    /\ sock[k].at = "open" /\ sock[k].in # <<>>
    /\ \/ /\ b \in active /\ peer # NoSock
          /\ sock' = [read EXCEPT ![peer].queue = Append(@, f)]
          /\ UNCHANGED held
       \/ /\ b \in active /\ peer = NoSock /\ b \notin wasPaired
          /\ sock' = read
          /\ held' = [held EXCEPT ![b][Other(s)] = Append(@, f)]
       \/ /\ b \notin active \/ (peer = NoSock /\ b \in wasPaired)
          /\ sock' = [read EXCEPT ![k].at = "leaving"]
          /\ UNCHANGED held
    /\ UNCHANGED <<asked, heard, waiting, active, wasPaired, tx>>

\* A binary frame: to the other side's channel, or held for it if it has not
\* come yet. A side that has been there and is not any more ends this one.
Forward(k) ==
    LET b == sock[k].b
        s == sock[k].side
        peer == tx[b][Other(s)]
        f == Head(sock[k].in)
        read == [sock EXCEPT ![k].in = Tail(@)] IN
    /\ sock[k].at = "open" /\ sock[k].in # <<>>
    /\ \/ /\ b \in active /\ peer # NoSock
          /\ sock' = [read EXCEPT ![peer].queue = Append(@, f)]
          /\ UNCHANGED held
       \/ /\ b \in active /\ peer = NoSock /\ b \notin wasPaired
          /\ sock' = read
          /\ held' = [held EXCEPT ![b][Other(s)] = Append(@, f)]
       \/ /\ b \notin active \/ (peer = NoSock /\ b \in wasPaired)
          /\ sock' = [read EXCEPT ![k].at = "leaving"]
          /\ UNCHANGED held
    /\ UNCHANGED <<asked, heard, waiting, active, wasPaired, tx>>

Hangup(k) ==
    /\ sock[k].at = "open" /\ sock[k].in = <<>> /\ sock[k].client \in {"quit", "gone"}
    /\ sock' = [sock EXCEPT ![k].at = "leaving"]
    /\ UNCHANGED <<asked, heard, registry>>

\* Nothing came for two minutes: by then a dial has been given up, and the 90
\* seconds of the request are over.
Idle(k) ==
    /\ sock[k].at = "open" /\ sock[k].in = <<>> /\ sock[k].client = "up"
    /\ sock[k].b \notin waiting
    /\ sock' = [sock EXCEPT ![k].at = "leaving"]
    /\ UNCHANGED <<asked, heard, registry>>

\* Mutant of Leave: the entry of a bridge that was never paired stays.
LeaveKeepsUnpaired(k) ==
    LET b == sock[k].b
        places == [tx[b] EXCEPT ![sock[k].side] = NoSock]
        last == b \notin active \/ (b \in wasPaired /\ \A s \in Side : places[s] = NoSock) IN
    /\ sock[k].at = "leaving"
    /\ tx' = IF b \in active THEN [tx EXCEPT ![b] = places] ELSE tx
    /\ active' = IF last THEN active \ {b} ELSE active
    /\ wasPaired' = IF last THEN wasPaired \ {b} ELSE wasPaired
    /\ held' = IF last THEN [held EXCEPT ![b] = [s \in Side |-> <<>>]] ELSE held
    /\ waiting' = IF last THEN waiting \ {b} ELSE waiting
    /\ sock' = [sock EXCEPT ![k].at = "done", ![k].in = <<>>, ![k].queue = <<>>,
                            ![k].client = AtClose(@)]
    /\ UNCHANGED <<asked, heard>>

\* The place of the side is cleared, whoever has it; with the last one the
\* entry goes, and with the entry what waits.
Leave(k) ==
    LET b == sock[k].b
        places == [tx[b] EXCEPT ![sock[k].side] = NoSock]
        last == b \notin active \/ \A s \in Side : places[s] = NoSock IN
    /\ sock[k].at = "leaving"
    /\ tx' = IF b \in active THEN [tx EXCEPT ![b] = places] ELSE tx
    /\ active' = IF last THEN active \ {b} ELSE active
    /\ wasPaired' = IF last THEN wasPaired \ {b} ELSE wasPaired
    /\ held' = IF last THEN [held EXCEPT ![b] = [s \in Side |-> <<>>]] ELSE held
    /\ waiting' = IF last THEN waiting \ {b} ELSE waiting
    /\ sock' = [sock EXCEPT ![k].at = "done", ![k].in = <<>>, ![k].queue = <<>>,
                            ![k].client = AtClose(@)]
    /\ UNCHANGED <<asked, heard>>

Task(k) == Lookup(k) \/ Join(k) \/ Flush(k) \/ Forward(k) \/ Hangup(k) \/ Leave(k)

BridgeNext ==
    \/ \E b \in Bridge : Request(b) \/ ExpirePending(b)
    \/ Poll
    \/ \E k \in Sock, b \in Bridge, s \in Side : Dial(k, b, s)
    \/ \E k \in Sock : Connected(k) \/ GiveUp(k) \/ Finish(k) \/ SendFrame(k)
    \/ \E k \in Sock : Task(k) \/ Relay(k) \/ Idle(k)

\* Server tasks go on, and a request that nobody joins expires. Clients need
\* not do anything, and the two minutes of an idle one need not pass.
BridgeFair ==
    /\ \A k \in Sock : WF_bridgeVars(Task(k)) /\ WF_bridgeVars(Relay(k))
    /\ \A b \in Bridge : WF_bridgeVars(ExpirePending(b))

BridgeSpec == BridgeInit /\ [][BridgeNext]_bridgeVars /\ BridgeFair

-----------------------------------------------------------------------------
(* Properties.                                                              *)

\* An entry of the active map belongs to a task that has joined and has not
\* left: entries do not leak, though one task may clear another one's place.
EntryHasSocket ==
    \A b \in active : \E k \in Sock : /\ sock[k].b = b
                                       /\ sock[k].at \in {"flush", "open", "leaving"}

\* Frames overtake only those that waited for the socket when it joined: a
\* frame forwarded between the joining of the socket and the flush may come
\* first.
OnlyHeldAreOvertaken ==
    \A k \in Sock : LET g == sock[k].got IN
        \A i, j \in DOMAIN g : i < j /\ g[i] > g[j] =>
            g[j] \in sock[k].early /\ g[i] \notin sock[k].early

\* A bridge is a pipe between the clients of its two sides: what they sent, what
\* they got, and whether a socket of the bridge is over.
ClientOf(b, s) == {k \in Sock : /\ sock[k].b = b /\ sock[k].side = s
                                /\ sock[k].client \in {"up", "gone"}}
SentBy(b) == [s \in Side |-> IF ClientOf(b, s) = {} THEN 0
                             ELSE sock[CHOOSE k \in ClientOf(b, s) : TRUE].sent]
GotFrom(b) == [s \in Side |-> IF ClientOf(b, Other(s)) = {} THEN <<>>
                              ELSE sock[CHOOSE k \in ClientOf(b, Other(s)) : TRUE].got]
MetAt(b) == \A s \in Side : \E k \in ClientOf(b, s) :
                sock[k].at \in {"flush", "open", "leaving", "done"}
CutAt(b) == \E k \in Sock : /\ sock[k].b = b
                            /\ sock[k].client = "gone" \/ sock[k].at \in {"leaving", "done"}
PipeOf(b) == INSTANCE BytePipe WITH
    End <- Side, sent <- SentBy(b), arrived <- GotFrom(b), met <- MetAt(b), cut <- CutAt(b)

\* Each frame of a client comes out once at the client of the other side, and
\* no other frame does.
BridgeIsPipe ==
    /\ \A b \in Bridge : PipeOf(b)!Init
    /\ [][\A b \in Bridge : [PipeOf(b)!Next]_(PipeOf(b)!pipe)]_bridgeVars

\* Frames sent before the other side came are not lost either.
BridgeFlows == \A b \in Bridge : PipeOf(b)!Flows
=============================================================================
