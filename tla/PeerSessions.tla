---------------------------- MODULE PeerSessions ----------------------------
(***************************************************************************)
(* The session registries of two devices that know each other              *)
(* (connect/peer_session.rs): who dials, which of several connections is   *)
(* registered, and what a closing connection takes with it.                *)
(*                                                                         *)
(* A connection is a TCP stream of the LAN or a stream relayed by the      *)
(* bridge of the coordination server; both go through start_session_io.    *)
(* Every connection is a task of its own at each end, on a multi-threaded  *)
(* runtime, and the registry is two maps with a lock each, so a            *)
(* registration and a removal are two steps.                               *)
(*                                                                         *)
(* The address of a LAN dial may answer as an identity that is neither of  *)
(* the two.  The handshake then proves that one, and the dial goes on as   *)
(* its session: its entries in the registry and its guard are not kept     *)
(* here.  The read and the write task of an end stop together.             *)
(***************************************************************************)
EXTENDS Naturals, Sequences, FiniteSets

CONSTANTS
    Small, Large,  \* the devices, named by the order of their identity wires
    MaxConns,      \* bound of the connections
    MaxBreaks,     \* bound of the connections that break
    MaxExpiries    \* bound of the mDNS expiries

ASSUME SessionsAssumption ==
    Small # Large /\ MaxConns \in Nat /\ MaxBreaks \in Nat /\ MaxExpiries \in Nat

Device == {Small, Large}
Other(d) == IF d = Small THEN Large ELSE Small
Conn == 1..MaxConns
None == 0

VARIABLES
    dialled,   \* the device that dialled each connection, in order
    end,       \* where each end of a connection is in its life, see Phase
    sessions,  \* registry: sessions, the connection or None
    writers,   \* registry: writers, the connection or None
    inflight,  \* registry: the other device is in dial_inflight
    aborted,   \* ends whose abort flag abort_outbound_duplicate has set
    broken,    \* connections the network has broken
    expiries   \* history: mDNS expiries

registry == <<sessions, writers, inflight>>
network  == <<broken, expiries>>
vars == <<dialled, end, registry, aborted, network>>

Phase == {"none", "shaking", "failed", "astray", "proved", "admitted", "entered",
          "open", "closing", "leaving", "closed"}
Gone == {"closing", "leaving", "closed"}

\* Connections whose end at d has got as far as the registry.
Entered(d) ==
    {c \in DOMAIN dialled : end[d][c] \in {"entered", "open", "closing", "leaving", "closed"}}

TypeOK ==
    /\ dialled \in Seq(Device) /\ Len(dialled) <= MaxConns
    /\ end \in [Device -> [Conn -> Phase]]
    /\ sessions \in [Device -> Conn \cup {None}]
    /\ writers \in [Device -> Conn \cup {None}]
    /\ inflight \in [Device -> BOOLEAN]
    /\ aborted \in [Device -> SUBSET Conn]
    /\ broken \subseteq Conn /\ expiries \in 0..MaxExpiries
    \* What is in the registry has been entered at this end.
    /\ \A d \in Device : {sessions[d], writers[d]} \ {None} \subseteq Entered(d)

Init ==
    /\ dialled = <<>>
    /\ end = [d \in Device |-> [c \in Conn |-> "none"]]
    /\ sessions = [d \in Device |-> None] /\ writers = [d \in Device |-> None]
    /\ inflight = [d \in Device |-> FALSE]
    /\ aborted = [d \in Device |-> {}]
    /\ broken = {} /\ expiries = 0

Outbound(d, c) == dialled[c] = d
Goes(d, c, phase) == end' = [end EXCEPT ![d][c] = phase]
EndDial(d) == inflight' = [inflight EXCEPT ![d] = FALSE]

-----------------------------------------------------------------------------
(* Dialling.                                                               *)

\* A stream dialled by d; the ends at the given devices start the handshake.
Connects(d, ends) ==
    /\ Len(dialled) < MaxConns
    /\ dialled' = Append(dialled, d)
    /\ end' = [x \in Device |-> IF x \in ends
                                THEN [end[x] EXCEPT ![Len(dialled) + 1] = "shaking"]
                                ELSE end[x]]

\* dial_peer_tcp after mDNS has found the other device.  Its address may be
\* another identity's by now.
DialLan(d) ==
    /\ writers[d] = None /\ ~inflight[d]
    /\ Connects(d, Device) \/ Connects(d, {d})
    /\ inflight' = [inflight EXCEPT ![d] = TRUE]
    /\ UNCHANGED <<sessions, writers, aborted, network>>

\* writer_open_for_peer: the receiver of the writer is still there
WriterOpen(d) == writers[d] # None /\ end[d][writers[d]] = "open"

\* A call signal with no writer asks for a bridge, after prune_closed_writers;
\* the other device accepts it when it has no writer either.
DialBridge(d) ==
    /\ ~WriterOpen(d) /\ ~WriterOpen(Other(d))
    /\ Connects(d, Device)
    /\ writers' = [writers EXCEPT ![d] = None]
    /\ UNCHANGED <<sessions, inflight, aborted, network>>

-----------------------------------------------------------------------------
(* start_session_io.                                                       *)

\* Mutant of Prove: the session is entered before it is known to be no duplicate.
ProveEnters(d, c) ==
    /\ end[d][c] = "shaking"
    /\ Outbound(d, c) \/ end[Other(d)][c] \notin {"shaking", "failed"}
    /\ Goes(d, c, "proved")
    /\ sessions' = [sessions EXCEPT ![d] = c]
    /\ UNCHANGED <<dialled, writers, inflight, aborted, network>>

\* The last message of the handshake is the initiator's: the initiator ends
\* first, and the responder ends whatever the initiator has done since.
\* When the identity is not the one that was dialled, start_session_io warns and
\* goes on: whatever it enters and gives back from here is the other's.
Prove(d, c) ==
    /\ end[d][c] = "shaking"
    /\ Outbound(d, c) \/ end[Other(d)][c] \notin {"shaking", "failed"}
    /\ Goes(d, c, IF end[Other(d)][c] = "none" THEN "astray" ELSE "proved")
    /\ UNCHANGED <<dialled, registry, aborted, network>>

\* Mutant of HandshakeFails: the error path keeps the guard of the dial.
FailureKeepsGuard(d, c) ==
    /\ end[d][c] = "shaking"
    /\ c \in broken \/ end[Other(d)][c] = "failed"
    /\ Goes(d, c, "failed")
    /\ UNCHANGED <<dialled, registry, aborted, network>>

\* dial_peer_tcp and start_session_io return on the error
HandshakeFails(d, c) ==
    /\ end[d][c] = "shaking"
    /\ c \in broken \/ end[Other(d)][c] = "failed"
    /\ Goes(d, c, "failed")
    /\ IF Outbound(d, c) THEN EndDial(d) ELSE UNCHANGED inflight
    /\ UNCHANGED <<dialled, sessions, writers, aborted, network>>

\* should_drop_new_outbound
DropsOutbound(d, c) == Outbound(d, c) /\ sessions[d] # None /\ d = Small

\* The outbound duplicate of the smaller device
Drop(d, c) ==
    /\ end[d][c] = "proved" /\ DropsOutbound(d, c)
    /\ Goes(d, c, "closed")
    /\ EndDial(d)
    /\ UNCHANGED <<dialled, sessions, writers, aborted, network>>

\* abort_outbound_duplicate: what the smaller device has registered, if it
\* was dialled from here
Duplicate(d) ==
    {x \in {sessions[d]} \ {None} : d = Small /\ Outbound(d, x)}

Admit(d, c) ==
    /\ end[d][c] = "proved" /\ ~DropsOutbound(d, c)
    /\ Goes(d, c, "admitted")
    /\ aborted' = [aborted EXCEPT ![d] = @ \cup Duplicate(d)]
    /\ UNCHANGED <<dialled, registry, network>>

\* Mutant of Enter: the session is entered before the duplicate is looked up.
EnterThenAbort(d, c) ==
    /\ end[d][c] = "admitted"
    /\ Goes(d, c, "entered")
    /\ sessions' = [sessions EXCEPT ![d] = c]
    /\ UNCHANGED <<dialled, writers, inflight, network>>
    /\ aborted' = [aborted EXCEPT ![d] = @ \cup Duplicate(d)']

\* register_session: an older session is replaced
Enter(d, c) ==
    /\ end[d][c] = "admitted"
    /\ Goes(d, c, "entered")
    /\ sessions' = [sessions EXCEPT ![d] = c]
    /\ UNCHANGED <<dialled, writers, inflight, aborted, network>>

\* The writer replaces an older one, whose channel closes with it; the read
\* and the write task start.
Publish(d, c) ==
    /\ end[d][c] = "entered"
    /\ Goes(d, c, "open")
    /\ writers' = [writers EXCEPT ![d] = c]
    /\ EndDial(d)
    /\ UNCHANGED <<dialled, sessions, aborted, network>>

-----------------------------------------------------------------------------
(* The end of a session.                                                   *)

\* Mutant of Stops: a sender kept elsewhere holds the channel open.
StopsUnlessReplaced(d, c) ==
    \/ c \in aborted[d]
    \/ writers[d] = None
    \/ end[Other(d)][c] \in Gone
    \/ c \in broken

\* The tasks stop when the end is aborted, its channel is closed, or the
\* stream is closed at the other end or broken.
Stops(d, c) ==
    \/ c \in aborted[d]
    \/ writers[d] # c
    \/ end[Other(d)][c] \in Gone
    \/ c \in broken

Close(d, c) ==
    /\ end[d][c] = "open" /\ Stops(d, c)
    /\ Goes(d, c, "closing")
    /\ UNCHANGED <<dialled, registry, aborted, network>>

\* remove_session, by the name of the other device and not of the session:
\* the session registered now is removed ...
RemoveSession(d, c) ==
    /\ end[d][c] = "closing"
    /\ Goes(d, c, "leaving")
    /\ sessions' = [sessions EXCEPT ![d] = None]
    /\ UNCHANGED <<dialled, writers, inflight, aborted, network>>

\* Mutant of RemoveWriter: a newer session in the registry keeps the writer.
RemoveWriterIfAlone(d, c) ==
    /\ end[d][c] = "leaving"
    /\ Goes(d, c, "closed")
    /\ writers' = IF sessions[d] = None THEN [writers EXCEPT ![d] = None] ELSE writers
    /\ EndDial(d)
    /\ UNCHANGED <<dialled, sessions, aborted, network>>

\* ... and then the writer registered now.
RemoveWriter(d, c) ==
    /\ end[d][c] = "leaving"
    /\ Goes(d, c, "closed")
    /\ writers' = [writers EXCEPT ![d] = None]
    /\ EndDial(d)
    /\ UNCHANGED <<dialled, sessions, aborted, network>>

\* mDNS no longer sees the other device: remove_session by the worker.  The
\* two maps change in one step here.
Expire(d) ==
    /\ expiries < MaxExpiries
    /\ expiries' = expiries + 1
    /\ sessions' = [sessions EXCEPT ![d] = None]
    /\ writers' = [writers EXCEPT ![d] = None]
    /\ EndDial(d)
    /\ UNCHANGED <<dialled, end, aborted, broken>>

Break(c) ==
    /\ c \in DOMAIN dialled \ broken /\ Cardinality(broken) < MaxBreaks
    /\ \E d \in Device : end[d][c] \notin Gone \cup {"none", "failed", "astray"}
    /\ broken' = broken \cup {c}
    /\ UNCHANGED <<dialled, end, registry, aborted, expiries>>

-----------------------------------------------------------------------------
EndStep(d, c) ==
    \/ Prove(d, c) \/ HandshakeFails(d, c)
    \/ Drop(d, c) \/ Admit(d, c) \/ Enter(d, c) \/ Publish(d, c)
    \/ Close(d, c) \/ RemoveSession(d, c) \/ RemoveWriter(d, c)

Next ==
    \/ \E d \in Device : DialLan(d) \/ DialBridge(d) \/ Expire(d)
    \/ \E d \in Device, c \in Conn : EndStep(d, c)
    \/ \E c \in Conn : Break(c)

Spec == Init /\ [][Next]_vars

\* The tasks of a connection run; nobody has to dial.
FairSpec == Spec /\ \A d \in Device, c \in Conn : WF_vars(EndStep(d, c))

-----------------------------------------------------------------------------
(* Properties.                                                             *)

\* The registry never names a session that is over, whichever of two
\* overlapping sessions registers and leaves first: a frame is queued to tasks
\* that run, or that are just being removed.
WriterIsAlive ==
    \A d \in Device : writers[d] # None => end[d][writers[d]] \in {"open", "closing", "leaving"}

\* A connection that is alone, and that neither the network nor mDNS touches,
\* stays: the rules against duplicates do not turn against it.
LoneSessionStays ==
    Len(dialled) = 1 /\ broken = {} /\ expiries = 0 =>
        \A d \in Device : end[d][1] \notin Gone \cup {"failed"}

\* The guard of a dial outlives it on one path only: a device that may not dial
\* is in the middle of a dial of its own, or one of its dials was answered by
\* another identity, whose guard end_dial gives back in place of this one's.
GuardHasDial ==
    \A d \in Device : inflight[d] =>
        \E c \in DOMAIN dialled :
            Outbound(d, c) /\ end[d][c] \in {"shaking", "proved", "admitted", "entered", "astray"}

\* Once nobody dials any more the two registries agree, on one session or on
\* none, and no other session is left open (GHALBOL_CONNECT_V1.md: one session
\* per peer is the steady state).
RegistriesAgree ==
    <>[](/\ writers[Small] = writers[Large]
         /\ \A d \in Device, c \in Conn : end[d][c] = "open" => writers[d] = c)

AtRest ==
    \A d \in Device, c \in DOMAIN dialled :
        end[d][c] \in {"closed", "failed"} \/ (end[d][c] = "open" /\ ~Stops(d, c))

\* GHALBOL_CONNECT_V1.md, Simultaneous dial: one session per peer is the steady
\* state and a brief overlap is harmless.  So when the devices dial each other
\* once, and nothing breaks, one session is left.  (A dial that another identity
\* answers never comes to rest.)
SimultaneousDialLeavesSession ==
    AtRest /\ dialled \in {<<Small, Large>>, <<Large, Small>>} /\ broken = {} /\ expiries = 0 =>
        \E c \in DOMAIN dialled : \A d \in Device : end[d][c] = "open"
=============================================================================
