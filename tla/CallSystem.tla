----------------------------- MODULE CallSystem -----------------------------
(***************************************************************************)
(* Call signalling between two devices: the call commands of the hub       *)
(* (host.rs), the call table (call_state.rs), the command worker of native *)
(* connect, its queue of pending signals, and the session between the two. *)
(*                                                                         *)
(* The hub applies a signal to the call table at once and hands it to the  *)
(* worker, which applies it a second time and queues it; a flush moves the *)
(* queue to the session.  Two flushes can run at the same time: the one of *)
(* the worker and the one of a task started when a session becomes ready,  *)
(* which takes a batch out of the queue in one step and sends it in a      *)
(* later one.                                                              *)
(*                                                                         *)
(* Signals are invite, accept and hangup.  reject is handled like hangup   *)
(* by both tables and is sent by no hub command; the video signals do not  *)
(* change the phase.  Time is the age of things, up to RingAge + 1.        *)
(***************************************************************************)
EXTENDS Integers, Sequences, FiniteSets, SequencesExt

CONSTANTS
    Peer,       \* the two devices
    CallId,     \* ids the calls may get; ids are compared, the lower one wins
    RingAge,    \* MAX_LIVE_CALL_INVITE_AGE_MS
    QueueCap,   \* capacity of the queue when a signal is put back
    MaxEnds,    \* bound of the end_call commands
    MaxDrops,   \* bound of the lost sessions
    OthersOnline, \* whether flushes for another contact's session happen
    NoCall      \* no call, or no media

ASSUME CallAssumption ==
    /\ IsFiniteSet(Peer) /\ Cardinality(Peer) = 2
    /\ CallId \subseteq Nat
    /\ {RingAge, QueueCap, MaxEnds, MaxDrops} \subseteq Nat
    /\ OthersOnline \in BOOLEAN
    /\ NoCall \notin CallId \cup Peer

VARIABLES
    call,      \* call_state: the entry of the other device, or NoCall
    target,    \* host.rs active_call: the id end_call names, or NoCall
    media,     \* call_active: the id of the media snapshot, or NoCall
    streams,   \* session.call_media: ids with a running audio stream
    cmds,      \* commands on their way from the hub to the worker
    flushing,  \* the worker has queued a signal and is yet to flush
    pending,   \* pending_call_signals
    ready,     \* a session became ready and its task is yet to flush
    batch,     \* signals that task has drained and not yet sent
    wire,      \* signals in the session, sent by each device
    up,        \* there is a session
    caller,    \* history: who dialled each id, or NoCall
    happened,  \* history: what happened so far, see Events
    ends, drops \* history: counters of the bounded events

hub     == <<target, cmds>>
table   == <<call, media, streams>>
queue   == <<flushing, pending, ready, batch>>
link    == <<wire, up>>
history == <<caller, happened, ends, drops>>
callVars == <<hub, table, queue, link, history>>

Kind   == {"invite", "accept", "hangup"}
Events == {"accept", "end", "drop", "expire", "stale"}
Age    == 0..(RingAge + 1)
Phase  == {"outgoing", "incoming", "connected"}
Call   == [id : CallId, phase : Phase, age : Age]
Signal == [kind : Kind, id : CallId, age : Age]
Command == [do : Kind \cup {"start", "stop"}, id : CallId]

ASSUME CallNulls == NoCall \notin Call

Other(p) == CHOOSE q \in Peer : q # p
Happened(e) == happened' = happened \cup {e}

CallTypeOK ==
    /\ call \in [Peer -> Call \cup {NoCall}]
    /\ target \in [Peer -> CallId \cup {NoCall}]
    /\ media \in [Peer -> CallId \cup {NoCall}]
    /\ streams \in [Peer -> SUBSET CallId]
    /\ cmds \in [Peer -> Seq(Command)]
    /\ flushing \in [Peer -> BOOLEAN]
    /\ \A q \in {pending, batch, wire} : q \in [Peer -> Seq(Signal)]
    /\ ready \in [Peer -> BOOLEAN]
    /\ up \in BOOLEAN
    /\ caller \in [CallId -> Peer \cup {NoCall}]
    /\ happened \subseteq Events
    /\ ends \in 0..MaxEnds /\ drops \in 0..MaxDrops

CallInit ==
    /\ call = [p \in Peer |-> NoCall]
    /\ target = [p \in Peer |-> NoCall]
    /\ media = [p \in Peer |-> NoCall]
    /\ streams = [p \in Peer |-> {}]
    /\ cmds = [p \in Peer |-> <<>>]
    /\ flushing = [p \in Peer |-> FALSE]
    /\ pending = [p \in Peer |-> <<>>]
    /\ ready = [p \in Peer |-> FALSE]
    /\ batch = [p \in Peer |-> <<>>]
    /\ wire = [p \in Peer |-> <<>>]
    /\ up = FALSE
    /\ caller = [i \in CallId |-> NoCall]
    /\ happened = {} /\ ends = 0 /\ drops = 0

-----------------------------------------------------------------------------
(* call_state.rs: the table.  Each operator gives the set with the new     *)
(* entry, empty when the signal is refused.                                *)

Fresh(id, phase) == [id |-> id, phase |-> phase, age |-> 0]
InPhase(c, phase) == c # NoCall /\ c.phase = phase
Named(c, id) == c # NoCall /\ c.id = id

ApplyOutbound(c, kind, id) ==
    CASE kind = "invite" /\ c = NoCall -> {Fresh(id, "outgoing")}
      [] kind = "invite" /\ InPhase(c, "outgoing") /\ Named(c, id) -> {c}
      [] kind = "accept" /\ InPhase(c, "incoming") /\ Named(c, id) -> {Fresh(id, "connected")}
      [] kind = "hangup" -> {NoCall}
      [] OTHER -> {}

\* Mutant of YieldsTo: a dialling side always gives way.
YieldsAlways(c, id) == InPhase(c, "outgoing")

\* Both sides dialled: the lower id is the call.
YieldsTo(c, id) == InPhase(c, "outgoing") /\ id < c.id

ApplyInbound(c, kind, id) ==
    CASE kind = "invite" /\ (c = NoCall \/ YieldsTo(c, id)) -> {Fresh(id, "incoming")}
      [] kind = "accept" /\ Named(c, id) -> {Fresh(id, "connected")}
      [] kind = "hangup" -> {NoCall}
      [] OTHER -> {}

\* Mutant of Overdue: only incoming rings expire.
OverdueIncoming(c) == InPhase(c, "incoming") /\ c.age > RingAge

Overdue(c) == c # NoCall /\ c.phase # "connected" /\ c.age > RingAge

-----------------------------------------------------------------------------
(* The hub.                                                                *)

Orders(p, ds) == cmds' = [cmds EXCEPT ![p] = @ \o ds]
Order(d, id) == [do |-> d, id |-> id]

\* start_voice_call
Dial(p, id) ==
    /\ caller[id] = NoCall
    /\ \E c \in ApplyOutbound(call[p], "invite", id) : call' = [call EXCEPT ![p] = c]
    /\ Orders(p, <<Order("invite", id), Order("start", id)>>)
    /\ target' = [target EXCEPT ![p] = id]
    /\ caller' = [caller EXCEPT ![id] = p]
    /\ UNCHANGED <<media, streams, queue, link, happened, ends, drops>>

\* accept_incoming_call; the status it reads expires old rings first.
Answer(p) ==
    /\ InPhase(call[p], "incoming") /\ ~Overdue(call[p])
    /\ LET id == call[p].id IN
        /\ \E c \in ApplyOutbound(call[p], "accept", id) : call' = [call EXCEPT ![p] = c]
        /\ Orders(p, <<Order("accept", id), Order("start", id)>>)
        /\ target' = [target EXCEPT ![p] = id]
    /\ Happened("accept")
    /\ UNCHANGED <<media, streams, queue, link, caller, ends, drops>>

\* The id end_call names: active_call, else the ring, else the media in the
\* status.
EndTarget(p) ==
    IF target[p] # NoCall THEN target[p]
    ELSE IF call[p] # NoCall /\ call[p].phase # "connected" /\ ~Overdue(call[p])
         THEN call[p].id ELSE media[p]

\* end_call, with p2p_force_end_active_call: the hangup of the media snapshot
\* follows the first one; the table is empty by then.
End(p) ==
    /\ ends < MaxEnds
    /\ EndTarget(p) # NoCall
    /\ Orders(p, <<Order("hangup", EndTarget(p)), Order("stop", EndTarget(p))>> \o
                 (IF media[p] = NoCall THEN <<>>
                  ELSE <<Order("stop", media[p]), Order("hangup", media[p])>>))
    /\ call' = [call EXCEPT ![p] = NoCall]
    /\ media' = [media EXCEPT ![p] = NoCall]
    /\ target' = [target EXCEPT ![p] = NoCall]
    /\ ends' = ends + 1 /\ Happened("end")
    /\ UNCHANGED <<streams, queue, link, caller, drops>>

\* Maintenance of the poll and of the status.
ExpireRing(p) ==
    /\ Overdue(call[p])
    /\ call' = [call EXCEPT ![p] = NoCall]
    /\ Happened("expire")
    /\ UNCHANGED <<hub, media, streams, queue, link, caller, ends, drops>>

-----------------------------------------------------------------------------
(* The worker: one command at a time.                                      *)

NextCmd(p) == Head(cmds[p])
CmdDone(p) == cmds' = [cmds EXCEPT ![p] = Tail(@)]
Enqueued(p, s) == pending' = [pending EXCEPT ![p] = Append(@, s)]


\* A signal that the table refuses now is not queued.
TakeSignal(p) ==
    /\ cmds[p] # <<>> /\ NextCmd(p).do \in Kind /\ ~flushing[p]
    /\ CmdDone(p)
    /\ LET d == NextCmd(p)
           entries == ApplyOutbound(call[p], d.do, d.id) IN
       IF entries = {} THEN UNCHANGED <<call, pending, flushing>>
       ELSE /\ \E c \in entries : call' = [call EXCEPT ![p] = c]
            /\ Enqueued(p, [kind |-> d.do, id |-> d.id, age |-> 0])
            /\ flushing' = [flushing EXCEPT ![p] = TRUE]
    /\ UNCHANGED <<target, media, streams, ready, batch, link, history>>

\* flush_pending_call_signals in the worker, when there is a session.
WorkerFlush(p) ==
    /\ flushing[p]
    /\ flushing' = [flushing EXCEPT ![p] = FALSE]
    /\ IF up THEN /\ wire' = [wire EXCEPT ![p] = @ \o pending[p]]
                  /\ pending' = [pending EXCEPT ![p] = <<>>]
             ELSE UNCHANGED <<wire, pending>>
    /\ UNCHANGED <<hub, table, ready, batch, up, history>>

\* start_call_media_for_peer
TakeStart(p) ==
    /\ cmds[p] # <<>> /\ NextCmd(p).do = "start" /\ ~flushing[p]
    /\ CmdDone(p)
    /\ streams' = [streams EXCEPT ![p] = @ \cup {NextCmd(p).id}]
    /\ media' = [media EXCEPT ![p] = NextCmd(p).id]
    /\ UNCHANGED <<call, target, queue, link, history>>

\* CallMediaStop ends the stream and leaves the snapshot as it is.
TakeStop(p) ==
    /\ cmds[p] # <<>> /\ NextCmd(p).do = "stop" /\ ~flushing[p]
    /\ CmdDone(p)
    /\ streams' = [streams EXCEPT ![p] = @ \ {NextCmd(p).id}]
    /\ UNCHANGED <<call, media, target, queue, link, history>>

-----------------------------------------------------------------------------
(* Sessions and the flush of a new one.                                    *)

LinkUp ==
    /\ ~up
    /\ up' = TRUE
    /\ ready' = [p \in Peer |-> TRUE]
    /\ UNCHANGED <<hub, table, flushing, pending, batch, wire, history>>

\* The frames still in the session are lost.
LinkDown ==
    /\ up /\ drops < MaxDrops
    /\ up' = FALSE
    /\ wire' = [p \in Peer |-> <<>>]
    /\ drops' = drops + 1 /\ Happened("drop")
    /\ UNCHANGED <<hub, table, queue, caller, ends>>

\* on_session_ready: nothing when the session is gone already.
ReadyDrain(p) ==
    /\ ready[p] /\ batch[p] = <<>>
    /\ ready' = [ready EXCEPT ![p] = FALSE]
    /\ IF up THEN /\ batch' = [batch EXCEPT ![p] = pending[p]]
                  /\ pending' = [pending EXCEPT ![p] = <<>>]
             ELSE UNCHANGED <<batch, pending>>
    /\ UNCHANGED <<hub, table, flushing, link, history>>

\* Signals put back one by one, each in front of the queue while there is
\* room: the batch ends up reversed.
PutBack(q, signals) ==
    LET room == IF Len(q) < QueueCap THEN QueueCap - Len(q) ELSE 0
        kept == SubSeq(signals, 1, IF Len(signals) < room THEN Len(signals) ELSE room)
    IN Reverse(kept) \o q

ReadySend(p) ==
    /\ batch[p] # <<>>
    /\ batch' = [batch EXCEPT ![p] = <<>>]
    /\ IF up THEN /\ wire' = [wire EXCEPT ![p] = @ \o batch[p]]
                  /\ UNCHANGED pending
             ELSE /\ pending' = [pending EXCEPT ![p] = PutBack(@, batch[p])]
                  /\ UNCHANGED wire
    /\ UNCHANGED <<hub, table, flushing, ready, up, history>>

\* The flush for another contact's session drains the same queue and puts
\* these signals back.
OthersFlush(p) ==
    /\ OthersOnline /\ Len(pending[p]) > 1
    /\ pending' = [pending EXCEPT ![p] = PutBack(<<>>, @)]
    /\ UNCHANGED <<hub, table, flushing, ready, batch, link, history>>

-----------------------------------------------------------------------------
(* handle_inbound_call_frame *)

Arrival(p) == Head(wire[Other(p)])
Arrives(p) == wire[Other(p)] # <<>>
Consumed(p) == wire' = [wire EXCEPT ![Other(p)] = Tail(@)]

\* An invite that is too old clears the entry of its sender.
ReceiveStaleInvite(p) ==
    /\ Arrives(p) /\ Arrival(p).kind = "invite" /\ Arrival(p).age > RingAge
    /\ Consumed(p)
    /\ call' = [call EXCEPT ![p] = NoCall]
    /\ Happened("stale")
    /\ UNCHANGED <<hub, media, streams, queue, up, caller, ends, drops>>

ReceiveSignal(p) ==
    /\ Arrives(p)
    /\ Arrival(p).kind # "hangup"
    /\ ~(Arrival(p).kind = "invite" /\ Arrival(p).age > RingAge)
    /\ Consumed(p)
    /\ LET entries == ApplyInbound(call[p], Arrival(p).kind, Arrival(p).id) IN
       IF entries = {} THEN UNCHANGED call
       ELSE \E c \in entries : call' = [call EXCEPT ![p] = c]
    /\ UNCHANGED <<hub, media, streams, queue, up, history>>

\* A hangup clears the entry whatever its id; media only when the id is its.
ReceiveHangup(p) ==
    /\ Arrives(p) /\ Arrival(p).kind = "hangup"
    /\ Consumed(p)
    /\ \E c \in ApplyInbound(call[p], "hangup", Arrival(p).id) : call' = [call EXCEPT ![p] = c]
    /\ IF media[p] = Arrival(p).id
       THEN /\ media' = [media EXCEPT ![p] = NoCall]
            /\ streams' = [streams EXCEPT ![p] = @ \ {Arrival(p).id}]
       ELSE UNCHANGED <<media, streams>>
    /\ UNCHANGED <<hub, queue, up, history>>

-----------------------------------------------------------------------------
Older(x) == [x EXCEPT !.age = IF @ > RingAge THEN @ ELSE @ + 1]
OlderAll(q) == [p \in Peer |-> [i \in DOMAIN q[p] |-> Older(q[p][i])]]

TimePasses ==
    /\ call' = [p \in Peer |-> IF call[p] = NoCall THEN NoCall ELSE Older(call[p])]
    /\ pending' = OlderAll(pending)
    /\ batch' = OlderAll(batch)
    /\ wire' = OlderAll(wire)
    /\ UNCHANGED <<hub, media, streams, flushing, ready, up, history>>

Hub(p) == (\E id \in CallId : Dial(p, id)) \/ Answer(p) \/ End(p)
Worker(p) == TakeSignal(p) \/ WorkerFlush(p) \/ TakeStart(p) \/ TakeStop(p)
Session(p) == ReadyDrain(p) \/ ReadySend(p)
Receive(p) == ReceiveStaleInvite(p) \/ ReceiveSignal(p) \/ ReceiveHangup(p)

CallNext ==
    \/ \E p \in Peer : Hub(p) \/ Worker(p) \/ Session(p) \/ Receive(p)
                       \/ ExpireRing(p) \/ OthersFlush(p)
    \/ LinkUp \/ LinkDown \/ TimePasses

CallSpec == CallInit /\ [][CallNext]_callVars

(* The worker and the tasks run, and the maintenance runs with every poll. *)
(* People need not do anything.  Nor need a session come: one bridge is    *)
(* requested when a signal is queued, a request that fails is not made     *)
(* again, and a signal that a flush puts back asks for none.               *)
Fairness ==
    /\ \A p \in Peer : WF_callVars(Worker(p)) /\ WF_callVars(Session(p)) /\ WF_callVars(Receive(p))
                       /\ WF_callVars(ExpireRing(p))
    /\ WF_callVars(TimePasses)

CallFairSpec == CallSpec /\ Fairness

-----------------------------------------------------------------------------
(* Properties.                                                             *)

Ringing(c) == c # NoCall /\ c.phase # "connected"

\* No command, signal or flush is under way.
Quiet == \A p \in Peer : /\ cmds[p] = <<>> /\ pending[p] = <<>> /\ batch[p] = <<>>
                          /\ wire[p] = <<>> /\ ~flushing[p]

\* As long as people only dial, once everything has arrived the devices show
\* the same call: one of them dials it and the other one rings, also when
\* both dialled (apply_inbound, glare), whenever the session comes up.
DialsAgree ==
    Quiet /\ happened = {} =>
        \A p \in Peer : LET c == call[p] o == call[Other(p)] IN
            c # NoCall => /\ Named(o, c.id)
                          /\ {c.phase, o.phase} = {"outgoing", "incoming"}

\* A ring stops or becomes a call in the end.
RingEnds(p) == Ringing(call[p]) ~> ~Ringing(call[p])

\* While sessions keep coming, what a device has queued leaves in the end.
SignalsOfLeave(p) == []<>up => (pending[p] # <<>> ~> pending[p] = <<>>)

\* p2p_runtime.rs:676 says that the second application of a signal by the
\* worker is a no-op or confirms the phase; so an answer reaches the caller.
AnswerConnectsBoth ==
    Quiet /\ happened = {"accept"} =>
        \A p \in Peer : InPhase(call[p], "connected") => InPhase(call[Other(p)], "connected")
=============================================================================
