--------------------------- MODULE MediaSessions ---------------------------
(***************************************************************************)
(* The voice and video streams of the calls of one device: host.rs posts   *)
(* start and stop orders, the outbound worker of native connect carries    *)
(* them out (outbound.rs, frames.rs, session.rs), and each stream is a     *)
(* group of tasks and threads that watch each other: the session           *)
(* (call_media/session.rs, call_video/session.rs), the task that hands its *)
(* sealed packets to the transport, the device (the audio or the camera    *)
(* thread) and the sink that plays or shows what arrives.                  *)
(*                                                                         *)
(* A stop order only takes the stream's entry out of the map, which closes *)
(* the session's wire_in.  The calls are with different contacts.  Sound,  *)
(* pictures, mute and camera switches, and inbound packets change none of  *)
(* this state and are left out.                                            *)
(***************************************************************************)
EXTENDS Integers, Sequences, FiniteSets

CONSTANTS
    MediaCall,   \* calls
    VideoCall,   \* the calls that are dialled with video
    MaxSealed,   \* capacity of wire_out, 256 in the code
    MaxBreaks,   \* bound of the lost links
    NoMedia      \* no call

ASSUME MediaAssumption ==
    /\ VideoCall \subseteq MediaCall /\ NoMedia \notin MediaCall
    /\ MaxSealed \in Nat \ {0} /\ MaxBreaks \in Nat

VARIABLES
    callPhase,    \* call_state: phase of each call, "new" before it is known
    current,  \* host.rs active_call, or NoMedia
    snapshot, \* call_active: the call of the snapshot, or NoMedia
    orders,   \* start and stop commands on their way to the worker
    entry,    \* session.call_media and call_video: streams with an entry
    loop,     \* the session of each stream, see LoopPhase
    halted,   \* streams whose controls.stop is set
    sealed,   \* packets in wire_out
    capture,  \* streams whose capture channel has a sender
    device,   \* streams that hold the microphone or the camera
    sink,     \* streams whose playout or render receiver is alive
    linked,   \* there is a connect session to the peers
    node,     \* the node runs
    breaks,   \* history: lost links
    ended     \* history: calls end_call has named

calls   == <<callPhase, current, snapshot, orders>>
tasks   == <<entry, loop, halted, sealed>>
devices == <<capture, device, sink>>
linkState    == <<linked, node, breaks>>
mediaVars == <<calls, tasks, devices, linkState, ended>>

Stream == [kind : {"voice", "video"}, call : MediaCall]
Voice(c) == [kind |-> "voice", call |-> c]
Video(c) == [kind |-> "video", call |-> c]
LoopPhase == {"none", "running", "closing", "over"}
CallPhase == {"new", "incoming", "outgoing", "connected", "gone"}
StreamOrder == [do : {"start", "stop"}, stream : Stream]

MediaTypeOK ==
    /\ callPhase \in [MediaCall -> CallPhase]
    /\ current \in MediaCall \union {NoMedia} /\ snapshot \in MediaCall \union {NoMedia}
    /\ orders \in Seq(StreamOrder)
    /\ \A q \in {entry, halted, capture, device, sink} : q \subseteq Stream
    /\ device \subseteq capture
    /\ loop \in [Stream -> LoopPhase]
    /\ sealed \in [Stream -> 0..MaxSealed]
    /\ linked \in BOOLEAN /\ node \in BOOLEAN
    /\ breaks \in 0..MaxBreaks /\ ended \subseteq MediaCall

MediaInit ==
    /\ callPhase = [c \in MediaCall |-> "new"]
    /\ current = NoMedia /\ snapshot = NoMedia /\ orders = <<>>
    /\ entry = {} /\ loop = [s \in Stream |-> "none"]
    /\ halted = {} /\ sealed = [s \in Stream |-> 0]
    /\ capture = {} /\ device = {} /\ sink = {}
    /\ linked = TRUE /\ node = TRUE /\ breaks = 0
    /\ ended = {}

-----------------------------------------------------------------------------
(* The hub, and the signals of the other side.                             *)

Starts(ss) == [i \in DOMAIN ss |-> [do |-> "start", stream |-> ss[i]]]
Stops(c) == <<[do |-> "stop", stream |-> Voice(c)], [do |-> "stop", stream |-> Video(c)]>>
Post(os) == orders' = orders \o os

\* start_voice_call and start_video_call
DialMedia(c) ==
    /\ node /\ callPhase[c] = "new"
    /\ callPhase' = [callPhase EXCEPT ![c] = "outgoing"]
    /\ current' = c
    /\ Post(Starts(IF c \in VideoCall THEN <<Voice(c), Video(c)>> ELSE <<Voice(c)>>))
    /\ UNCHANGED <<snapshot, tasks, devices, linkState, ended>>

\* accept_incoming_call
AnswerMedia(c) ==
    /\ node /\ callPhase[c] = "incoming"
    /\ callPhase' = [callPhase EXCEPT ![c] = "connected"]
    /\ current' = c
    /\ Post(Starts(<<Voice(c)>>))
    /\ UNCHANGED <<snapshot, tasks, devices, linkState, ended>>

\* The call end_call names: active_call, else the ring, else the media of the
\* status.
NamedCall ==
    LET ringing == {c \in MediaCall : callPhase[c] \in {"incoming", "outgoing"}} IN
    IF current # NoMedia THEN {current}
    ELSE IF ringing # {} THEN ringing ELSE {snapshot} \ {NoMedia}

Forgotten == [c \in MediaCall |-> IF callPhase[c] = "new" THEN "new" ELSE "gone"]

\* Mutant of EndMedia: only the call of the snapshot is stopped.
EndShown ==
    /\ node
    /\ \E c \in NamedCall :
        /\ Post(IF snapshot = NoMedia THEN <<>> ELSE Stops(snapshot))
        /\ ended' = ended \union ({c, snapshot} \ {NoMedia})
    /\ callPhase' = Forgotten
    /\ current' = NoMedia /\ snapshot' = NoMedia
    /\ UNCHANGED <<tasks, devices, linkState>>

\* end_call, and p2p_force_end_active_call for the snapshot.
EndMedia ==
    /\ node
    /\ \E c \in NamedCall :
        /\ Post(Stops(c) \o (IF snapshot = NoMedia THEN <<>> ELSE Stops(snapshot)))
        /\ ended' = ended \union ({c, snapshot} \ {NoMedia})
    /\ callPhase' = Forgotten
    /\ current' = NoMedia /\ snapshot' = NoMedia
    /\ UNCHANGED <<tasks, devices, linkState>>

\* Invite and accept change the table only.
PeerSignals(c) ==
    /\ node /\ linked /\ callPhase[c] \in {"new", "outgoing"}
    /\ callPhase' = [callPhase EXCEPT ![c] = IF @ = "new" THEN "incoming" ELSE "connected"]
    /\ UNCHANGED <<current, snapshot, orders, tasks, devices, linkState, ended>>

\* Hangup: the entries go only when the snapshot names the call.
PeerHangsUp(c) ==
    /\ node /\ linked /\ callPhase[c] \notin {"new", "gone"}
    /\ callPhase' = [callPhase EXCEPT ![c] = "gone"]
    /\ IF snapshot = c
       THEN entry' = entry \ {Voice(c), Video(c)} /\ snapshot' = NoMedia
       ELSE UNCHANGED <<entry, snapshot>>
    /\ UNCHANGED <<current, orders, loop, halted, sealed, devices, linkState, ended>>

-----------------------------------------------------------------------------
(* The outbound worker.                                                    *)

Owed(d) == node /\ orders # <<>> /\ Head(orders).do = d
Todo == Head(orders).stream

\* start_call_media_for_peer and start_call_video_for_peer.  Without the
\* peer's key nothing starts, nor does voice without its device; without a
\* camera a placeholder holds the capture channel.
StartStream(hasKey, hasDevice) ==
    /\ Owed("start") /\ Todo \notin entry
    /\ orders' = Tail(orders)
    /\ IF hasKey /\ (hasDevice \/ Todo.kind = "video")
       THEN /\ entry' = entry \union {Todo}
            /\ loop' = [loop EXCEPT ![Todo] = "running"]
            /\ capture' = capture \union {Todo} /\ sink' = sink \union {Todo}
            /\ device' = IF hasDevice THEN device \union {Todo} ELSE device
            /\ snapshot' = Todo.call
       ELSE UNCHANGED <<entry, loop, devices, snapshot>>
    /\ UNCHANGED <<callPhase, current, halted, sealed, linkState, ended>>

\* CallMediaStop and CallVideoStop
StopStream ==
    /\ Owed("stop")
    /\ orders' = Tail(orders)
    /\ entry' = entry \ {Todo}
    /\ UNCHANGED <<callPhase, current, snapshot, loop, halted, sealed, devices, linkState, ended>>

-----------------------------------------------------------------------------
(* One stream.                                                             *)

\* A packet that finds wire_out full is dropped.
Seal(s) ==
    /\ node /\ loop[s] = "running" /\ s \in device \ halted /\ sealed[s] < MaxSealed
    /\ sealed' = [sealed EXCEPT ![s] = @ + 1]
    /\ UNCHANGED <<calls, entry, loop, halted, devices, linkState, ended>>

\* The wire-out task sets the flag when it ends: without a link, and when the
\* session is over.
Write(s) ==
    /\ node /\ s \notin halted
    /\ sealed[s] > 0 \/ loop[s] = "over"
    /\ IF sealed[s] > 0 /\ linked
       THEN sealed' = [sealed EXCEPT ![s] = @ - 1] /\ UNCHANGED halted
       ELSE sealed' = [sealed EXCEPT ![s] = 0] /\ halted' = halted \union {s}
    /\ UNCHANGED <<calls, entry, loop, devices, linkState, ended>>

\* The loop ends on the flag, when wire_in or the capture channel is closed.
LeaveLoop(s) ==
    /\ node /\ loop[s] = "running"
    /\ s \in halted \/ s \notin entry \/ s \notin capture
    /\ loop' = [loop EXCEPT ![s] = "closing"]
    /\ UNCHANGED <<calls, entry, halted, sealed, devices, linkState, ended>>

\* The session then waits until its sink is gone; or the runtime drops it.
SessionOver(s) ==
    /\ loop[s] \in {"running", "closing"}
    /\ (loop[s] = "closing" /\ s \notin sink) \/ ~node
    /\ loop' = [loop EXCEPT ![s] = "over"]
    /\ UNCHANGED <<calls, entry, halted, sealed, devices, linkState, ended>>

\* The audio thread and the render task end when the session, which holds
\* their sender and the backend, is over.
SinkEnds(s) ==
    /\ s \in sink /\ loop[s] = "over"
    /\ sink' = sink \ {s}
    /\ IF s.kind = "voice" THEN device' = device \ {s} /\ capture' = capture \ {s}
       ELSE UNCHANGED <<device, capture>>
    /\ UNCHANGED <<calls, tasks, linkState, ended>>

\* The camera thread and the placeholder watch the flag; a camera may fail.
CameraStops(s) ==
    /\ s.kind = "video" /\ s \in capture
    /\ s \in halted
    /\ capture' = capture \ {s} /\ device' = device \ {s}
    /\ UNCHANGED <<calls, tasks, sink, linkState, ended>>

CameraFails(s) ==
    /\ s.kind = "video" /\ s \in device
    /\ capture' = capture \ {s} /\ device' = device \ {s}
    /\ UNCHANGED <<calls, tasks, sink, linkState, ended>>

-----------------------------------------------------------------------------
LinkBreaks ==
    /\ node /\ linked /\ breaks < MaxBreaks
    /\ linked' = FALSE /\ breaks' = breaks + 1
    /\ UNCHANGED <<calls, tasks, devices, node, ended>>

LinkBack ==
    /\ node /\ ~linked
    /\ linked' = TRUE
    /\ UNCHANGED <<calls, tasks, devices, node, breaks, ended>>

\* p2p_stop: the runtime drops its tasks and the session state.
NodeStops ==
    /\ node
    /\ node' = FALSE
    /\ orders' = <<>> /\ entry' = {} /\ sealed' = [s \in Stream |-> 0]
    /\ UNCHANGED <<callPhase, current, snapshot, loop, halted, devices, linked, breaks, ended>>

MediaWorker == StopStream \/ \E k, d \in BOOLEAN : StartStream(k, d)
Tasks(s) == LeaveLoop(s) \/ SessionOver(s)

MediaNext ==
    \/ \E c \in MediaCall : DialMedia(c) \/ AnswerMedia(c) \/ PeerSignals(c) \/ PeerHangsUp(c)
    \/ EndMedia
    \/ MediaWorker
    \/ \E s \in Stream : Seal(s) \/ Write(s) \/ Tasks(s) \/ SinkEnds(s)
                         \/ CameraStops(s) \/ CameraFails(s)
    \/ LinkBreaks \/ LinkBack \/ NodeStops

MediaSpec == MediaInit /\ [][MediaNext]_mediaVars

-----------------------------------------------------------------------------
(* Properties.                                                             *)

\* A call that the user ends is cut off: once the worker has no order left for
\* a stream of it, the stream has no entry, so its session leaves its loop.
\* Also when the call is ended while its streams are still to be started,
\* while another call runs, or after its link broke (host.rs end_call).
EndedCallIsCut ==
    \A s \in Stream :
        s.call \in ended /\ (\A i \in DOMAIN orders : orders[i].stream # s) => s \notin entry
=============================================================================
