---------------------------- MODULE VideoFrames ----------------------------
(***************************************************************************)
(* The pictures of a video call on their way from one camera to the other  *)
(* screen: the sender's loop and engine (call_video/session.rs, mod.rs),   *)
(* the chunks (packet.rs), the receiver's jitter buffer (jitter.rs) and    *)
(* the way back of a request for a keyframe (frames.rs).                   *)
(*                                                                         *)
(* The session between the devices keeps the order, so a frame is lost     *)
(* only where a chunk of it finds a full queue or no session.  Frame       *)
(* numbers are compared with their neighbours only; a frame carries        *)
(* whether it follows, that is, whether the frame numbered one lower has   *)
(* arrived.  Both engines run, the call is connected, the camera is on.    *)
(* The adaptive quality only adds keyframes and is left out.               *)
(***************************************************************************)
EXTENDS Integers, Sequences

CONSTANTS
    MaxDepth,   \* DEFAULT_VIDEO_JITTER_MAX
    MaxFlight,  \* bound of the frames on their way
    MaxLost     \* bound of the lost frames

ASSUME VideoAssumption ==
    /\ MaxDepth \in Nat /\ MaxDepth >= 2
    /\ MaxFlight \in Nat \ {0} /\ MaxLost \in Nat

VARIABLES
    forced,    \* sender: force_keyframe
    torn,      \* sender: a chunk of the newest frame was lost
    flight,    \* frames on their way
    buffer,    \* receiver: the jitter map, oldest frame first
    started,   \* receiver: VideoJitter::started
    wanted,    \* receiver: VideoJitter::keyframe_request
    request,   \* receiver: outbound_key_request
    recent,    \* receiver: a key_request was sent less than a second ago
    asking,    \* key_request signals on their way
    lost,      \* history: lost frames
    skipped,   \* history: the last frame to leave the buffer was not decoded
    clean      \* history: every frame decoded since the last keyframe follows
               \* one that was decoded

encoding  == <<forced, torn>>
asked     == <<wanted, request, recent, asking>>
decoding  == <<buffer, started, skipped, clean>>
videoVars == <<encoding, flight, asked, decoding, lost>>

Frame == [key : BOOLEAN, follows : BOOLEAN]

VideoTypeOK ==
    /\ \A b \in {forced, torn, started, wanted, request, recent, asking, skipped, clean} :
           b \in BOOLEAN
    /\ flight \in Seq(Frame) /\ Len(flight) <= MaxFlight
    /\ buffer \in Seq(Frame) /\ Len(buffer) <= MaxDepth
    /\ lost \in 0..MaxLost

VideoInit ==
    /\ forced = TRUE /\ torn = FALSE /\ flight = <<>>
    /\ buffer = <<>> /\ started = FALSE
    /\ wanted = FALSE /\ request = FALSE /\ recent = FALSE /\ asking = FALSE
    /\ lost = 0 /\ skipped = FALSE /\ clean = TRUE

-----------------------------------------------------------------------------
(* The sender.                                                             *)

\* on_capture: the encoder may code a keyframe of its own.
CaptureFrame(own) ==
    /\ Len(flight) < MaxFlight
    /\ flight' = Append(flight, [key |-> forced \/ own, follows |-> ~torn])
    /\ forced' = FALSE /\ torn' = FALSE
    /\ UNCHANGED <<asked, decoding, lost>>

\* wire_out has no room for a chunk of the frame; nothing is sent again.
CaptureTorn ==
    /\ lost < MaxLost /\ lost' = lost + 1
    /\ forced' = FALSE /\ torn' = TRUE
    /\ UNCHANGED <<flight, asked, decoding>>

\* An encoder error asks for a keyframe next time.
EncoderFails ==
    /\ forced' = TRUE
    /\ UNCHANGED <<torn, flight, asked, decoding, lost>>

\* Mutant of KeyRequestArrives: the request finds no video entry.
KeyRequestMissesEntry ==
    /\ asking /\ asking' = FALSE
    /\ UNCHANGED <<encoding, flight, wanted, request, recent, decoding, lost>>

\* call_video_force_keyframe
KeyRequestArrives ==
    /\ asking /\ asking' = FALSE
    /\ forced' = TRUE
    /\ UNCHANGED <<torn, flight, wanted, request, recent, decoding, lost>>

-----------------------------------------------------------------------------
(* The receiver.                                                           *)

\* Mutant of Overflow: the oldest frame goes and nobody is told.
OverflowQuietly(q) ==
    IF Len(q) <= MaxDepth THEN buffer' = q /\ UNCHANGED <<wanted, skipped>>
    ELSE buffer' = Tail(q) /\ skipped' = TRUE /\ UNCHANGED wanted

\* VideoJitter::push drops the oldest frame of a full buffer, moves the cursor
\* behind it and flags that a keyframe is needed.
Overflow(q) ==
    IF Len(q) <= MaxDepth THEN buffer' = q /\ UNCHANGED <<wanted, skipped>>
    ELSE buffer' = Tail(q) /\ skipped' = TRUE /\ wanted' = TRUE

\* on_wire, with the last chunk of a frame.
FrameArrives ==
    /\ flight # <<>> /\ flight' = Tail(flight)
    /\ Overflow(Append(buffer, Head(flight)))
    /\ UNCHANGED <<encoding, request, recent, asking, started, clean, lost>>

\* wire_in has no room for a chunk: the next frame no longer follows.
FrameTorn ==
    /\ flight # <<>> /\ lost < MaxLost /\ lost' = lost + 1
    /\ IF Len(flight) = 1
       THEN flight' = <<>> /\ torn' = TRUE
       ELSE flight' = [Tail(flight) EXCEPT ![1].follows = FALSE] /\ UNCHANGED torn
    /\ UNCHANGED <<forced, asked, decoding>>

Keys == {i \in DOMAIN buffer : buffer[i].key}
FirstKey == CHOOSE i \in Keys : \A j \in Keys : i <= j

\* The frame that pop gives: the one at the cursor once playing, else the
\* first keyframe, for which the older frames are thrown away; 0 for none.
Ready ==
    IF buffer = <<>> THEN 0
    ELSE IF started /\ Head(buffer).follows THEN 1
    ELSE IF Keys # {} THEN FirstKey ELSE 0

Stalled == buffer # <<>> /\ Ready = 0

Decode(i) ==
    /\ buffer' = SubSeq(buffer, i + 1, Len(buffer))
    /\ started' = TRUE /\ skipped' = FALSE
    /\ clean' = (buffer[i].key \/ (clean /\ ~skipped))

\* The render tick: pop, decode, and hand the flag on to the request task.
RenderFrame ==
    /\ IF Ready = 0 THEN UNCHANGED decoding ELSE Decode(Ready)
    /\ request' = (request \/ wanted \/ Stalled)
    /\ wanted' = FALSE
    /\ UNCHANGED <<encoding, flight, recent, asking, lost>>

\* The request task takes the flag, and drops it when it has asked within the
\* last second.
SendKeyRequest ==
    /\ request /\ request' = FALSE
    /\ IF recent THEN UNCHANGED <<recent, asking>> ELSE recent' = TRUE /\ asking' = TRUE
    /\ UNCHANGED <<encoding, flight, wanted, decoding, lost>>

SecondPasses ==
    /\ recent /\ recent' = FALSE
    /\ UNCHANGED <<encoding, flight, wanted, request, asking, decoding, lost>>

VideoNext ==
    \/ \E own \in BOOLEAN : CaptureFrame(own)
    \/ CaptureTorn \/ EncoderFails
    \/ FrameArrives \/ FrameTorn \/ RenderFrame
    \/ SendKeyRequest \/ SecondPasses \/ KeyRequestArrives

(* The camera and the loops run, time passes and signals arrive.           *)
VideoFairness ==
    /\ WF_videoVars(\E own \in BOOLEAN : CaptureFrame(own))
    /\ WF_videoVars(FrameArrives) /\ WF_videoVars(RenderFrame)
    /\ WF_videoVars(SendKeyRequest) /\ WF_videoVars(SecondPasses)
    /\ WF_videoVars(KeyRequestArrives)

VideoSpec == VideoInit /\ [][VideoNext]_videoVars /\ VideoFairness

-----------------------------------------------------------------------------
(* Properties.                                                             *)

\* When the decoder is fed a frame whose predecessor it has not decoded, the
\* request for a keyframe is raised in that tick at the latest, whatever was
\* lost and however the buffer overflowed before (jitter.rs, session.rs).
BrokenPictureIsFlagged == [][clean /\ ~clean' => request']_videoVars

\* A picture that stands still behind a gap moves again: the request reaches
\* the sender's encoder, also when the first keyframe was lost and when a
\* request was dropped for being too soon (jitter.rs pop, frames.rs).
StallEnds == Stalled ~> ~Stalled
=============================================================================
