------------------------------- MODULE MCLinks ------------------------------
(* Two parts that live with a peer's session, side by side: the session    *)
(* registry (PeerSessions) and the picture of a video call that comes over *)
(* the session (VideoFrames).  They share no state; the initial state      *)
(* picks the part that moves, and the other rests in its first state.      *)
EXTENDS PeerSessions, VideoFrames

VARIABLE part

partVars == <<part, vars, videoVars>>

InSessions == part = "sessions" /\ UNCHANGED <<part, videoVars>>
InVideo    == part = "video" /\ UNCHANGED <<part, vars>>

LinksInit == part \in {"sessions", "video"} /\ Init /\ VideoInit
LinksNext == (InSessions /\ Next) \/ (InVideo /\ VideoNext)

\* The fairness of FairSpec and of VideoFairness, each while its part moves.
LinksFairness ==
    /\ \A d \in Device, c \in Conn : WF_partVars(InSessions /\ EndStep(d, c))
    /\ WF_partVars(InVideo /\ \E own \in BOOLEAN : CaptureFrame(own))
    /\ WF_partVars(InVideo /\ FrameArrives) /\ WF_partVars(InVideo /\ RenderFrame)
    /\ WF_partVars(InVideo /\ SendKeyRequest) /\ WF_partVars(InVideo /\ SecondPasses)
    /\ WF_partVars(InVideo /\ KeyRequestArrives)

LinksSpec == LinksInit /\ [][LinksNext]_partVars /\ LinksFairness
=============================================================================
