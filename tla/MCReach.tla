------------------------------ MODULE MCReach ------------------------------
(* How a device is found and rung, in two parts side by side: its presence *)
(* on the coordination servers (CoordPresence) and the signals of a call   *)
(* (CallSystem, with the properties of MCCall).  They share no state; the  *)
(* initial state picks the part that moves, and the other rests in one of  *)
(* its first states.                                                       *)
EXTENDS MCCall, MCCoord

VARIABLE part

partVars == <<part, callVars, coordVars>>

InCall  == part = "call" /\ UNCHANGED <<part, coordVars>>
InCoord == part = "coord" /\ UNCHANGED <<part, callVars>>

\* The first state in which the presence part rests.
CoordRests ==
    /\ left = Budget(1, 0, 1, 1)
    /\ \A s \in Server, i \in Ident : rows[s][i] = NoPresence

ReachInit ==
    /\ part \in {"call", "coord"} /\ CallInit /\ CoordInit
    /\ part = "call" => CoordRests
ReachNext == (InCall /\ CallNext) \/ (InCoord /\ CoordNext)

ReachSpec == ReachInit /\ [][ReachNext]_partVars

\* The fairness of CallFairSpec and of CoordFairSpec, each while its part moves:
\* it is the hypothesis of the liveness properties of that part.
WhenCall(A)  == part = "call" /\ A
WhenCoord(A) == part = "coord" /\ A

CallFairness ==
    /\ \A p \in Peer : /\ WF_callVars(WhenCall(Worker(p))) /\ WF_callVars(WhenCall(Session(p)))
                       /\ WF_callVars(WhenCall(Receive(p)))
                       /\ WF_callVars(WhenCall(ExpireRing(p)))
    /\ WF_callVars(WhenCall(TimePasses))

PresenceFairness ==
    /\ WF_coordVars(WhenCoord(StopSteps)) /\ WF_coordVars(WhenCoord(RegisterTick))
    /\ WF_coordVars(WhenCoord(Pause)) /\ WF_coordVars(WhenCoord(Clock))
    /\ \A x \in Actor : WF_coordVars(WhenCoord(Thread(x)))

\* A ring does not outlive its age: with lost hangups, lost sessions and
\* refused answers it still stops or becomes a call.
RingsEnd == CallFairness => RingEnds(a)


\* Once the device is at ease its row is found again, unless a thread has strayed
\* since the last log out (RowComesBack of CoordPresence).
RowReturns == PresenceFairness => RowComesBack
=============================================================================
