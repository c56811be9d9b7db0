------------------------------ MODULE BytePipe ------------------------------
(***************************************************************************)
(* What a bridge promises: frames of either side reach the other one, each *)
(* once and in no order that is promised, until the pipe is cut.           *)
(***************************************************************************)
EXTENDS Naturals, Sequences, Functions

CONSTANT End      \* the two ends, each the sender of one direction

VARIABLES
    sent,         \* how many frames each end has sent, numbered from 1
    arrived,      \* the frames of each end that came out, in the order they did
    met,          \* both ends have come
    cut           \* an end is gone

pipe == <<sent, arrived, met, cut>>

Init == sent = [e \in End |-> 0] /\ arrived = [e \in End |-> <<>>] /\ ~met /\ ~cut

Send(e) ==
    /\ sent' = [sent EXCEPT ![e] = @ + 1]
    /\ UNCHANGED <<arrived, met, cut>>

Arrive(e) ==
    /\ met
    /\ \E f \in 1..sent[e] \ Range(arrived[e]) :
          arrived' = [arrived EXCEPT ![e] = Append(@, f)]
    /\ UNCHANGED <<sent, met, cut>>

Meet == ~met /\ met' = TRUE /\ UNCHANGED <<sent, arrived, cut>>
Cut == ~cut /\ cut' = TRUE /\ UNCHANGED <<sent, arrived, met>>

Next == Meet \/ Cut \/ \E e \in End : Send(e) \/ Arrive(e)

\* Once both ends have come, all that is sent arrives when the ends let it,
\* unless the pipe is cut.
Outstanding == \E e \in End : sent[e] # Len(arrived[e])
Flows == (met /\ Outstanding) ~> (~Outstanding \/ cut)

Spec == Init /\ [][Next]_pipe
=============================================================================
