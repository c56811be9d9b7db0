----------------------------- MODULE MCDelivery -----------------------------
(* Three parts side by side, for what needs no fairness: the messages of a *)
(* device (DeliverySystem), its connections to the server                  *)
(* (DeliverySessions) and the media of its calls (MediaSessions).  They    *)
(* share no state; the initial state picks the part that moves, and the    *)
(* others rest in their first state.                                       *)
EXTENDS DeliverySystem, DeliverySessions, MediaSessions

CONSTANTS w, u, y

VARIABLE part

partVars == <<part, vars, sessionVars, mediaVars>>

\* DeliverySessions: the worker w of the writer with one short request u beside
\* it, and the worker y of the reader.
Owners == [c \in Conn |-> IF c = y THEN Reader ELSE Writer]

InDelivery == part = "delivery" /\ UNCHANGED <<part, sessionVars, mediaVars>>
InMedia    == part = "media" /\ UNCHANGED <<part, vars, sessionVars>>
InSessions == part = "sessions" /\ UNCHANGED <<part, vars, mediaVars>>

DeliveryInit == part \in {"delivery", "sessions", "media"} /\ Init /\ SessionsInit /\ MediaInit
DeliveryNext ==
    (InDelivery /\ Next) \/ (InSessions /\ SessionsNext) \/ (InMedia /\ MediaNext)
DeliverySpec == DeliveryInit /\ [][DeliveryNext]_partVars

DeliveryTypeOK == TypeOK /\ SessionsTypeOK /\ MediaTypeOK
=============================================================================
