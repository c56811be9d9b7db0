------------------------------- MODULE MCLive -------------------------------
(* The way of a message in the end, in two parts side by side: its         *)
(* delivery (DeliverySystem) and the queue of read receipts (ReadReceipts, *)
(* with the two messages of MCReceipts).  They share no state; the initial *)
(* state picks the part that moves, and the other rests in its first       *)
(* state.                                                                  *)
EXTENDS DeliverySystem, MCReceipts

VARIABLE part

partVars == <<part, vars, receiptsVars>>

InDelivery == part = "delivery" /\ UNCHANGED <<part, receiptsVars>>
InReceipts == part = "receipts" /\ UNCHANGED <<part, vars>>

LiveInit == part \in {"delivery", "receipts"} /\ Init /\ ReceiptsInit
LiveNext == (InDelivery /\ Next) \/ (InReceipts /\ ReceiptsNext)

\* The fairness of FairSpec and of ReceiptsFairSpec, each while its part moves.
DeliveryFairness ==
    /\ WF_partVars(InDelivery /\ UploadGoesOn) /\ WF_partVars(InDelivery /\ ResultIsKept)
    /\ WF_partVars(InDelivery /\ SenderConnects) /\ WF_partVars(InDelivery /\ NoticeIsRead)
    /\ WF_partVars(InDelivery /\ UploadServed) /\ WF_partVars(InDelivery /\ PushGoesOut)
    /\ WF_partVars(InDelivery /\ InboxServed) /\ WF_partVars(InDelivery /\ ListPending)
    /\ WF_partVars(InDelivery /\ Sweep) /\ WF_partVars(InDelivery /\ ClockTick)
    /\ WF_partVars(InDelivery /\ RecipientConnects) /\ WF_partVars(InDelivery /\ InboundWorker)

ReceiptsFairness ==
    /\ WF_partVars(InReceipts /\ HubWork) /\ WF_partVars(InReceipts /\ BeginSession)
    /\ WF_partVars(InReceipts /\ TickSession) /\ WF_partVars(InReceipts /\ TryRead)
    /\ \A t \in Thread : WF_partVars(InReceipts /\ Receipts(t))

LiveSpec == LiveInit /\ [][LiveNext]_partVars /\ DeliveryFairness /\ ReceiptsFairness
=============================================================================
