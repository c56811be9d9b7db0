------------------------------- MODULE MCCall -------------------------------
(* An instance of CallSystem for TLC.  The two devices are interchangeable: *)
(* what must happen in the end on one stands for both.                      *)
EXTENDS CallSystem

CONSTANT a
=============================================================================
