------------------------------ MODULE MCAsking ------------------------------
(* The fragment of BrightScript.g4. *)
EXTENDS Asking, BrightScript
=============================================================================
