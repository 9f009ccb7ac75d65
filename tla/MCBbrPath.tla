------------------------------ MODULE MCBbrPath ------------------------------
(* Instance of BbrPath for TLC: model values are not needed.               *)
EXTENDS BbrPath
=============================================================================
