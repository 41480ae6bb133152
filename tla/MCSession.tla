------------------------------ MODULE MCSession ------------------------------
(* Session for TLC; the constants are model values given in the cfg files. *)
EXTENDS Session
=============================================================================
