---------------------------- MODULE MCSnfcSession ---------------------------
(***************************************************************************)
(* Instances of SnfcSession for TLC.                                       *)
(***************************************************************************)
EXTENDS SnfcSession

=============================================================================
