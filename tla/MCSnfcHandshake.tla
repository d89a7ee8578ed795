-------------------------- MODULE MCSnfcHandshake ---------------------------
(***************************************************************************)
(* Small instances of SnfcHandshake for TLC.                               *)
(***************************************************************************)
EXTENDS SnfcHandshakeProps

=============================================================================
