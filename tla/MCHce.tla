------------------------------- MODULE MCHce --------------------------------
(***************************************************************************)
(* Instances of Hce for TLC.                                               *)
(***************************************************************************)
EXTENDS Hce

=============================================================================
