--------------------------- MODULE MCSnfcChannel ----------------------------
(***************************************************************************)
(* Instances of SnfcChannel for TLC.                                       *)
(***************************************************************************)
EXTENDS SnfcChannelProps

=============================================================================
