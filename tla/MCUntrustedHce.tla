--------------------------- MODULE MCUntrustedHce ---------------------------
(***************************************************************************)
(* Instances of UntrustedHce for TLC.                                      *)
(***************************************************************************)
EXTENDS UntrustedHce

(* Failures beyond the number of cards are as good as that many: no step   *)
(* depends on them, they never become fewer, and no more cards than there  *)
(* are can differ.                                                         *)
FailuresThatMatter == IF failures > MaxCards THEN MaxCards ELSE failures

MCView == <<link, svars, cvars, granted, mistaken, FailuresThatMatter>>

=============================================================================
