---------------------------- MODULE MCLifetimes ----------------------------
(* Two payment programs, one that only uses secure NFC, one benchmark.     *)
EXTENDS Lifetimes, TLC

CONSTANTS p1, p2, n, t

MCPrograms == {p1, p2, n, t}

MCKind == (p1 :> "pay") @@ (p2 :> "pay") @@ (n :> "nfc") @@ (t :> "tds")
=============================================================================
