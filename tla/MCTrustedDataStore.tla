------------------------- MODULE MCTrustedDataStore -------------------------
(***************************************************************************)
(* Small instances of TrustedDataStore for TLC.                            *)
(***************************************************************************)
EXTENDS TrustedDataStoreProps, TLC

CONSTANTS a, b, c, zeros, empty

(* a and b collide everywhere, c and the empty string come next to them.   *)
MCHash == a :> 6 @@ b :> 6 @@ c :> 7 @@ empty :> 7 @@ zeros :> 8

MCPrimes == {2, 3, 5, 7, 11, 13, 17, 19, 23, 29, 31, 37}

=============================================================================
