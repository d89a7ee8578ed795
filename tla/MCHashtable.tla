---------------------------- MODULE MCHashtable -----------------------------
(***************************************************************************)
(* Small instances of Hashtable for TLC, which also compare the steps of   *)
(* Hashtable.tla with the whole calls of HashtableCalls.tla.               *)
(***************************************************************************)
EXTENDS HashtableProps, HashtableCalls, TLC

CONSTANTS k1, k2, k3, k4, v1, v2

(* k1 and k2 collide in every table; k3 starts in the slot after theirs,   *)
(* except in a table of size 2 where 3 and 5 coincide modulo 2.            *)
MCHash3 == k1 :> 5 @@ k2 :> 5 @@ k3 :> 6

MCHash4 == k1 :> 5 @@ k2 :> 5 @@ k3 :> 6 @@ k4 :> 9

(* A prime table short enough for four keys to reach its end. *)
MCPrimes == {2, 3, 5, 7}

VARIABLE before     \* history: the table when the running call was made

bvars == <<vars, before>>

InitBefore == Init /\ before = ht

NextBefore == Next /\ before' = IF call = NULL THEN ht ELSE before

BeforeSpec == InitBefore /\ [][NextBefore]_bvars /\ WF_bvars(Step /\ NextBefore)

(* The three loops of hashtable.c, started from any table the program can  *)
(* reach, return with the table and the answer of the whole call, and do   *)
(* not return when the whole call has no outcome.                          *)
StepsMatchCalls ==
  [][call # NULL /\ call' = NULL =>
       Outcome(ht', result'.ok) \in CallOutcomes(before, call, AllocFails)]_bvars

=============================================================================
