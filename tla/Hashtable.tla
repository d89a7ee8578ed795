----------------------------- MODULE Hashtable ------------------------------
(***************************************************************************)
(* hashtable.c as a state machine: one client thread calls hashtable_get,  *)
(* hashtable_insert and hashtable_delete on one table, and every iteration *)
(* of the code's three probing and copying loops is a step.  An allocation *)
(* may fail wherever the code tests for it.                                *)
(*                                                                         *)
(* The probe counter of the code grows without bound, but only its value   *)
(* modulo the table size is ever used (hashtable_hash), so it is kept      *)
(* modulo the size: a search that never ends is a cycle of the model.      *)
(***************************************************************************)
EXTENDS HashtableOps

CONSTANTS
  InitSize,     \* argument of the new_hashtable call that made the table
  Calls,        \* the operations the client uses
  AllocFails    \* whether calloc and strdup may return NULL

ASSUME InitSizeAssumption == \E p \in Primes : IsNextPrime(InitSize, p)
ASSUME CallsAssumption == Calls \subseteq {"get", "insert", "delete"}
ASSUME AllocFailsAssumption == AllocFails \in BOOLEAN
ASSUME CallNullAssumption ==
  NULL \notin [op : Calls, key : Keys, ptr_value : Values \cup {NULL}]

VARIABLES
  ht,        \* the client's table
  resized,   \* resized_ht while hashtable_resize runs, NULL otherwise
  slot,      \* hashtable_resize's loop index over the old slots
  i,         \* the probe counter of the running search, modulo the table size
  pc,        \* where the thread is
  call,      \* operation and arguments of the running call, NULL between calls
  result     \* return value and *ret of the last call

vars == <<ht, resized, slot, i, pc, call, result>>

Init ==
  /\ \E p \in Primes : IsNextPrime(InitSize, p) /\ ht = EmptyTable(p)
  /\ resized = NULL /\ slot = 0 /\ i = 0
  /\ pc = "idle"
  /\ call = NULL
  /\ result = [ok |-> FALSE, ret |-> NULL]

(* The client calls; insert and delete start with the load check.          *)
Invoke(op, k, v) ==
  /\ pc = "idle"
  /\ v # NULL <=> op = "insert"
  /\ call' = [op |-> op, key |-> k, ptr_value |-> v]
  /\ pc' = IF op = "get" THEN "lookup" ELSE "load"
  /\ i' = 0
  /\ UNCHANGED <<ht, resized, slot, result>>

Return(ok, ret) ==
  /\ pc' = "idle"
  /\ call' = NULL
  /\ result' = [ok |-> ok, ret |-> ret]

-----------------------------------------------------------------------------
(* Load check and resize.                                                  *)

\* Wrong variants: grow only past a load of 100, or after doubling twice.
GrowNeededLate == call.op = "insert" /\ Load(ht) > 100
NewSizeTwice == IF call.op = "insert" THEN ht.size * RESIZE_FACTOR * RESIZE_FACTOR
                                      ELSE ht.size \div RESIZE_FACTOR

GrowNeeded == call.op = "insert" /\ Load(ht) > MAX_LOAD
\* Wrong variant: shrink below the upper load bound.
ShrinkNeededEarly == call.op = "delete" /\ Load(ht) < MAX_LOAD

ShrinkNeeded == call.op = "delete" /\ Load(ht) < MIN_LOAD
NewSize == IF call.op = "insert" THEN ht.size * RESIZE_FACTOR
                                 ELSE ht.size \div RESIZE_FACTOR

LoadFine ==
  /\ pc = "load"
  /\ ~GrowNeeded /\ ~ShrinkNeeded
  /\ pc' = "lookup"
  /\ i' = 0
  /\ UNCHANGED <<ht, resized, slot, call, result>>

StartResize ==
  /\ pc = "load"
  /\ GrowNeeded \/ ShrinkNeeded
  /\ \E p \in Primes : IsNextPrime(NewSize, p) /\ resized' = EmptyTable(p)
  /\ pc' = "rehash"
  /\ slot' = 0
  /\ i' = 0
  /\ UNCHANGED <<ht, call, result>>

(* new_hashtable returns NULL: the operation cannot be performed. *)
ResizeFails ==
  /\ pc = "load"
  /\ GrowNeeded \/ ShrinkNeeded
  /\ \E p \in Primes : IsNextPrime(NewSize, p)
  /\ AllocFails
  /\ Return(FALSE, NULL)
  /\ UNCHANGED <<ht, resized, slot, i>>

(* next_prime has no prime to offer and reads past the array: what the     *)
(* program does next is not defined by the code.                           *)
PrimesOverrun ==
  /\ pc = "load"
  /\ GrowNeeded \/ ShrinkNeeded
  /\ \A p \in Primes : p < NewSize
  /\ pc' = "overrun"
  /\ UNCHANGED <<ht, resized, slot, i, call, result>>

RehashSkip ==
  /\ pc = "rehash" /\ slot < ht.size
  /\ ~Live(ht.entries[slot])
  /\ slot' = slot + 1
  /\ UNCHANGED <<ht, resized, i, pc, call, result>>

(* hashtable_insert_new_entry into resized_ht: one probe per step. *)
RehashIndex == hashtable_hash(ht.entries[slot].key, resized.size, i)

RehashProbe ==
  /\ pc = "rehash" /\ slot < ht.size
  /\ Live(ht.entries[slot])
  /\ Live(resized.entries[RehashIndex])
  /\ i' = (i + 1) % resized.size
  /\ UNCHANGED <<ht, resized, slot, pc, call, result>>

RehashPlace ==
  /\ pc = "rehash" /\ slot < ht.size
  /\ Live(ht.entries[slot])
  /\ ~Live(resized.entries[RehashIndex])
  /\ resized' = WithEntry(resized, RehashIndex, ht.entries[slot])
  /\ slot' = slot + 1
  /\ i' = 0
  /\ UNCHANGED <<ht, pc, call, result>>

\* Wrong variant: resized_ht is not given up after the swap.
RehashDoneKeeps ==
  /\ pc = "rehash" /\ slot = ht.size
  /\ ht' = resized
  /\ slot' = 0
  /\ i' = 0
  /\ pc' = "lookup"
  /\ UNCHANGED <<resized, call, result>>

(* The new slots, counter and size replace the old ones; the search starts. *)
RehashDone ==
  /\ pc = "rehash" /\ slot = ht.size
  /\ ht' = resized
  /\ resized' = NULL
  /\ slot' = 0
  /\ i' = 0
  /\ pc' = "lookup"
  /\ UNCHANGED <<call, result>>

-----------------------------------------------------------------------------
(* hashtable_get_entry and hashtable_get_entry_index: the search.          *)

LookupIndex == hashtable_hash(call.key, ht.size, i)
AtLookup == ht.entries[LookupIndex]

\* Wrong variant: a tombstone ends the search.
MissedAtTombstone == ht.n_entries = 0 \/ ~Live(AtLookup)

Missed == ht.n_entries = 0 \/ AtLookup = NULL
Hit == ht.n_entries > 0 /\ Live(AtLookup) /\ AtLookup.key = call.key

\* Wrong variant: the attempt number is not advanced.
LookupProbeStuck ==
  /\ pc = "lookup"
  /\ ~Missed /\ ~Hit
  /\ UNCHANGED vars

LookupProbe ==
  /\ pc = "lookup"
  /\ ~Missed /\ ~Hit
  /\ i' = (i + 1) % ht.size
  /\ UNCHANGED <<ht, resized, slot, pc, call, result>>

GetHit ==
  /\ pc = "lookup" /\ call.op = "get" /\ Hit
  /\ Return(TRUE, AtLookup.ptr_value)
  /\ UNCHANGED <<ht, resized, slot, i>>

NotFound ==
  /\ pc = "lookup" /\ call.op \in {"get", "delete"} /\ Missed
  /\ Return(FALSE, NULL)
  /\ UNCHANGED <<ht, resized, slot, i>>

DeleteHit ==
  /\ pc = "lookup" /\ call.op = "delete" /\ Hit
  /\ ht' = WithoutEntry(ht, LookupIndex)
  /\ Return(TRUE, AtLookup.ptr_value)
  /\ UNCHANGED <<resized, slot, i>>

InsertHit ==
  /\ pc = "lookup" /\ call.op = "insert" /\ Hit
  /\ ht' = WithValue(ht, LookupIndex, call.ptr_value)
  /\ Return(TRUE, AtLookup.ptr_value)
  /\ UNCHANGED <<resized, slot, i>>

(* create_entry succeeds, and hashtable_insert_new_entry starts probing. *)
InsertMiss ==
  /\ pc = "lookup" /\ call.op = "insert" /\ Missed
  /\ pc' = "store"
  /\ i' = 0
  /\ UNCHANGED <<ht, resized, slot, call, result>>

InsertFails ==
  /\ pc = "lookup" /\ call.op = "insert" /\ Missed
  /\ AllocFails
  /\ Return(FALSE, NULL)
  /\ UNCHANGED <<ht, resized, slot, i>>

\* Wrong variant: the attempt number is not advanced.
StoreProbeStuck ==
  /\ pc = "store"
  /\ Live(AtLookup)
  /\ UNCHANGED vars

StoreProbe ==
  /\ pc = "store"
  /\ Live(AtLookup)
  /\ i' = (i + 1) % ht.size
  /\ UNCHANGED <<ht, resized, slot, pc, call, result>>

StoreEntry ==
  /\ pc = "store"
  /\ ~Live(AtLookup)
  /\ ht' = WithEntry(ht, LookupIndex, [key |-> call.key, ptr_value |-> call.ptr_value])
  /\ Return(TRUE, NULL)
  /\ UNCHANGED <<resized, slot, i>>

-----------------------------------------------------------------------------
Step ==
  \/ LoadFine \/ StartResize \/ ResizeFails \/ PrimesOverrun
  \/ RehashSkip \/ RehashProbe \/ RehashPlace \/ RehashDone
  \/ LookupProbe \/ GetHit \/ NotFound \/ DeleteHit
  \/ InsertHit \/ InsertMiss \/ InsertFails \/ StoreProbe \/ StoreEntry

Next ==
  \/ \E op \in Calls, k \in Keys, v \in Values \cup {NULL} : Invoke(op, k, v)
  \/ Step

Spec == Init /\ [][Next]_vars

(* A call, once made, is executed by its thread; nobody has to call. *)
FairSpec == Spec /\ WF_vars(Step)

=============================================================================
