--------------------------- MODULE HashtableProps ---------------------------
(***************************************************************************)
(* What must be true of hashtable.c, stated on the state machine of        *)
(* Hashtable.tla.                                                          *)
(***************************************************************************)
EXTENDS Hashtable

Call == [op : Calls, key : Keys, ptr_value : Values \cup {NULL}]

(* Types of all variables, with the part of the state each control point   *)
(* relies on: a table being filled exactly during a rehash, and a search   *)
(* position inside the table searched.                                     *)
TypeOK ==
  /\ IsTable(ht)
  /\ pc \in {"idle", "load", "rehash", "lookup", "store", "overrun"}
  /\ IF pc = "rehash" THEN IsTable(resized) ELSE resized = NULL
  /\ slot \in 0 .. ht.size
  /\ i \in Nat
  /\ IF pc = "idle" THEN call = NULL
     ELSE call \in Call /\ (call.ptr_value # NULL <=> call.op = "insert")
  /\ pc \in {"load", "rehash", "overrun"} => call.op \in {"insert", "delete"}
  /\ pc = "store" => call.op = "insert"
  /\ result \in [ok : BOOLEAN, ret : Values \cup {NULL}]

(* Every stored key can be found again and none is stored twice, in the    *)
(* client's table and in the one a resize is filling, at every step of     *)
(* every operation.                                                        *)
StoredKeysFindable ==
  /\ Reachable(ht) /\ KeysUnique(ht)
  /\ pc = "rehash" => Reachable(resized) /\ KeysUnique(resized)

(* The same for the counter of live entries.                               *)
CountIsLive == Counted(ht) /\ (pc = "rehash" => Counted(resized))

(* hashtable_insert_new_entry has no bound on its probing: whenever it     *)
(* runs, on the table or on the one a resize fills, a free slot exists.    *)
RoomToStore ==
  /\ pc = "store" => ht.n_entries < ht.size
  /\ pc = "rehash" => ht.n_entries < resized.size

(* The static table primes[] ends, and next_prime reads past it.  That     *)
(* cannot happen while fewer than 60% of half the largest prime's slots    *)
(* are in use: with primes up to 1009, up to 302 distinct keys are safe    *)
(* whatever the history of inserts and deletes.                            *)
OverrunNeedsManyKeys ==
  pc = "overrun" =>
    \A p \in Primes :
      Cardinality({k \in Keys : Stored(ht, k)}) * RESIZE_FACTOR * 100 > MAX_LOAD * p

(* The table implements the map of Dict: each call takes effect once, at   *)
(* the step that returns, and no answer differs from the map's.            *)
D == INSTANCE Dict WITH dict <- Contents(ht), MayFail <- AllocFails
ImplementsDict == D!DictSpec

(* A search can only end at a null slot or at the key.  One is always left *)
(* in a table of three slots or more without tombstones, so that a client  *)
(* that never deletes has all its searches end.                            *)
NullSlotRemains ==
  pc = "lookup" /\ NoTombstones(ht) /\ ht.size >= 3 =>
    \E j \in DOMAIN ht.entries : ht.entries[j] = NULL

(* Every call returns to its caller, except a search for an absent key in  *)
(* a table whose every slot holds an entry or a tombstone and a read past  *)
(* the end of primes[]: resizing and storing always come to an end.        *)
SearchExhausted ==
  /\ pc = "lookup"
  /\ call.key \notin {ht.entries[j].key : j \in LiveSlots(ht)}
  /\ \A j \in DOMAIN ht.entries : ht.entries[j] # NULL

CallsReturnUnlessExhausted ==
  (call # NULL) ~> (call = NULL \/ SearchExhausted \/ pc = "overrun")

(* test_hashtable.c, 57: "Deleting again should fail".  A delete of a key  *)
(* that is not stored comes back (and by ImplementsDict answers false).    *)
DeletingAgainFails ==
  (pc = "load" /\ call.op = "delete" /\ Contents(ht)[call.key] = NULL)
     ~> (pc = "idle")

-----------------------------------------------------------------------------
(* The inductive invariant: the properties above and, for each of the      *)
(* three loops, what it has established so far.                            *)

(* The search of hashtable_get_entry_index: the slots probed so far hold   *)
(* tombstones or other keys.                                               *)
Searched ==
  pc = "lookup" =>
    /\ i \in 0 .. ht.size - 1
    /\ \A b \in 0 .. i - 1 :
         LET s == ht.entries[hashtable_hash(call.key, ht.size, b)]
         IN  s # NULL /\ (Live(s) => s.key # call.key)

(* The search for a free slot: the key is new and the slots probed so far  *)
(* are taken.                                                              *)
Storing ==
  pc = "store" =>
    /\ i \in 0 .. ht.size - 1
    /\ Lacks(ht, call.key)
    /\ \A b \in 0 .. i - 1 : Live(ht.entries[hashtable_hash(call.key, ht.size, b)])

(* The copying loop: resized_ht holds the live entries before slot.        *)
Copied(t, o) == \E j \in LiveSlots(t) : t.entries[j] = ht.entries[o]

Rehashing ==
  pc = "rehash" =>
    /\ i \in 0 .. resized.size - 1
    /\ slot < ht.size =>
         IF Live(ht.entries[slot])
         THEN \A b \in 0 .. i - 1 :
                Live(resized.entries[hashtable_hash(ht.entries[slot].key, resized.size, b)])
         ELSE i = 0
    /\ \A o \in LiveSlots(ht) : o < slot => Copied(resized, o)
    /\ \A j \in LiveSlots(resized) :
         \E o \in LiveSlots(ht) : o < slot /\ resized.entries[j] = ht.entries[o]

IInv ==
  /\ TypeOK
  /\ StoredKeysFindable /\ CountIsLive /\ RoomToStore
  /\ Searched /\ Storing /\ Rehashing

-----------------------------------------------------------------------------
(* How full a table may be: the load check before every insert keeps a     *)
(* slot of it free, and a delete that shrinks it leaves room.              *)

NeverFull ==
  /\ ht.n_entries * 100 < (MAX_LOAD + 1) * ht.size + 100
  /\ pc = "rehash" => ht.n_entries * 100 < (MAX_LOAD + 1) * resized.size
  /\ pc \in {"lookup", "store"} /\ call.op = "insert" =>
       ht.n_entries * 100 < (MAX_LOAD + 1) * ht.size

=============================================================================
