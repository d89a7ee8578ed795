---------------------------- MODULE HashtableOps ----------------------------
(***************************************************************************)
(* The open-addressing table of trusted_data_store/ta/hashtable: its data  *)
(* layout and the pure parts of its operations.  A table is the C struct   *)
(* hashtable: size slots, a counter of live entries and the slot array.    *)
(* A slot is a null pointer, the address of the static DELETED sentinel,   *)
(* or an entry holding a key and a pointer to the value.                   *)
(*                                                                         *)
(* Keys are abstract; Hash[k] stands for basic_hash(k) before its final    *)
(* "% size", so two keys collide in a table exactly when their hashes are  *)
(* equal modulo its size.                                                  *)
(***************************************************************************)
EXTENDS Integers, FiniteSets

CONSTANTS
  Keys,     \* the strings used as keys
  Values,   \* the pointers stored as values
  Hash,     \* Hash[k]: the 32-bit hash of key k
  Primes,   \* the table primes[] of prime.h (2 to 1009 in the code)
  NULL,     \* the null pointer
  DELETED   \* the address of the tombstone entry

MIN_LOAD == 20
MAX_LOAD == 60
RESIZE_FACTOR == 2

Entry == [key : Keys, ptr_value : Values]

ASSUME HashAssumption == Hash \in [Keys -> Nat]
ASSUME PrimesAssumption == Primes \subseteq Nat \ {0}
ASSUME NullAssumption == NULL \notin Entry \cup Values
ASSUME DeletedAssumption == DELETED \notin Entry \cup {NULL}

Slot == Entry \cup {NULL, DELETED}

(* A well-formed hashtable struct. *)
IsTable(t) ==
  /\ t = [size |-> t.size, n_entries |-> t.n_entries, entries |-> t.entries]
  /\ t.size \in Primes
  /\ t.n_entries \in Nat
  /\ t.entries \in [0 .. t.size - 1 -> Slot]

Live(s) == s \notin {NULL, DELETED}

LiveSlots(t) == {j \in DOMAIN t.entries : Live(t.entries[j])}

(* The load percentage compared with MIN_LOAD and MAX_LOAD. *)
Load(t) == (t.n_entries * 100) \div t.size

(* The slot looked at on the attempt-th probe for key k. *)
hashtable_hash(k, size, attempt) == (Hash[k] + attempt) % size

(* p is what next_prime(n) returns.  When no prime of the table is large   *)
(* enough the code reads past primes[]; no p satisfies this then.          *)
IsNextPrime(n, p) ==
  /\ p \in Primes
  /\ p >= n
  /\ \A q \in Primes : q >= n => p <= q

(* calloc'ed table of new_hashtable. *)
EmptyTable(size) ==
  [size |-> size, n_entries |-> 0, entries |-> [j \in 0 .. size - 1 |-> NULL]]

(* hashtable_insert_new_entry's last two statements: e goes to slot j. *)
WithEntry(t, j, e) ==
  [size      |-> t.size,
   n_entries |-> t.n_entries + 1,
   entries   |-> [t.entries EXCEPT ![j] = e]]

(* Wrong variants of the delete, for testing the properties: one clears    *)
(* the slot, one forgets the counter.                                      *)
WithoutEntryCleared(t, j) ==
  [size |-> t.size, n_entries |-> t.n_entries - 1,
   entries |-> [t.entries EXCEPT ![j] = NULL]]
WithoutEntryUncounted(t, j) ==
  [size |-> t.size, n_entries |-> t.n_entries,
   entries |-> [t.entries EXCEPT ![j] = DELETED]]

(* hashtable_delete's effect on slot j. *)
WithoutEntry(t, j) ==
  [size      |-> t.size,
   n_entries |-> t.n_entries - 1,
   entries   |-> [t.entries EXCEPT ![j] = DELETED]]

(* hashtable_insert on an existing entry: the new pointer overwrites.      *)
WithValue(t, j, v) ==
  [size      |-> t.size,
   n_entries |-> t.n_entries,
   entries   |-> [t.entries EXCEPT ![j] = [key |-> t.entries[j].key, ptr_value |-> v]]]

(* What a table stores, read off the slots without probing. *)
Holds(t, k, v) ==
  \E j \in DOMAIN t.entries :
     /\ Live(t.entries[j])
     /\ t.entries[j] = [key |-> k, ptr_value |-> v]

Stored(t, k) == \E v \in Values : Holds(t, k, v)

Contents(t) ==
  [k \in Keys |-> IF Stored(t, k) THEN CHOOSE v \in Values : Holds(t, k, v)
                                  ELSE NULL]

-----------------------------------------------------------------------------
(* What the operations rely on in a table and have to keep.                *)

(* A well-formed struct whose entries point to values of V: the tables the *)
(* data store keeps in a table, as well as those of Values.                *)
EntriesOf(V) == [key : Keys, ptr_value : V]

IsTableOf(t, V) ==
  /\ t = [size |-> t.size, n_entries |-> t.n_entries, entries |-> t.entries]
  /\ t.size \in Primes
  /\ t.n_entries \in Nat
  /\ t.entries \in [0 .. t.size - 1 -> EntriesOf(V) \cup {NULL, DELETED}]

(* Every stored key can be found again: on the key's probe sequence, all   *)
(* slots before its own are occupied by entries or tombstones, so the      *)
(* search of hashtable_get_entry_index does not stop early.  Deleting by   *)
(* writing NULL, or a resize that copied slots verbatim, would break it.   *)
Reachable(t) ==
  \A j \in LiveSlots(t) :
    \E a \in 0 .. t.size - 1 :
      /\ hashtable_hash(t.entries[j].key, t.size, a) = j
      /\ \A b \in 0 .. a - 1 :
           t.entries[hashtable_hash(t.entries[j].key, t.size, b)] # NULL

(* No key occupies two slots, although insert reuses tombstones that can   *)
(* precede the key's existing entry on its probe sequence.                 *)
KeysUnique(t) ==
  \A j1, j2 \in LiveSlots(t) :
    t.entries[j1].key = t.entries[j2].key => j1 = j2

(* n_entries is the number of live entries: the load checks, the "empty"   *)
(* shortcut of hashtable_get_entry and the data store's test for an empty  *)
(* set all read it in place of the slots.                                  *)
Counted(t) == t.n_entries = Cardinality(LiveSlots(t))

Lacks(t, k) == \A j \in LiveSlots(t) : t.entries[j].key # k

NoTombstones(t) == \A j \in DOMAIN t.entries : t.entries[j] # DELETED

(* The same for a table of which the keys D may be in it several times: a   *)
(* set read from a torn object may hold the empty string more than once.   *)
UniqueBut(t, D) ==
  \A j1, j2 \in LiveSlots(t) :
    t.entries[j1].key = t.entries[j2].key /\ t.entries[j1].key \notin D => j1 = j2

Held(t) == {t.entries[j] : j \in LiveSlots(t)}

KeysIn(t) == {e.key : e \in Held(t)}

(* How many entries a table has beyond one for each of its keys. *)
Excess(t) == t.n_entries - Cardinality(KeysIn(t))

(* What every call keeps: from three slots on, one of them is free. *)
Roomy(t) == t.n_entries * 100 < 61 * t.size + 100

(* All of it, for a table with values of V. *)
Kept(t, V, D) ==
  IsTableOf(t, V) /\ Counted(t) /\ Reachable(t) /\ UniqueBut(t, D)

=============================================================================
