-------------------------- MODULE HashtableProofs ---------------------------
(***************************************************************************)
(* Theorems about hashtable.c for every set of keys and values, every hash *)
(* function, every prime table and every initial size.                     *)
(***************************************************************************)
EXTENDS HashtableProps, FiniteSetTheorems, TLAPS

-----------------------------------------------------------------------------
(* The pure operations keep tables well formed.                            *)

(* A probe always looks inside the table. *)
LEMMA IndexRange ==
  ASSUME NEW k \in Keys, NEW n \in Nat \ {0}, NEW a \in Nat
  PROVE  hashtable_hash(k, n, a) \in 0 .. n - 1
<1>1. Hash[k] + a \in Nat
  BY HashAssumption
<1>2. QED
  BY <1>1 DEF hashtable_hash

(* The next attempt modulo the table size: one more, or the start again. *)
LEMMA NextAttempt ==
  ASSUME NEW a \in Nat, NEW n \in Nat \ {0}
  PROVE  /\ (a + 1) % n \in 0 .. n - 1
         /\ (a + 1) % n \in Nat
         /\ a < n => (a + 1) % n = a + 1 \/ (a + 1) % n = 0
<1>1. (a + 1) % n \in 0 .. n - 1
  OBVIOUS
<1>2. a + 1 < n => (a + 1) % n = a + 1
  OBVIOUS
<1>3. n % n = 0
  OBVIOUS
<1>4. QED
  BY <1>1, <1>2, <1>3

LEMMA EmptyTableOK ==
  ASSUME NEW p \in Primes
  PROVE  IsTable(EmptyTable(p))
BY PrimesAssumption DEF IsTable, EmptyTable, Slot

LEMMA WithEntryOK ==
  ASSUME NEW t, IsTable(t), NEW j \in 0 .. t.size - 1, NEW e \in Entry
  PROVE  IsTable(WithEntry(t, j, e))
BY DEF IsTable, WithEntry, Slot

LEMMA WithoutEntryOK ==
  ASSUME NEW t, IsTable(t), NEW j \in 0 .. t.size - 1, t.n_entries > 0
  PROVE  IsTable(WithoutEntry(t, j))
BY DEF IsTable, WithoutEntry, Slot

LEMMA LiveIsEntry ==
  ASSUME NEW t, IsTable(t), NEW j \in 0 .. t.size - 1, Live(t.entries[j])
  PROVE  /\ t.entries[j] \in Entry
         /\ t.entries[j].key \in Keys
         /\ t.entries[j].ptr_value \in Values
         /\ t.entries[j] = [key |-> t.entries[j].key,
                            ptr_value |-> t.entries[j].ptr_value]
BY DEF IsTable, Live, Slot, Entry

LEMMA EntryIsLive ==
  ASSUME NEW e \in Entry
  PROVE  Live(e)
BY NullAssumption, DeletedAssumption DEF Live

LEMMA WithValueOK ==
  ASSUME NEW t, IsTable(t), NEW j \in 0 .. t.size - 1, Live(t.entries[j]),
         NEW v \in Values
  PROVE  IsTable(WithValue(t, j, v))
<1>1. [key |-> t.entries[j].key, ptr_value |-> v] \in Entry
  BY LiveIsEntry DEF Entry
<1>2. QED
  BY <1>1 DEF IsTable, WithValue, Slot

-----------------------------------------------------------------------------
(* Type correctness.                                                       *)

(* The slot a search looks at is a slot of the table. *)
LEMMA LookupSlot ==
  ASSUME TypeOK, pc \in {"lookup", "store"}
  PROVE  /\ LookupIndex \in 0 .. ht.size - 1
         /\ AtLookup \in Slot
         /\ Live(AtLookup) => AtLookup \in Entry
<1>1. call.key \in Keys /\ i \in Nat /\ ht.size \in Nat \ {0}
  BY PrimesAssumption DEF TypeOK, Call, IsTable
<1>2. LookupIndex \in 0 .. ht.size - 1
  BY <1>1, IndexRange DEF LookupIndex
<1>3. QED
  BY <1>2, LiveIsEntry DEF AtLookup, TypeOK, IsTable

(* The same for the slot of resized_ht that a rehash looks at. *)
LEMMA RehashSlot ==
  ASSUME TypeOK, pc = "rehash", slot < ht.size, Live(ht.entries[slot])
  PROVE  /\ slot \in 0 .. ht.size - 1
         /\ RehashIndex \in 0 .. resized.size - 1
         /\ resized.size \in Nat \ {0}
         /\ ht.entries[slot] \in Entry
         /\ ht.entries[slot].key \in Keys
<1>1. slot \in 0 .. ht.size - 1 /\ ht.size \in Nat
  BY PrimesAssumption DEF TypeOK, IsTable
<1>2. ht.entries[slot] \in Entry /\ ht.entries[slot].key \in Keys
  BY <1>1, LiveIsEntry DEF TypeOK
<1>3. resized.size \in Nat \ {0} /\ i \in Nat
  BY PrimesAssumption DEF TypeOK, IsTable
<1>4. QED
  BY <1>1, <1>2, <1>3, IndexRange DEF RehashIndex

LEMMA TypeInit == Init => TypeOK
<1> SUFFICES ASSUME Init
             PROVE  TypeOK
  OBVIOUS
<1>1. PICK p \in Primes : ht = EmptyTable(p)
  BY DEF Init
<1>2. IsTable(ht) /\ ht.size = p /\ p \in Nat
  BY <1>1, EmptyTableOK, PrimesAssumption DEF EmptyTable
<1>3. QED
  BY <1>2 DEF Init, TypeOK

LEMMA TypeStep == TypeOK /\ [Next]_vars => TypeOK'
<1> SUFFICES ASSUME TypeOK, [Next]_vars
             PROVE  TypeOK'
  OBVIOUS
<1>1. ht.size \in Nat \ {0}
  BY PrimesAssumption DEF TypeOK, IsTable
<1>2. ASSUME NEW op \in Calls, NEW k \in Keys, NEW v \in Values \cup {NULL},
             Invoke(op, k, v)
      PROVE  TypeOK'
  BY <1>2, CallsAssumption DEF Invoke, TypeOK, Call
<1>3. CASE LoadFine
  BY <1>3 DEF LoadFine, TypeOK
<1>4. CASE StartResize
  <2>1. PICK p \in Primes : resized' = EmptyTable(p)
    BY <1>4 DEF StartResize
  <2>2. IsTable(resized)'
    BY <2>1, EmptyTableOK DEF IsTable
  <2>3. QED
    BY <1>1, <1>4, <2>2 DEF StartResize, TypeOK, IsTable
<1>5. CASE ResizeFails
  BY <1>5 DEF ResizeFails, Return, TypeOK
<1>6. CASE PrimesOverrun
  BY <1>6 DEF PrimesOverrun, TypeOK
<1>7. CASE RehashSkip
  BY <1>1, <1>7 DEF RehashSkip, TypeOK, IsTable
<1>8. CASE RehashProbe
  <2>1. i' \in Nat
    BY <1>8, RehashSlot, NextAttempt DEF RehashProbe, TypeOK
  <2>2. QED
    BY <1>8, <2>1 DEF RehashProbe, TypeOK, IsTable
<1>9. CASE RehashPlace
  <2>1. IsTable(resized')
    BY <1>9, RehashSlot, WithEntryOK DEF RehashPlace, TypeOK
  <2>2. QED
    BY <1>1, <1>9, <2>1 DEF RehashPlace, TypeOK, IsTable
<1>10. CASE RehashDone
  <2>1. IsTable(ht') /\ ht'.size \in Nat
    BY <1>10, PrimesAssumption DEF RehashDone, TypeOK, IsTable
  <2>2. QED
    BY <1>10, <2>1 DEF RehashDone, TypeOK
<1>11. CASE LookupProbe
  <2>1. i \in Nat /\ i' = (i + 1) % ht.size
    BY <1>11 DEF LookupProbe, TypeOK
  <2>2. i' \in Nat
    BY <1>1, <2>1, NextAttempt
  <2>3. QED
    BY <1>11, <2>2 DEF LookupProbe, TypeOK, IsTable
<1>12. CASE GetHit
  <2>1. AtLookup.ptr_value \in Values
    BY <1>12, LookupSlot DEF GetHit, Hit, Entry
  <2>2. QED
    BY <1>12, <2>1 DEF GetHit, Return, TypeOK
<1>13. CASE NotFound
  BY <1>13 DEF NotFound, Return, TypeOK
<1>14. CASE DeleteHit
  <2>1. AtLookup.ptr_value \in Values
    BY <1>14, LookupSlot DEF DeleteHit, Hit, Entry
  <2>2. IsTable(ht') /\ ht'.size = ht.size
    BY <1>14, LookupSlot, WithoutEntryOK DEF DeleteHit, Hit, TypeOK, WithoutEntry
  <2>3. QED
    BY <1>14, <2>1, <2>2 DEF DeleteHit, Return, TypeOK
<1>15. CASE InsertHit
  <2>1. AtLookup.ptr_value \in Values /\ call.ptr_value \in Values
    BY <1>15, LookupSlot DEF InsertHit, Hit, Entry, TypeOK, Call
  <2>2. IsTable(ht') /\ ht'.size = ht.size
    BY <1>15, <2>1, LookupSlot, WithValueOK
       DEF InsertHit, Hit, TypeOK, WithValue, AtLookup
  <2>3. QED
    BY <1>15, <2>1, <2>2 DEF InsertHit, Return, TypeOK
<1>16. CASE InsertMiss
  BY <1>16 DEF InsertMiss, TypeOK
<1>17. CASE InsertFails
  BY <1>17 DEF InsertFails, Return, TypeOK
<1>18. CASE StoreProbe
  <2>1. i \in Nat /\ i' = (i + 1) % ht.size
    BY <1>18 DEF StoreProbe, TypeOK
  <2>2. i' \in Nat
    BY <1>1, <2>1, NextAttempt
  <2>3. QED
    BY <1>18, <2>2 DEF StoreProbe, TypeOK, IsTable
<1>19. CASE StoreEntry
  <2>1. [key |-> call.key, ptr_value |-> call.ptr_value] \in Entry
    BY <1>19 DEF StoreEntry, TypeOK, Call, Entry
  <2>2. IsTable(ht') /\ ht'.size = ht.size
    BY <1>19, <2>1, LookupSlot, WithEntryOK DEF StoreEntry, TypeOK, WithEntry
  <2>3. QED
    BY <1>19, <2>2 DEF StoreEntry, Return, TypeOK
<1>20. CASE UNCHANGED vars
  BY <1>20 DEF vars, TypeOK, IsTable
<1>21. QED
  BY <1>2, <1>3, <1>4, <1>5, <1>6, <1>7, <1>8, <1>9, <1>10, <1>11, <1>12,
     <1>13, <1>14, <1>15, <1>16, <1>17, <1>18, <1>19, <1>20 DEF Next, Step

(* Every variable keeps its type, whatever the client calls. *)
THEOREM TypeCorrect == Spec => []TypeOK
BY TypeInit, TypeStep, PTL DEF Spec

-----------------------------------------------------------------------------
(* What each pure operation does to the set of live slots, to              *)
(* reachability and to uniqueness.                                         *)

LEMMA SlotsCardinality ==
  ASSUME NEW n \in Nat \ {0}
  PROVE  IsFiniteSet(0 .. n - 1) /\ Cardinality(0 .. n - 1) = n
<1>1. 0 \in Int /\ n - 1 \in Int
  OBVIOUS
<1>2. /\ IsFiniteSet(0 .. n - 1)
      /\ Cardinality(0 .. n - 1) = IF 0 > n - 1 THEN 0 ELSE (n - 1) - 0 + 1
  BY <1>1, FS_Interval
<1>3. QED
  BY <1>2

LEMMA LiveSlotsFinite ==
  ASSUME NEW t, IsTable(t)
  PROVE  /\ IsFiniteSet(LiveSlots(t))
         /\ LiveSlots(t) \subseteq 0 .. t.size - 1
         /\ Cardinality(LiveSlots(t)) \in Nat
         /\ Cardinality(LiveSlots(t)) <= t.size
<1>1. t.size \in Nat \ {0}
  BY PrimesAssumption DEF IsTable
<1>2. LiveSlots(t) \subseteq 0 .. t.size - 1
  BY DEF LiveSlots, IsTable
<1>3. IsFiniteSet(0 .. t.size - 1) /\ Cardinality(0 .. t.size - 1) = t.size
  BY <1>1, SlotsCardinality
<1>4. LiveSlots(t) \in SUBSET (0 .. t.size - 1)
  BY <1>2
<1>5. /\ IsFiniteSet(LiveSlots(t))
      /\ Cardinality(LiveSlots(t)) <= Cardinality(0 .. t.size - 1)
  BY <1>3, <1>4, FS_Subset
<1>6. Cardinality(LiveSlots(t)) \in Nat
  BY <1>5, FS_CardinalityType
<1>7. QED
  BY <1>2, <1>3, <1>5, <1>6

(* A table with a slot that is not live has more slots than live entries.  *)
LEMMA FreeSlotLeaves ==
  ASSUME NEW t, IsTable(t), NEW j \in 0 .. t.size - 1, ~Live(t.entries[j])
  PROVE  Cardinality(LiveSlots(t)) < t.size
<1>1. t.size \in Nat \ {0}
  BY PrimesAssumption DEF IsTable
<1>2. IsFiniteSet(0 .. t.size - 1) /\ Cardinality(0 .. t.size - 1) = t.size
  BY <1>1, SlotsCardinality
<1>3. LiveSlots(t) \subseteq 0 .. t.size - 1 /\ LiveSlots(t) # 0 .. t.size - 1
  BY LiveSlotsFinite DEF LiveSlots
<1>4. /\ Cardinality(LiveSlots(t)) <= Cardinality(0 .. t.size - 1)
      /\ Cardinality(LiveSlots(t)) # Cardinality(0 .. t.size - 1)
  BY <1>2, <1>3, FS_Subset
<1>5. QED
  BY <1>1, <1>2, <1>4, LiveSlotsFinite

LEMMA LiveSlotsEmpty ==
  ASSUME NEW p \in Primes
  PROVE  LiveSlots(EmptyTable(p)) = {}
BY DEF LiveSlots, EmptyTable, Live

LEMMA LiveSlotsWithEntry ==
  ASSUME NEW t, IsTable(t), NEW j \in 0 .. t.size - 1, NEW e \in Entry
  PROVE  LiveSlots(WithEntry(t, j, e)) = LiveSlots(t) \cup {j}
BY EntryIsLive DEF LiveSlots, WithEntry, IsTable

LEMMA LiveSlotsWithoutEntry ==
  ASSUME NEW t, IsTable(t), NEW j \in 0 .. t.size - 1
  PROVE  LiveSlots(WithoutEntry(t, j)) = LiveSlots(t) \ {j}
BY DEF LiveSlots, WithoutEntry, IsTable, Live

LEMMA LiveSlotsWithValue ==
  ASSUME NEW t, IsTable(t), NEW j \in LiveSlots(t), NEW v \in Values
  PROVE  LiveSlots(WithValue(t, j, v)) = LiveSlots(t)
<1>1. j \in 0 .. t.size - 1 /\ Live(t.entries[j])
  BY LiveSlotsFinite DEF LiveSlots
<1>2. Live([key |-> t.entries[j].key, ptr_value |-> v])
  BY <1>1, LiveIsEntry, EntryIsLive DEF Entry
<1>3. QED
  BY <1>1, <1>2 DEF LiveSlots, WithValue, IsTable

LEMMA CountedWithEntry ==
  ASSUME NEW t, IsTable(t), Counted(t),
         NEW j \in 0 .. t.size - 1, ~Live(t.entries[j]), NEW e \in Entry
  PROVE  Counted(WithEntry(t, j, e))
<1>1. j \notin LiveSlots(t)
  BY DEF LiveSlots
<1>2. Cardinality(LiveSlots(t) \cup {j}) = Cardinality(LiveSlots(t)) + 1
  BY <1>1, LiveSlotsFinite, FS_AddElement
<1>3. WithEntry(t, j, e).n_entries = t.n_entries + 1
  BY DEF WithEntry
<1>4. QED
  BY <1>2, <1>3, LiveSlotsWithEntry DEF Counted

LEMMA CountedWithoutEntry ==
  ASSUME NEW t, IsTable(t), Counted(t), NEW j \in LiveSlots(t)
  PROVE  Counted(WithoutEntry(t, j))
<1>1. Cardinality(LiveSlots(t) \ {j}) = Cardinality(LiveSlots(t)) - 1
  BY LiveSlotsFinite, FS_RemoveElement
<1>2. j \in 0 .. t.size - 1
  BY LiveSlotsFinite
<1>3. WithoutEntry(t, j).n_entries = t.n_entries - 1
  BY DEF WithoutEntry
<1>4. QED
  BY <1>1, <1>2, <1>3, LiveSlotsWithoutEntry DEF Counted

LEMMA CountedEmpty ==
  ASSUME NEW p \in Primes
  PROVE  Counted(EmptyTable(p))
BY LiveSlotsEmpty, FS_EmptySet DEF Counted, EmptyTable

(* An absent key placed in the first free slot of its probe sequence can   *)
(* be found there, and all others are still found.                         *)
LEMMA WithEntryFindable ==
  ASSUME NEW t, IsTable(t), Reachable(t), KeysUnique(t),
         NEW e \in Entry, Lacks(t, e.key), NEW a \in 0 .. t.size - 1,
         \A b \in 0 .. a - 1 : Live(t.entries[hashtable_hash(e.key, t.size, b)])
  PROVE  LET u == WithEntry(t, hashtable_hash(e.key, t.size, a), e)
         IN  Reachable(u) /\ KeysUnique(u)
<1> DEFINE j == hashtable_hash(e.key, t.size, a)
           u == WithEntry(t, j, e)
<1>1. t.size \in Nat \ {0} /\ e.key \in Keys
  BY PrimesAssumption DEF IsTable, Entry
<1>2. j \in 0 .. t.size - 1
  BY <1>1, IndexRange
<1>3. LiveSlots(u) = LiveSlots(t) \cup {j}
  BY <1>2, LiveSlotsWithEntry
<1>4. /\ u.size = t.size
      /\ u.entries[j] = e
      /\ \A x \in 0 .. t.size - 1 : x # j => u.entries[x] = t.entries[x]
  BY <1>2 DEF WithEntry, IsTable
<1>5. LiveSlots(t) \subseteq 0 .. t.size - 1
  BY LiveSlotsFinite
<1>6. Live(e) /\ e # NULL
  BY EntryIsLive DEF Live
<1>7. KeysUnique(u)
  <2> SUFFICES ASSUME NEW j1 \in LiveSlots(u), NEW j2 \in LiveSlots(u),
                      u.entries[j1].key = u.entries[j2].key
               PROVE  j1 = j2
    BY DEF KeysUnique
  <2>1. CASE j1 = j \/ j2 = j
    BY <1>3, <1>4, <1>5, <2>1 DEF Lacks
  <2>2. CASE j1 # j /\ j2 # j
    BY <1>3, <1>4, <1>5, <2>2 DEF KeysUnique
  <2>3. QED
    BY <2>1, <2>2
<1>8. Reachable(u)
  <2> SUFFICES ASSUME NEW x \in LiveSlots(u)
               PROVE  \E c \in 0 .. u.size - 1 :
                        /\ hashtable_hash(u.entries[x].key, u.size, c) = x
                        /\ \A b \in 0 .. c - 1 :
                             u.entries[hashtable_hash(u.entries[x].key, u.size, b)] # NULL
    BY DEF Reachable
  <2>1. CASE x = j
    <3>1. hashtable_hash(u.entries[x].key, u.size, a) = x
      BY <1>4, <2>1
    <3>2. \A b \in 0 .. a - 1 :
            u.entries[hashtable_hash(u.entries[x].key, u.size, b)] # NULL
      <4> SUFFICES ASSUME NEW b \in 0 .. a - 1
                   PROVE  u.entries[hashtable_hash(e.key, t.size, b)] # NULL
        BY <1>4, <2>1
      <4>1. hashtable_hash(e.key, t.size, b) \in 0 .. t.size - 1
        BY <1>1, IndexRange
      <4>2. QED
        BY <1>4, <1>6, <4>1 DEF Live
    <3>3. QED
      BY <1>4, <3>1, <3>2
  <2>2. CASE x # j
    <3>1. x \in LiveSlots(t) /\ u.entries[x] = t.entries[x]
      BY <1>3, <1>4, <1>5, <2>2
    <3>2. PICK c \in 0 .. t.size - 1 :
            /\ hashtable_hash(t.entries[x].key, t.size, c) = x
            /\ \A b \in 0 .. c - 1 :
                 t.entries[hashtable_hash(t.entries[x].key, t.size, b)] # NULL
      BY <3>1 DEF Reachable
    <3>3. t.entries[x].key \in Keys
      BY <1>5, <3>1, LiveIsEntry DEF LiveSlots
    <3>4. \A b \in 0 .. c - 1 :
            u.entries[hashtable_hash(u.entries[x].key, u.size, b)] # NULL
      <4> SUFFICES ASSUME NEW b \in 0 .. c - 1
                   PROVE  u.entries[hashtable_hash(t.entries[x].key, t.size, b)] # NULL
        BY <1>4, <3>1
      <4>1. hashtable_hash(t.entries[x].key, t.size, b) \in 0 .. t.size - 1
        BY <1>1, <3>3, IndexRange
      <4>2. QED
        BY <1>4, <1>6, <3>2, <4>1
    <3>5. QED
      BY <1>4, <3>1, <3>2, <3>4
  <2>3. QED
    BY <2>1, <2>2
<1>9. QED
  BY <1>7, <1>8

(* Replacing entries by tombstones, or pointers by pointers, changes no    *)
(* slot to NULL, so what is left can still be found.                       *)
LEMMA StillFindable ==
  ASSUME NEW t, IsTable(t), Reachable(t), KeysUnique(t),
         NEW u, u.size = t.size, DOMAIN u.entries = 0 .. t.size - 1,
         LiveSlots(u) \subseteq LiveSlots(t),
         \A j \in LiveSlots(u) : u.entries[j].key = t.entries[j].key,
         \A j \in 0 .. t.size - 1 : t.entries[j] # NULL => u.entries[j] # NULL
  PROVE  Reachable(u) /\ KeysUnique(u)
<1>1. t.size \in Nat \ {0}
  BY PrimesAssumption DEF IsTable
<1>2. KeysUnique(u)
  BY DEF KeysUnique
<1>3. Reachable(u)
  <2> SUFFICES ASSUME NEW x \in LiveSlots(u)
               PROVE  \E c \in 0 .. u.size - 1 :
                        /\ hashtable_hash(u.entries[x].key, u.size, c) = x
                        /\ \A b \in 0 .. c - 1 :
                             u.entries[hashtable_hash(u.entries[x].key, u.size, b)] # NULL
    BY DEF Reachable
  <2>1. PICK c \in 0 .. t.size - 1 :
          /\ hashtable_hash(t.entries[x].key, t.size, c) = x
          /\ \A b \in 0 .. c - 1 :
               t.entries[hashtable_hash(t.entries[x].key, t.size, b)] # NULL
    BY DEF Reachable
  <2>2. t.entries[x].key \in Keys
    BY LiveSlotsFinite, LiveIsEntry DEF LiveSlots
  <2>3. \A b \in 0 .. c - 1 :
          hashtable_hash(t.entries[x].key, t.size, b) \in 0 .. t.size - 1
    <3> SUFFICES ASSUME NEW b \in 0 .. c - 1
                 PROVE  hashtable_hash(t.entries[x].key, t.size, b) \in 0 .. t.size - 1
      OBVIOUS
    <3>1. b \in Nat
      OBVIOUS
    <3>2. QED
      BY <1>1, <2>2, <3>1, IndexRange
  <2>4. u.entries[x].key = t.entries[x].key /\ u.size = t.size
    OBVIOUS
  <2>5. \A b \in 0 .. c - 1 :
          u.entries[hashtable_hash(u.entries[x].key, u.size, b)] # NULL
    BY <2>1, <2>3, <2>4
  <2>6. QED
    BY <2>1, <2>4, <2>5
<1>4. QED
  BY <1>2, <1>3

LEMMA EmptyFindable ==
  ASSUME NEW p \in Primes
  PROVE  Reachable(EmptyTable(p)) /\ KeysUnique(EmptyTable(p))
BY LiveSlotsEmpty DEF Reachable, KeysUnique

(* The search is complete: if it has come to a null slot without meeting   *)
(* the key, the table does not store it.                                   *)
LEMMA SearchComplete ==
  ASSUME NEW t, IsTable(t), Reachable(t), NEW k \in Keys,
         NEW a \in 0 .. t.size - 1,
         t.entries[hashtable_hash(k, t.size, a)] = NULL,
         \A b \in 0 .. a - 1 :
           LET s == t.entries[hashtable_hash(k, t.size, b)]
           IN  s # NULL /\ (Live(s) => s.key # k)
  PROVE  Lacks(t, k)
<1> SUFFICES ASSUME NEW j \in LiveSlots(t), t.entries[j].key = k
             PROVE  FALSE
  BY DEF Lacks
<1>1. PICK c \in 0 .. t.size - 1 :
        /\ hashtable_hash(k, t.size, c) = j
        /\ \A b \in 0 .. c - 1 : t.entries[hashtable_hash(k, t.size, b)] # NULL
  BY DEF Reachable
<1>2. Live(t.entries[j]) /\ t.entries[j] # NULL
  BY DEF LiveSlots, Live
<1>3. CASE c < a
  BY <1>1, <1>2, <1>3
<1>4. CASE c = a
  BY <1>1, <1>2, <1>4
<1>5. CASE c > a
  <2>1. a \in 0 .. c - 1
    BY <1>5
  <2>2. QED
    BY <1>1, <2>1
<1>6. t.size \in Nat
  BY PrimesAssumption DEF IsTable
<1>7. QED
  BY <1>3, <1>4, <1>5, <1>6

-----------------------------------------------------------------------------
(* The inductive invariant holds initially and is preserved by every       *)
(* action.                                                                 *)

LEMMA IInvInit == Init => IInv
<1> SUFFICES ASSUME Init
             PROVE  IInv
  OBVIOUS
<1>1. PICK p \in Primes : ht = EmptyTable(p)
  BY DEF Init
<1>2. Reachable(ht) /\ KeysUnique(ht) /\ Counted(ht)
  BY <1>1, EmptyFindable, CountedEmpty
<1>3. QED
  BY <1>2, TypeInit
     DEF Init, IInv, StoredKeysFindable, CountIsLive, RoomToStore,
         Searched, Storing, Rehashing

(* Steps that leave both tables alone and do not go on with a loop. *)
LEMMA IInvQuiet ==
  ASSUME IInv, TypeOK', UNCHANGED ht,
         pc' \in {"idle", "load", "overrun"} \/ (pc' = "lookup" /\ i' = 0)
  PROVE  IInv'
<1>1. ht.size \in Nat \ {0}
  BY PrimesAssumption DEF IInv, TypeOK, IsTable
<1>2. Searched'
  BY <1>1 DEF Searched
<1>3. QED
  BY <1>2 DEF IInv, StoredKeysFindable, CountIsLive, RoomToStore, Storing, Rehashing

LEMMA IInvRehashSkip ==
  ASSUME IInv, TypeOK', RehashSkip
  PROVE  IInv'
<1> USE DEF RehashSkip
<1>1. slot \in Nat /\ ht.size \in Nat /\ resized.size \in Nat \ {0}
  BY PrimesAssumption DEF IInv, TypeOK, IsTable
<1>2. Rehashing
  BY DEF IInv
<1>3. i = 0
  BY <1>2 DEF Rehashing
<1>4. \A o \in LiveSlots(ht) : o < slot + 1 => o < slot
  <2> SUFFICES ASSUME NEW o \in LiveSlots(ht), o < slot + 1
               PROVE  o < slot
    OBVIOUS
  <2>1. o \in Nat
    BY <1>1, LiveSlotsFinite DEF IInv, TypeOK
  <2>2. o # slot
    BY DEF LiveSlots
  <2>3. QED
    BY <1>1, <2>1, <2>2
<1>5. \A o \in LiveSlots(ht) : o < slot => o < slot + 1
  BY <1>1, LiveSlotsFinite DEF IInv, TypeOK
<1>6. Rehashing'
  BY <1>1, <1>2, <1>3, <1>4, <1>5 DEF Rehashing, Copied
<1>7. QED
  BY <1>6 DEF IInv, StoredKeysFindable, CountIsLive, RoomToStore, Storing, Searched

LEMMA IInvRehashProbe ==
  ASSUME IInv, TypeOK', RehashProbe
  PROVE  IInv'
<1> USE DEF RehashProbe
<1>1. Rehashing /\ TypeOK
  BY DEF IInv
<1>2. i \in 0 .. resized.size - 1 /\ resized.size \in Nat \ {0}
  BY <1>1, RehashSlot DEF Rehashing
<1>3. i' \in 0 .. resized.size - 1 /\ (i' = i + 1 \/ i' = 0)
  BY <1>2, NextAttempt
<1>4. \A b \in 0 .. i' - 1 :
        Live(resized.entries[hashtable_hash(ht.entries[slot].key, resized.size, b)])
  BY <1>1, <1>2, <1>3 DEF Rehashing, RehashIndex
<1>5. Rehashing'
  BY <1>1, <1>3, <1>4 DEF Rehashing, Copied
<1>6. QED
  BY <1>5 DEF IInv, StoredKeysFindable, CountIsLive, RoomToStore, Storing, Searched

LEMMA IInvLookupProbe ==
  ASSUME IInv, TypeOK', LookupProbe
  PROVE  IInv'
<1> USE DEF LookupProbe
<1>1. Searched /\ TypeOK
  BY DEF IInv
<1>2. i \in 0 .. ht.size - 1 /\ ht.size \in Nat \ {0}
  BY <1>1, PrimesAssumption DEF Searched, TypeOK, IsTable
<1>3. i' \in 0 .. ht.size - 1 /\ (i' = i + 1 \/ i' = 0)
  BY <1>2, NextAttempt
<1>4. AtLookup # NULL /\ (Live(AtLookup) => AtLookup.key # call.key)
  BY <1>1 DEF Missed, Hit, TypeOK, IsTable
<1>5. \A b \in 0 .. i' - 1 :
        LET s == ht.entries[hashtable_hash(call.key, ht.size, b)]
        IN  s # NULL /\ (Live(s) => s.key # call.key)
  BY <1>1, <1>2, <1>3, <1>4 DEF Searched, AtLookup, LookupIndex
<1>6. Searched'
  BY <1>3, <1>5 DEF Searched
<1>7. QED
  BY <1>6 DEF IInv, StoredKeysFindable, CountIsLive, RoomToStore, Storing, Rehashing

(* A search that has missed proves that the key is absent. *)
LEMMA MissedMeansAbsent ==
  ASSUME IInv, pc = "lookup", Missed
  PROVE  /\ Lacks(ht, call.key)
         /\ ht.n_entries < ht.size
<1>1. /\ IsTable(ht) /\ Reachable(ht) /\ Counted(ht)
      /\ ht.size \in Nat \ {0} /\ ht.n_entries \in Nat
      /\ call.key \in Keys
  BY PrimesAssumption
     DEF IInv, StoredKeysFindable, CountIsLive, TypeOK, IsTable, Call
<1>2. CASE ht.n_entries = 0
  <2>1. LiveSlots(ht) = {}
    BY <1>1, <1>2, LiveSlotsFinite, FS_EmptySet DEF Counted
  <2>2. QED
    BY <1>1, <1>2, <2>1 DEF Lacks
<1>3. CASE AtLookup = NULL
  <2>1. LookupIndex \in 0 .. ht.size - 1
    BY LookupSlot DEF IInv
  <2>2. Lacks(ht, call.key)
    BY <1>1, <1>3, SearchComplete DEF IInv, Searched, AtLookup, LookupIndex
  <2>3. Cardinality(LiveSlots(ht)) < ht.size
    BY <1>1, <1>3, <2>1, FreeSlotLeaves DEF AtLookup, Live
  <2>4. QED
    BY <1>1, <2>2, <2>3 DEF Counted
<1>4. QED
  BY <1>2, <1>3 DEF Missed

LEMMA IInvInsertMiss ==
  ASSUME IInv, TypeOK', InsertMiss
  PROVE  IInv'
<1> USE DEF InsertMiss
<1>1. Lacks(ht, call.key) /\ ht.n_entries < ht.size
  BY MissedMeansAbsent
<1>2. ht.size \in Nat \ {0}
  BY PrimesAssumption DEF IInv, TypeOK, IsTable
<1>3. Lacks(ht, call.key)'
  BY <1>1 DEF Lacks
<1>4. Storing' /\ RoomToStore'
  BY <1>1, <1>2, <1>3 DEF Storing, RoomToStore
<1>5. QED
  BY <1>4 DEF IInv, StoredKeysFindable, CountIsLive, Searched, Rehashing

LEMMA IInvStoreProbe ==
  ASSUME IInv, TypeOK', StoreProbe
  PROVE  IInv'
<1> USE DEF StoreProbe
<1>1. Storing /\ TypeOK
  BY DEF IInv
<1>2. i \in 0 .. ht.size - 1 /\ ht.size \in Nat \ {0}
  BY <1>1, PrimesAssumption DEF Storing, TypeOK, IsTable
<1>3. i' \in 0 .. ht.size - 1 /\ (i' = i + 1 \/ i' = 0)
  BY <1>2, NextAttempt
<1>4. \A b \in 0 .. i' - 1 : Live(ht.entries[hashtable_hash(call.key, ht.size, b)])
  BY <1>1, <1>2, <1>3 DEF Storing, AtLookup, LookupIndex
<1>5. Storing'
  BY <1>1, <1>3, <1>4 DEF Storing, Lacks
<1>6. QED
  BY <1>5 DEF IInv, StoredKeysFindable, CountIsLive, RoomToStore, Searched, Rehashing

(* Placing the entry of the current old slot in resized_ht. *)
LEMMA IInvRehashPlace ==
  ASSUME IInv, TypeOK', RehashPlace
  PROVE  IInv'
<1> USE DEF RehashPlace
<1> DEFINE e == ht.entries[slot]
<1>1. /\ TypeOK /\ Rehashing /\ IsTable(ht) /\ IsTable(resized)
      /\ Reachable(resized) /\ KeysUnique(resized) /\ Counted(resized)
      /\ KeysUnique(ht)
  BY DEF IInv, StoredKeysFindable, CountIsLive, TypeOK
<1>2. /\ slot \in 0 .. ht.size - 1 /\ e \in Entry /\ e.key \in Keys
      /\ RehashIndex \in 0 .. resized.size - 1
      /\ resized.size \in Nat \ {0} /\ ht.size \in Nat
  BY <1>1, RehashSlot, PrimesAssumption DEF IsTable
<1>3. slot \in LiveSlots(ht)
  BY <1>1, <1>2 DEF LiveSlots, IsTable
<1>4. LiveSlots(ht) \subseteq 0 .. ht.size - 1
  BY <1>1, LiveSlotsFinite
<1>5. Lacks(resized, e.key)
  <2> SUFFICES ASSUME NEW j \in LiveSlots(resized), resized.entries[j].key = e.key
               PROVE  FALSE
    BY DEF Lacks
  <2>1. PICK o \in LiveSlots(ht) : o < slot /\ resized.entries[j] = ht.entries[o]
    BY <1>1 DEF Rehashing
  <2>2. o = slot
    BY <1>1, <1>3, <2>1 DEF KeysUnique
  <2>3. QED
    BY <1>2, <2>1, <2>2
<1>6. /\ i \in 0 .. resized.size - 1
      /\ \A b \in 0 .. i - 1 :
           Live(resized.entries[hashtable_hash(e.key, resized.size, b)])
  BY <1>1, <1>2 DEF Rehashing
<1>7. Reachable(resized') /\ KeysUnique(resized')
  BY <1>1, <1>2, <1>5, <1>6, WithEntryFindable DEF RehashIndex
<1>8. Counted(resized')
  BY <1>1, <1>2, CountedWithEntry
<1>9. LiveSlots(resized') = LiveSlots(resized) \cup {RehashIndex}
  BY <1>1, <1>2, LiveSlotsWithEntry
<1>10. /\ resized'.size = resized.size
       /\ resized'.entries[RehashIndex] = e
       /\ \A j \in LiveSlots(resized) : resized'.entries[j] = resized.entries[j]
  BY <1>1, <1>2 DEF WithEntry, IsTable, LiveSlots
<1>11. \A o \in LiveSlots(ht) : o < slot' => Copied(resized, o)'
  <2> SUFFICES ASSUME NEW o \in LiveSlots(ht), o < slot + 1
               PROVE  \E j \in LiveSlots(resized') : resized'.entries[j] = ht.entries[o]
    BY DEF Copied
  <2>1. CASE o = slot
    BY <1>9, <1>10, <2>1
  <2>2. CASE o # slot
    <3>1. o < slot
      BY <1>2, <1>4, <2>2
    <3>2. PICK j \in LiveSlots(resized) : resized.entries[j] = ht.entries[o]
      BY <1>1, <3>1 DEF Rehashing, Copied
    <3>3. QED
      BY <1>9, <1>10, <3>2
  <2>3. QED
    BY <2>1, <2>2
<1>12. \A j \in LiveSlots(resized') :
         \E o \in LiveSlots(ht) : o < slot' /\ resized'.entries[j] = ht.entries[o]
  <2> SUFFICES ASSUME NEW j \in LiveSlots(resized')
               PROVE  \E o \in LiveSlots(ht) :
                         o < slot + 1 /\ resized'.entries[j] = ht.entries[o]
    OBVIOUS
  <2>1. CASE j \in LiveSlots(resized)
    <3>1. PICK o \in LiveSlots(ht) : o < slot /\ resized.entries[j] = ht.entries[o]
      BY <1>1, <2>1 DEF Rehashing
    <3>2. o < slot + 1
      BY <1>2, <1>4, <3>1
    <3>3. QED
      BY <1>10, <2>1, <3>1, <3>2
  <2>2. CASE j = RehashIndex
    <3>1. slot < slot + 1
      BY <1>2
    <3>2. QED
      BY <1>3, <1>10, <2>2, <3>1
  <2>3. QED
    BY <1>9, <2>1, <2>2
<1>13. Rehashing'
  BY <1>2, <1>10, <1>11, <1>12 DEF Rehashing
<1>14. StoredKeysFindable' /\ CountIsLive' /\ RoomToStore'
  BY <1>7, <1>8, <1>10 DEF IInv, StoredKeysFindable, CountIsLive, RoomToStore
<1>15. QED
  BY <1>13, <1>14 DEF IInv, Storing, Searched

LEMMA DivBounds ==
  ASSUME NEW a \in Nat, NEW b \in Nat \ {0}
  PROVE  /\ a \div b \in Nat
         /\ (a \div b) * b <= a
         /\ a < (a \div b) * b + b
OBVIOUS

(* A resized table is large enough for all entries of the old one. *)
LEMMA ResizeHasRoom ==
  ASSUME IInv, pc = "load", GrowNeeded \/ ShrinkNeeded,
         NEW p \in Primes, IsNextPrime(NewSize, p)
  PROVE  ht.n_entries < p
<1> DEFINE n == ht.n_entries
           s == ht.size
<1>1. n \in Nat /\ s \in Nat \ {0} /\ p \in Nat \ {0} /\ p >= NewSize
  BY PrimesAssumption DEF IInv, TypeOK, IsTable, IsNextPrime
<1>2. n <= s
  BY LiveSlotsFinite DEF IInv, TypeOK, CountIsLive, Counted
<1>3. CASE GrowNeeded
  <2>1. NewSize = s * 2
    BY <1>3 DEF GrowNeeded, NewSize, RESIZE_FACTOR
  <2>2. QED
    BY <1>1, <1>2, <2>1
<1>4. CASE ShrinkNeeded
  <2>1. NewSize = s \div 2 /\ (n * 100) \div s < 20
    BY <1>4 DEF ShrinkNeeded, NewSize, RESIZE_FACTOR, Load, MIN_LOAD
  <2>2. DEFINE q == (n * 100) \div s
  <2>3. q \in Nat /\ n * 100 < q * s + s
    <3>1. n * 100 \in Nat
      BY <1>1
    <3>2. QED
      BY <1>1, <3>1, DivBounds
  <2>4. q + 1 <= 20
    BY <2>1, <2>3
  <2>5. q * s + s <= 20 * s
    BY <1>1, <2>3, <2>4
  <2>6. n * 5 < s
    BY <1>1, <2>3, <2>5
  <2>7. s < 2 * (s \div 2) + 2
    BY <1>1
  <2>8. QED
    BY <1>1, <2>1, <2>6, <2>7
<1>5. QED
  BY <1>3, <1>4

LEMMA IInvStartResize ==
  ASSUME IInv, TypeOK', StartResize
  PROVE  IInv'
<1> USE DEF StartResize
<1>1. PICK p \in Primes : IsNextPrime(NewSize, p) /\ resized' = EmptyTable(p)
  OBVIOUS
<1>2. ht.n_entries < p /\ p \in Nat \ {0} /\ ht.size \in Nat
  BY <1>1, ResizeHasRoom, PrimesAssumption DEF IInv, TypeOK, IsTable
<1>3. Reachable(resized') /\ KeysUnique(resized') /\ Counted(resized')
  BY <1>1, EmptyFindable, CountedEmpty
<1>4. resized'.size = p /\ LiveSlots(resized') = {}
  BY <1>1, LiveSlotsEmpty DEF EmptyTable
<1>5. \A o \in LiveSlots(ht) : ~(o < 0)
  BY LiveSlotsFinite DEF IInv, TypeOK
<1>6. Rehashing'
  BY <1>2, <1>4, <1>5 DEF Rehashing
<1>7. QED
  BY <1>2, <1>3, <1>4, <1>6
     DEF IInv, StoredKeysFindable, CountIsLive, RoomToStore, Searched, Storing

LEMMA IInvRehashDone ==
  ASSUME IInv, TypeOK', RehashDone
  PROVE  IInv'
<1> USE DEF RehashDone
<1>1. /\ Reachable(resized) /\ KeysUnique(resized) /\ Counted(resized)
      /\ resized.size \in Nat \ {0}
  BY PrimesAssumption DEF IInv, TypeOK, IsTable, StoredKeysFindable, CountIsLive
<1>2. Searched'
  BY <1>1 DEF Searched
<1>3. QED
  BY <1>1, <1>2
     DEF IInv, StoredKeysFindable, CountIsLive, RoomToStore, Storing, Rehashing

(* A search that hits has found a live slot of the key. *)
LEMMA HitIsLive ==
  ASSUME TypeOK, pc = "lookup", Hit
  PROVE  /\ LookupIndex \in LiveSlots(ht)
         /\ LookupIndex \in 0 .. ht.size - 1
         /\ ht.n_entries > 0
         /\ AtLookup = ht.entries[LookupIndex]
         /\ AtLookup = [key |-> call.key, ptr_value |-> AtLookup.ptr_value]
<1>1. LookupIndex \in 0 .. ht.size - 1 /\ AtLookup \in Entry
  BY LookupSlot DEF Hit
<1>2. QED
  BY <1>1 DEF Hit, LiveSlots, AtLookup, TypeOK, IsTable, Entry

(* Changes of the client's table that end the call. *)
LEMMA IInvReturning ==
  ASSUME IInv, TypeOK', pc' = "idle",
         Reachable(ht'), KeysUnique(ht'), Counted(ht')
  PROVE  IInv'
BY DEF IInv, StoredKeysFindable, CountIsLive, RoomToStore, Searched, Storing, Rehashing

LEMMA IInvDeleteHit ==
  ASSUME IInv, TypeOK', DeleteHit
  PROVE  IInv'
<1> USE DEF DeleteHit
<1> DEFINE j == LookupIndex
<1>1. IsTable(ht) /\ Reachable(ht) /\ KeysUnique(ht) /\ Counted(ht)
  BY DEF IInv, TypeOK, StoredKeysFindable, CountIsLive
<1>2. j \in LiveSlots(ht) /\ j \in 0 .. ht.size - 1
  BY HitIsLive DEF IInv
<1>3. Counted(ht')
  BY <1>1, <1>2, CountedWithoutEntry
<1>4. LiveSlots(ht') = LiveSlots(ht) \ {j}
  BY <1>1, <1>2, LiveSlotsWithoutEntry
<1>5. /\ ht'.size = ht.size
      /\ DOMAIN ht'.entries = 0 .. ht.size - 1
      /\ \A x \in 0 .. ht.size - 1 :
           ht'.entries[x] = IF x = j THEN DELETED ELSE ht.entries[x]
  BY <1>1, <1>2 DEF WithoutEntry, IsTable
<1>6. LiveSlots(ht) \subseteq 0 .. ht.size - 1
  BY <1>1, LiveSlotsFinite
<1>7. DELETED # NULL
  BY DeletedAssumption
<1>8. Reachable(ht') /\ KeysUnique(ht')
  BY <1>1, <1>4, <1>5, <1>6, <1>7, StillFindable
<1>9. QED
  BY <1>3, <1>8, IInvReturning DEF Return

LEMMA IInvInsertHit ==
  ASSUME IInv, TypeOK', InsertHit
  PROVE  IInv'
<1> USE DEF InsertHit
<1> DEFINE j == LookupIndex
           v == call.ptr_value
           e == [key |-> ht.entries[j].key, ptr_value |-> v]
<1>1. IsTable(ht) /\ Reachable(ht) /\ KeysUnique(ht) /\ Counted(ht)
  BY DEF IInv, TypeOK, StoredKeysFindable, CountIsLive
<1>2. j \in LiveSlots(ht) /\ j \in 0 .. ht.size - 1
  BY HitIsLive DEF IInv
<1>3. v \in Values
  BY DEF IInv, TypeOK, Call
<1>4. LiveSlots(ht') = LiveSlots(ht)
  BY <1>1, <1>2, <1>3, LiveSlotsWithValue
<1>5. Counted(ht')
  BY <1>1, <1>4 DEF Counted, WithValue
<1>6. e \in Entry /\ e # NULL
  <2>1. Live(ht.entries[j])
    BY <1>2 DEF LiveSlots
  <2>2. ht.entries[j].key \in Keys
    BY <1>1, <1>2, <2>1, LiveIsEntry
  <2>3. e \in Entry
    BY <1>3, <2>2 DEF Entry
  <2>4. QED
    BY <2>3, NullAssumption
<1>7. /\ ht'.size = ht.size
      /\ DOMAIN ht'.entries = 0 .. ht.size - 1
      /\ \A x \in 0 .. ht.size - 1 :
           ht'.entries[x] = IF x = j THEN e ELSE ht.entries[x]
  BY <1>1, <1>2 DEF WithValue, IsTable
<1>8. LiveSlots(ht) \subseteq 0 .. ht.size - 1
  BY <1>1, LiveSlotsFinite
<1>9. \A x \in LiveSlots(ht') : ht'.entries[x].key = ht.entries[x].key
  BY <1>4, <1>7, <1>8
<1>10. Reachable(ht') /\ KeysUnique(ht')
  BY <1>1, <1>4, <1>6, <1>7, <1>9, StillFindable
<1>11. QED
  BY <1>5, <1>10, IInvReturning DEF Return

LEMMA IInvStoreEntry ==
  ASSUME IInv, TypeOK', StoreEntry
  PROVE  IInv'
<1> USE DEF StoreEntry
<1> DEFINE e == [key |-> call.key, ptr_value |-> call.ptr_value]
<1>1. IsTable(ht) /\ Reachable(ht) /\ KeysUnique(ht) /\ Counted(ht) /\ Storing
  BY DEF IInv, TypeOK, StoredKeysFindable, CountIsLive
<1>2. e \in Entry /\ e.key = call.key
  BY DEF IInv, TypeOK, Call, Entry
<1>3. LookupIndex \in 0 .. ht.size - 1 /\ ~Live(ht.entries[LookupIndex])
  BY LookupSlot DEF IInv, AtLookup
<1>4. Counted(ht')
  BY <1>1, <1>2, <1>3, CountedWithEntry
<1>5. Reachable(ht') /\ KeysUnique(ht')
  BY <1>1, <1>2, WithEntryFindable DEF Storing, LookupIndex
<1>6. QED
  BY <1>4, <1>5, IInvReturning DEF Return

LEMMA IInvStep == IInv /\ [Next]_vars => IInv'
<1> SUFFICES ASSUME IInv, [Next]_vars
             PROVE  IInv'
  OBVIOUS
<1>1. TypeOK'
  BY TypeStep DEF IInv
<1>2. ASSUME NEW op \in Calls, NEW k \in Keys, NEW v \in Values \cup {NULL},
             Invoke(op, k, v)
      PROVE  IInv'
  BY <1>1, <1>2, IInvQuiet DEF Invoke
<1>3. CASE LoadFine
  BY <1>1, <1>3, IInvQuiet DEF LoadFine
<1>4. CASE StartResize
  BY <1>1, <1>4, IInvStartResize
<1>5. CASE ResizeFails
  BY <1>1, <1>5, IInvQuiet DEF ResizeFails, Return
<1>6. CASE PrimesOverrun
  BY <1>1, <1>6, IInvQuiet DEF PrimesOverrun
<1>7. CASE RehashSkip
  BY <1>1, <1>7, IInvRehashSkip
<1>8. CASE RehashProbe
  BY <1>1, <1>8, IInvRehashProbe
<1>9. CASE RehashPlace
  BY <1>1, <1>9, IInvRehashPlace
<1>10. CASE RehashDone
  BY <1>1, <1>10, IInvRehashDone
<1>11. CASE LookupProbe
  BY <1>1, <1>11, IInvLookupProbe
<1>12. CASE GetHit
  BY <1>1, <1>12, IInvQuiet DEF GetHit, Return
<1>13. CASE NotFound
  BY <1>1, <1>13, IInvQuiet DEF NotFound, Return
<1>14. CASE DeleteHit
  BY <1>1, <1>14, IInvDeleteHit
<1>15. CASE InsertHit
  BY <1>1, <1>15, IInvInsertHit
<1>16. CASE InsertMiss
  BY <1>1, <1>16, IInvInsertMiss
<1>17. CASE InsertFails
  BY <1>1, <1>17, IInvQuiet DEF InsertFails, Return
<1>18. CASE StoreProbe
  BY <1>1, <1>18, IInvStoreProbe
<1>19. CASE StoreEntry
  BY <1>1, <1>19, IInvStoreEntry
<1>20. CASE UNCHANGED vars
  BY <1>20
     DEF vars, IInv, TypeOK, StoredKeysFindable, CountIsLive, RoomToStore,
         Searched, Storing, Rehashing, Copied, Lacks
<1>21. QED
  BY <1>2, <1>3, <1>4, <1>5, <1>6, <1>7, <1>8, <1>9, <1>10, <1>11, <1>12,
     <1>13, <1>14, <1>15, <1>16, <1>17, <1>18, <1>19, <1>20 DEF Next, Step

LEMMA Invariance == Spec => []IInv
BY IInvInit, IInvStep, PTL DEF Spec

(* Whatever the sequence of inserts, overwrites, deletes and resizes, and  *)
(* at every step of them, a stored key stays findable on its own probe     *)
(* sequence and stays in one slot.                                         *)
THEOREM KeysFindable == Spec => []StoredKeysFindable
<1>1. IInv => StoredKeysFindable
  BY DEF IInv
<1>2. QED
  BY <1>1, Invariance, PTL

(* n_entries always counts the live slots. *)
THEOREM CountCorrect == Spec => []CountIsLive
<1>1. IInv => CountIsLive
  BY DEF IInv
<1>2. QED
  BY <1>1, Invariance, PTL

(* The unbounded loop of hashtable_insert_new_entry always has a free slot *)
(* to come to.                                                             *)
THEOREM RoomAvailable == Spec => []RoomToStore
<1>1. IInv => RoomToStore
  BY DEF IInv
<1>2. QED
  BY <1>1, Invariance, PTL

-----------------------------------------------------------------------------
(* The table implements the map of Dict.  Contents, defined by choice, is  *)
(* characterised by Holds; the step proofs use only that.                  *)

LEMMA ContentsIsHolds ==
  ASSUME NEW t, KeysUnique(t)
  PROVE  /\ Contents(t) \in [Keys -> Values \cup {NULL}]
         /\ \A k \in Keys, v \in Values : Contents(t)[k] = v <=> Holds(t, k, v)
<1>1. ASSUME NEW k \in Keys, NEW v \in Values, NEW w \in Values,
             Holds(t, k, v), Holds(t, k, w)
      PROVE  v = w
  <2>1. PICK j1 \in LiveSlots(t) : t.entries[j1] = [key |-> k, ptr_value |-> v]
    BY <1>1 DEF Holds, LiveSlots
  <2>2. PICK j2 \in LiveSlots(t) : t.entries[j2] = [key |-> k, ptr_value |-> w]
    BY <1>1 DEF Holds, LiveSlots
  <2>3. j1 = j2
    BY <2>1, <2>2 DEF KeysUnique
  <2>4. QED
    BY <2>1, <2>2, <2>3
<1>2. ASSUME NEW k \in Keys
      PROVE  /\ Contents(t)[k] \in Values \cup {NULL}
             /\ \A v \in Values : Contents(t)[k] = v <=> Holds(t, k, v)
  <2>1. CASE Stored(t, k)
    <3>1. Contents(t)[k] = CHOOSE v \in Values : Holds(t, k, v)
      BY <2>1 DEF Contents
    <3>2. Contents(t)[k] \in Values /\ Holds(t, k, Contents(t)[k])
      BY <2>1, <3>1 DEF Stored
    <3>3. QED
      BY <1>1, <3>2
  <2>2. CASE ~Stored(t, k)
    <3>1. Contents(t)[k] = NULL
      BY <2>2 DEF Contents
    <3>2. QED
      BY <2>2, <3>1, NullAssumption DEF Stored
  <2>3. QED
    BY <2>1, <2>2
<1>3. Contents(t) = [k \in Keys |-> Contents(t)[k]]
  BY DEF Contents
<1>4. QED
  BY <1>2, <1>3

(* Two maps that hold the same pairs are equal. *)
LEMMA SamePairs ==
  ASSUME NEW f \in [Keys -> Values \cup {NULL}],
         NEW g \in [Keys -> Values \cup {NULL}],
         \A k \in Keys, v \in Values : f[k] = v <=> g[k] = v
  PROVE  f = g
<1>1. ASSUME NEW k \in Keys
      PROVE  f[k] = g[k]
  <2>1. CASE f[k] \in Values
    BY <2>1
  <2>2. CASE g[k] \in Values
    BY <2>2
  <2>3. CASE f[k] \notin Values /\ g[k] \notin Values
    <3>1. f[k] \in Values \cup {NULL} /\ g[k] \in Values \cup {NULL}
      OBVIOUS
    <3>2. QED
      BY <2>3, <3>1
  <2>4. QED
    BY <2>1, <2>2, <2>3
<1>2. QED
  BY <1>1

LEMMA AbsentIsNull ==
  ASSUME NEW t, KeysUnique(t), NEW k \in Keys, Lacks(t, k)
  PROVE  Contents(t)[k] = NULL
<1>1. \A v \in Values : ~Holds(t, k, v)
  BY DEF Holds, Lacks, LiveSlots
<1>2. QED
  BY <1>1, ContentsIsHolds

LEMMA LiveIsHeld ==
  ASSUME NEW t, IsTable(t), KeysUnique(t), NEW j \in LiveSlots(t)
  PROVE  /\ t.entries[j].key \in Keys
         /\ t.entries[j].ptr_value \in Values
         /\ Contents(t)[t.entries[j].key] = t.entries[j].ptr_value
<1>1. j \in 0 .. t.size - 1 /\ Live(t.entries[j]) /\ j \in DOMAIN t.entries
  BY LiveSlotsFinite DEF LiveSlots
<1>2. /\ t.entries[j].key \in Keys /\ t.entries[j].ptr_value \in Values
      /\ t.entries[j] = [key |-> t.entries[j].key, ptr_value |-> t.entries[j].ptr_value]
  BY <1>1, LiveIsEntry
<1>3. Holds(t, t.entries[j].key, t.entries[j].ptr_value)
  BY <1>1, <1>2 DEF Holds
<1>4. QED
  BY <1>2, <1>3, ContentsIsHolds

(* Writing one pair. *)
LEMMA ContentsAfterWrite ==
  ASSUME NEW t, KeysUnique(t), NEW u, KeysUnique(u),
         NEW x \in Keys, NEW w \in Values,
         Holds(u, x, w),
         \A k \in Keys, v \in Values : k # x => (Holds(u, k, v) <=> Holds(t, k, v))
  PROVE  Contents(u) = [Contents(t) EXCEPT ![x] = w]
<1> DEFINE f == Contents(t)
           g == [f EXCEPT ![x] = w]
<1>1. f \in [Keys -> Values \cup {NULL}]
  BY ContentsIsHolds
<1>2. g \in [Keys -> Values \cup {NULL}]
  BY <1>1
<1>3. Contents(u) \in [Keys -> Values \cup {NULL}]
  BY ContentsIsHolds
<1>4. ASSUME NEW k \in Keys, NEW v \in Values
      PROVE  Contents(u)[k] = v <=> g[k] = v
  <2>1. Contents(u)[k] = v <=> Holds(u, k, v)
    BY ContentsIsHolds
  <2>2. f[k] = v <=> Holds(t, k, v)
    BY ContentsIsHolds
  <2>3. g[k] = IF k = x THEN w ELSE f[k]
    BY <1>1
  <2>4. Contents(u)[x] = w
    BY ContentsIsHolds
  <2>5. QED
    BY <2>1, <2>2, <2>3, <2>4
<1> HIDE DEF f, g
<1>5. QED
  BY <1>2, <1>3, <1>4, SamePairs DEF f, g

(* Erasing one key. *)
LEMMA ContentsAfterErase ==
  ASSUME NEW t, KeysUnique(t), NEW u, KeysUnique(u), NEW x \in Keys,
         \A k \in Keys, v \in Values : Holds(u, k, v) <=> k # x /\ Holds(t, k, v)
  PROVE  Contents(u) = [Contents(t) EXCEPT ![x] = NULL]
<1> DEFINE f == Contents(t)
           g == [f EXCEPT ![x] = NULL]
<1>1. f \in [Keys -> Values \cup {NULL}]
  BY ContentsIsHolds
<1>2. g \in [Keys -> Values \cup {NULL}]
  BY <1>1
<1>3. Contents(u) \in [Keys -> Values \cup {NULL}]
  BY ContentsIsHolds
<1>4. ASSUME NEW k \in Keys, NEW v \in Values
      PROVE  Contents(u)[k] = v <=> g[k] = v
  <2>1. Contents(u)[k] = v <=> Holds(u, k, v)
    BY ContentsIsHolds
  <2>2. f[k] = v <=> Holds(t, k, v)
    BY ContentsIsHolds
  <2>3. g[k] = IF k = x THEN NULL ELSE f[k]
    BY <1>1
  <2>4. NULL # v
    BY NullAssumption
  <2>5. QED
    BY <2>1, <2>2, <2>3, <2>4
<1> HIDE DEF f, g
<1>5. QED
  BY <1>2, <1>3, <1>4, SamePairs DEF f, g

LEMMA ContentsSame ==
  ASSUME NEW t, KeysUnique(t), NEW u, KeysUnique(u),
         \A k \in Keys, v \in Values : Holds(u, k, v) <=> Holds(t, k, v)
  PROVE  Contents(u) = Contents(t)
<1>1. /\ Contents(u) \in [Keys -> Values \cup {NULL}]
      /\ Contents(t) \in [Keys -> Values \cup {NULL}]
  BY ContentsIsHolds
<1>2. \A k \in Keys, v \in Values : Contents(u)[k] = v <=> Contents(t)[k] = v
  BY ContentsIsHolds
<1>3. QED
  BY <1>1, <1>2, SamePairs

LEMMA ContentsEmpty ==
  ASSUME NEW p \in Primes
  PROVE  Contents(EmptyTable(p)) = [k \in Keys |-> NULL]
<1>1. \A k \in Keys : ~Stored(EmptyTable(p), k)
  BY LiveSlotsEmpty DEF Stored, Holds, LiveSlots
<1>2. QED
  BY <1>1 DEF Contents

LEMMA RefinesInit == Init => D!DictInit
<1> SUFFICES ASSUME Init
             PROVE  D!DictInit
  OBVIOUS
<1>1. PICK p \in Primes : ht = EmptyTable(p)
  BY DEF Init
<1>2. Contents(ht) = [k \in Keys |-> NULL]
  BY <1>1, ContentsEmpty
<1>3. QED
  BY <1>2 DEF Init, D!DictInit

(* Between invocation and answer there is a call. *)
LEMMA Busy ==
  ASSUME TypeOK, pc # "idle"
  PROVE  call # NULL /\ call \in Call
BY CallNullAssumption DEF TypeOK, Call

LEMMA RefinesRehashDone ==
  ASSUME IInv, IInv', RehashDone
  PROVE  UNCHANGED <<Contents(ht), call, result>>
<1> USE DEF RehashDone
<1>1. KeysUnique(ht) /\ KeysUnique(resized) /\ Rehashing /\ IsTable(ht)
  BY DEF IInv, StoredKeysFindable, TypeOK
<1>2. \A o \in LiveSlots(ht) : o < slot
  BY <1>1, LiveSlotsFinite, PrimesAssumption DEF IsTable
<1>3. \A k \in Keys, v \in Values : Holds(resized, k, v) <=> Holds(ht, k, v)
  <2> SUFFICES ASSUME NEW k \in Keys, NEW v \in Values
               PROVE  Holds(resized, k, v) <=> Holds(ht, k, v)
    OBVIOUS
  <2>1. ASSUME Holds(ht, k, v)
        PROVE  Holds(resized, k, v)
    <3>1. PICK o \in LiveSlots(ht) : ht.entries[o] = [key |-> k, ptr_value |-> v]
      BY <2>1 DEF Holds, LiveSlots
    <3>2. PICK j \in LiveSlots(resized) : resized.entries[j] = ht.entries[o]
      BY <1>1, <1>2 DEF Rehashing, Copied
    <3>3. QED
      BY <3>1, <3>2 DEF Holds, LiveSlots
  <2>2. ASSUME Holds(resized, k, v)
        PROVE  Holds(ht, k, v)
    <3>1. PICK j \in LiveSlots(resized) :
            resized.entries[j] = [key |-> k, ptr_value |-> v]
      BY <2>2 DEF Holds, LiveSlots
    <3>2. PICK o \in LiveSlots(ht) : resized.entries[j] = ht.entries[o]
      BY <1>1 DEF Rehashing
    <3>3. QED
      BY <3>1, <3>2 DEF Holds, LiveSlots
  <2>3. QED
    BY <2>1, <2>2
<1>4. Contents(ht') = Contents(ht)
  BY <1>1, <1>3, ContentsSame
<1>5. QED
  BY <1>4

LEMMA RefinesGetHit ==
  ASSUME IInv, GetHit
  PROVE  D!Get
<1>1. AtLookup.ptr_value \in Values
      /\ Contents(ht)[call.key] = AtLookup.ptr_value
  <2>1. /\ LookupIndex \in LiveSlots(ht) /\ AtLookup = ht.entries[LookupIndex]
        /\ AtLookup.key = call.key
    BY HitIsLive DEF IInv, GetHit, Hit
  <2>2. QED
    BY <2>1, LiveIsHeld DEF IInv, TypeOK, StoredKeysFindable
<1>2. call # NULL
  BY Busy DEF IInv, GetHit
<1>3. QED
  BY <1>1, <1>2, NullAssumption DEF GetHit, Return, D!Get, D!Answer

LEMMA RefinesNotFound ==
  ASSUME IInv, NotFound
  PROVE  D!Get \/ D!Delete
<1>1. call # NULL /\ call.key \in Keys /\ KeysUnique(ht)
  BY Busy DEF IInv, NotFound, Call, StoredKeysFindable
<1>2. Contents(ht)[call.key] = NULL
  BY <1>1, MissedMeansAbsent, AbsentIsNull DEF NotFound
<1>3. Contents(ht) = [Contents(ht) EXCEPT ![call.key] = NULL]
  BY <1>1, <1>2, ContentsIsHolds
<1>4. UNCHANGED Contents(ht)
  BY DEF NotFound
<1>5. QED
  BY <1>1, <1>2, <1>3, <1>4 DEF NotFound, Return, D!Get, D!Delete, D!Answer

LEMMA RefinesDeleteHit ==
  ASSUME IInv, IInv', DeleteHit
  PROVE  D!Delete
<1> DEFINE j == LookupIndex
           x == call.key
<1>1. /\ IsTable(ht) /\ KeysUnique(ht) /\ KeysUnique(ht')
      /\ call # NULL /\ x \in Keys
  BY Busy DEF IInv, TypeOK, StoredKeysFindable, DeleteHit, Call
<1>2. /\ j \in LiveSlots(ht) /\ j \in 0 .. ht.size - 1
      /\ AtLookup = ht.entries[j] /\ ht.entries[j].key = x
  BY HitIsLive DEF IInv, DeleteHit, Hit
<1>3. LiveSlots(ht') = LiveSlots(ht) \ {j}
  BY <1>1, <1>2, LiveSlotsWithoutEntry DEF DeleteHit
<1>4. \A y \in LiveSlots(ht') : ht'.entries[y] = ht.entries[y]
  BY <1>1, <1>2, <1>3, LiveSlotsFinite DEF DeleteHit, WithoutEntry, IsTable
<1>5. \A k \in Keys, v \in Values : Holds(ht', k, v) <=> k # x /\ Holds(ht, k, v)
  <2> SUFFICES ASSUME NEW k \in Keys, NEW v \in Values
               PROVE  Holds(ht', k, v) <=> k # x /\ Holds(ht, k, v)
    OBVIOUS
  <2>1. ASSUME Holds(ht', k, v)
        PROVE  k # x /\ Holds(ht, k, v)
    <3>1. PICK y \in LiveSlots(ht') : ht'.entries[y] = [key |-> k, ptr_value |-> v]
      BY <2>1 DEF Holds, LiveSlots
    <3>2. y \in LiveSlots(ht) /\ y # j /\ ht.entries[y] = [key |-> k, ptr_value |-> v]
      BY <1>3, <1>4, <3>1
    <3>3. ht.entries[y].key = k
      BY <3>2
    <3>4. k # x
      BY <1>1, <1>2, <3>2, <3>3 DEF KeysUnique
    <3>5. QED
      BY <3>2, <3>4 DEF Holds, LiveSlots
  <2>2. ASSUME k # x, Holds(ht, k, v)
        PROVE  Holds(ht', k, v)
    <3>1. PICK y \in LiveSlots(ht) : ht.entries[y] = [key |-> k, ptr_value |-> v]
      BY <2>2 DEF Holds, LiveSlots
    <3>2. ht.entries[y].key = k
      BY <3>1
    <3>3. y # j
      BY <1>2, <2>2, <3>2
    <3>4. y \in LiveSlots(ht') /\ ht'.entries[y] = [key |-> k, ptr_value |-> v]
      BY <1>3, <1>4, <3>1, <3>3
    <3>5. QED
      BY <3>4 DEF Holds, LiveSlots
  <2>3. QED
    BY <2>1, <2>2
<1>6. Contents(ht') = [Contents(ht) EXCEPT ![x] = NULL]
  BY <1>1, <1>5, ContentsAfterErase
<1>7. AtLookup.ptr_value \in Values /\ Contents(ht)[x] = AtLookup.ptr_value
  BY <1>1, <1>2, LiveIsHeld
<1>8. QED
  BY <1>1, <1>6, <1>7, NullAssumption DEF DeleteHit, Return, D!Delete, D!Answer

LEMMA RefinesInsertHit ==
  ASSUME IInv, IInv', InsertHit
  PROVE  D!Insert
<1> DEFINE j == LookupIndex
           x == call.key
           w == call.ptr_value
<1>1. /\ IsTable(ht) /\ KeysUnique(ht) /\ KeysUnique(ht')
      /\ call # NULL /\ x \in Keys /\ w \in Values
  BY Busy DEF IInv, TypeOK, StoredKeysFindable, InsertHit, Call
<1>2. /\ j \in LiveSlots(ht) /\ j \in 0 .. ht.size - 1
      /\ AtLookup = ht.entries[j] /\ ht.entries[j].key = x
  BY HitIsLive DEF IInv, InsertHit, Hit
<1>3. LiveSlots(ht') = LiveSlots(ht)
  BY <1>1, <1>2, LiveSlotsWithValue DEF InsertHit
<1>4. /\ ht'.entries[j] = [key |-> x, ptr_value |-> w]
      /\ \A y \in LiveSlots(ht) : y # j => ht'.entries[y] = ht.entries[y]
  BY <1>1, <1>2, LiveSlotsFinite DEF InsertHit, WithValue, IsTable
<1>5. \A k \in Keys, v \in Values : k # x => (Holds(ht', k, v) <=> Holds(ht, k, v))
  <2> SUFFICES ASSUME NEW k \in Keys, NEW v \in Values, k # x
               PROVE  Holds(ht', k, v) <=> Holds(ht, k, v)
    OBVIOUS
  <2>1. ht'.entries[j].key # k /\ ht.entries[j].key # k
    BY <1>2, <1>4
  <2>2. ASSUME NEW y \in LiveSlots(ht)
        PROVE  ht'.entries[y] = [key |-> k, ptr_value |-> v]
                 <=> ht.entries[y] = [key |-> k, ptr_value |-> v]
    <3>1. CASE y = j
      BY <2>1, <3>1
    <3>2. CASE y # j
      BY <1>4, <3>2
    <3>3. QED
      BY <3>1, <3>2
  <2>3. QED
    BY <1>3, <2>2 DEF Holds, LiveSlots
<1>6. Contents(ht') = [Contents(ht) EXCEPT ![x] = w]
  <2>1. Holds(ht', x, w)
    BY <1>2, <1>3, <1>4 DEF Holds, LiveSlots
  <2>2. QED
    BY <1>1, <1>5, <2>1, ContentsAfterWrite
<1>7. AtLookup.ptr_value = Contents(ht)[x]
  BY <1>1, <1>2, LiveIsHeld
<1>8. QED
  BY <1>1, <1>6, <1>7 DEF InsertHit, Return, D!Insert, D!Answer

LEMMA RefinesStoreEntry ==
  ASSUME IInv, IInv', StoreEntry
  PROVE  D!Insert
<1> DEFINE j == LookupIndex
           x == call.key
           w == call.ptr_value
           e == [key |-> x, ptr_value |-> w]
<1>1. /\ IsTable(ht) /\ KeysUnique(ht) /\ KeysUnique(ht') /\ Lacks(ht, x)
      /\ call # NULL /\ x \in Keys /\ w \in Values /\ call.op = "insert"
  BY Busy DEF IInv, TypeOK, StoredKeysFindable, StoreEntry, Call, Storing
<1>2. e \in Entry /\ j \in 0 .. ht.size - 1 /\ j \notin LiveSlots(ht)
  BY <1>1, LookupSlot DEF IInv, StoreEntry, AtLookup, LiveSlots, Entry
<1>3. LiveSlots(ht') = LiveSlots(ht) \cup {j}
  BY <1>1, <1>2, LiveSlotsWithEntry DEF StoreEntry
<1>4. /\ ht'.entries[j] = e
      /\ \A y \in LiveSlots(ht) : ht'.entries[y] = ht.entries[y]
  BY <1>1, <1>2, LiveSlotsFinite DEF StoreEntry, WithEntry, IsTable
<1>5. \A k \in Keys, v \in Values : k # x => (Holds(ht', k, v) <=> Holds(ht, k, v))
  <2> SUFFICES ASSUME NEW k \in Keys, NEW v \in Values, k # x
               PROVE  Holds(ht', k, v) <=> Holds(ht, k, v)
    OBVIOUS
  <2>1. ht'.entries[j].key # k
    BY <1>4
  <2>2. ht'.entries[j] # [key |-> k, ptr_value |-> v]
    BY <2>1
  <2>3. QED
    BY <1>3, <1>4, <2>2 DEF Holds, LiveSlots
<1>6. Contents(ht') = [Contents(ht) EXCEPT ![x] = w]
  <2>1. Holds(ht', x, w)
    BY <1>3, <1>4 DEF Holds, LiveSlots
  <2>2. QED
    BY <1>1, <1>5, <2>1, ContentsAfterWrite
<1>7. Contents(ht)[x] = NULL
  BY <1>1, AbsentIsNull
<1>8. QED
  BY <1>1, <1>6, <1>7 DEF StoreEntry, Return, D!Insert, D!Answer

LEMMA RefinesStep == IInv /\ IInv' /\ [Next]_vars => [D!DictNext]_(D!dvars)
<1> SUFFICES ASSUME IInv, IInv', [Next]_vars
             PROVE  [D!DictNext]_(D!dvars)
  OBVIOUS
<1> USE DEF D!dvars
<1>1. TypeOK
  BY DEF IInv
<1>2. ASSUME NEW op \in Calls, NEW k \in Keys, NEW v \in Values \cup {NULL},
             Invoke(op, k, v)
      PROVE  D!DictNext
  <2>1. D!Invoke(op, k, v)
    BY <1>1, <1>2 DEF Invoke, D!Invoke, TypeOK
  <2>2. QED
    BY <2>1 DEF D!DictNext
<1>3. CASE LoadFine \/ StartResize \/ PrimesOverrun \/ RehashSkip \/ RehashProbe
           \/ RehashPlace \/ LookupProbe \/ InsertMiss \/ StoreProbe
  BY <1>3 DEF LoadFine, StartResize, PrimesOverrun, RehashSkip, RehashProbe,
              RehashPlace, LookupProbe, InsertMiss, StoreProbe
<1>4. CASE ResizeFails
  BY <1>1, <1>4, Busy DEF ResizeFails, Return, TypeOK, D!DictNext, D!Fail, D!Answer
<1>5. CASE RehashDone
  BY <1>5, RefinesRehashDone
<1>6. CASE GetHit
  BY <1>6, RefinesGetHit DEF D!DictNext
<1>7. CASE NotFound
  BY <1>7, RefinesNotFound DEF D!DictNext
<1>8. CASE DeleteHit
  BY <1>8, RefinesDeleteHit DEF D!DictNext
<1>9. CASE InsertHit
  BY <1>9, RefinesInsertHit DEF D!DictNext
<1>10. CASE InsertFails
  BY <1>1, <1>10, Busy DEF InsertFails, Return, D!DictNext, D!Fail, D!Answer
<1>11. CASE StoreEntry
  BY <1>11, RefinesStoreEntry DEF D!DictNext
<1>12. CASE UNCHANGED vars
  BY <1>12 DEF vars
<1>13. QED
  BY <1>2, <1>3, <1>4, <1>5, <1>6, <1>7, <1>8, <1>9, <1>10, <1>11, <1>12
     DEF Next, Step

(* hashtable.c implements the map promised by hashtable.h. *)
THEOREM Implementation == Spec => ImplementsDict
BY RefinesInit, RefinesStep, Invariance, PTL DEF Spec, ImplementsDict, D!DictSpec

-----------------------------------------------------------------------------
(* The end of primes[].                                                    *)

(* As many keys are stored as there are live slots. *)
LEMMA StoredKeysCount ==
  ASSUME NEW t, IsTable(t), KeysUnique(t), Counted(t)
  PROVE  Cardinality({k \in Keys : Stored(t, k)}) = t.n_entries
<1> DEFINE S == LiveSlots(t)
           T == {k \in Keys : Stored(t, k)}
           f == [j \in S |-> t.entries[j].key]
<1>1. ASSUME NEW j \in S
      PROVE  f[j] \in T
  <2>1. /\ j \in DOMAIN t.entries /\ Live(t.entries[j]) /\ j \in 0 .. t.size - 1
    BY LiveSlotsFinite DEF LiveSlots
  <2>2. /\ t.entries[j].key \in Keys /\ t.entries[j].ptr_value \in Values
        /\ t.entries[j] = [key |-> t.entries[j].key, ptr_value |-> t.entries[j].ptr_value]
    BY <2>1, LiveIsEntry
  <2>3. QED
    BY <2>1, <2>2 DEF Stored, Holds
<1>2. f \in Injection(S, T)
  BY <1>1 DEF Injection, IsInjective, KeysUnique
<1>3. ASSUME NEW k \in T
      PROVE  \E j \in S : f[j] = k
  <2>1. PICK v \in Values : Holds(t, k, v)
    BY DEF Stored
  <2>2. PICK j \in S : t.entries[j] = [key |-> k, ptr_value |-> v]
    BY <2>1 DEF Holds, LiveSlots
  <2>3. t.entries[j].key = k
    BY <2>2
  <2>4. QED
    BY <2>3
<1>4. f \in Surjection(S, T)
  BY <1>1, <1>3 DEF Surjection
<1>5. ExistsBijection(S, T)
  BY <1>2, <1>4 DEF ExistsBijection, Bijection
<1>6. QED
  BY <1>5, LiveSlotsFinite, FS_Bijection DEF Counted

Overrun == pc = "overrun" => GrowNeeded /\ \A p \in Primes : p < NewSize

LEMMA OverrunStep == TypeOK /\ Overrun /\ [Next]_vars => Overrun'
<1> SUFFICES ASSUME TypeOK, Overrun, [Next]_vars, pc' = "overrun"
             PROVE  (GrowNeeded /\ \A p \in Primes : p < NewSize)'
  BY DEF Overrun
<1>1. CASE PrimesOverrun
  <2>1. ht.size \in Primes /\ ht.size \in Nat
    BY PrimesAssumption DEF TypeOK, IsTable
  <2>2. GrowNeeded
    BY <1>1, <2>1 DEF PrimesOverrun, ShrinkNeeded, NewSize, RESIZE_FACTOR
  <2>3. QED
    BY <1>1, <2>2 DEF PrimesOverrun, GrowNeeded, NewSize, Load
<1>2. CASE UNCHANGED vars
  BY <1>2 DEF vars, Overrun, GrowNeeded, NewSize, Load
<1>3. QED
  BY <1>1, <1>2
     DEF Next, Step, Invoke, LoadFine, StartResize, ResizeFails, RehashSkip,
         RehashProbe, RehashPlace, RehashDone, LookupProbe, GetHit, NotFound,
         DeleteHit, InsertHit, InsertMiss, InsertFails, StoreProbe, StoreEntry, Return

(* next_prime reads past primes[] only when more than 60% of half the      *)
(* largest prime's slots hold keys: 303 keys with the code's table.        *)
THEOREM OverrunCapacity == Spec => []OverrunNeedsManyKeys
<1>1. Init => Overrun
  BY DEF Init, Overrun
<1>2. IInv /\ Overrun => OverrunNeedsManyKeys
  <2> SUFFICES ASSUME IInv, Overrun, pc = "overrun", NEW p \in Primes
               PROVE  Cardinality({k \in Keys : Stored(ht, k)}) * RESIZE_FACTOR * 100
                        > MAX_LOAD * p
    BY DEF OverrunNeedsManyKeys
  <2> DEFINE n == ht.n_entries
             s == ht.size
             q == (n * 100) \div s
  <2>1. Cardinality({k \in Keys : Stored(ht, k)}) = n
    BY StoredKeysCount DEF IInv, TypeOK, StoredKeysFindable, CountIsLive
  <2>2. n \in Nat /\ s \in Nat \ {0} /\ p \in Nat \ {0} /\ n * 100 \in Nat
    BY PrimesAssumption DEF IInv, TypeOK, IsTable
  <2>3. q > 60 /\ p < s * 2
    BY DEF Overrun, GrowNeeded, NewSize, RESIZE_FACTOR, Load, MAX_LOAD
  <2>4. q \in Nat /\ q * s <= n * 100
    BY <2>2, DivBounds
  <2>5. 61 * s <= q * s
    BY <2>2, <2>3, <2>4
  <2>6. n * 2 * 100 > 60 * p
    BY <2>2, <2>3, <2>4, <2>5
  <2>7. QED
    BY <2>1, <2>6 DEF RESIZE_FACTOR, MAX_LOAD
<1>3. QED
  BY <1>1, <1>2, OverrunStep, TypeCorrect, Invariance, PTL DEF Spec

-----------------------------------------------------------------------------
(* Searches end in a table without tombstones.                             *)

LEMMA NeverFullInit == Init => NeverFull
<1> SUFFICES ASSUME Init PROVE NeverFull
  OBVIOUS
<1>1. PICK p \in Primes : ht = EmptyTable(p)
  BY DEF Init
<1>2. ht.size = p /\ p \in Nat /\ ht.n_entries = 0
  BY <1>1, PrimesAssumption DEF EmptyTable
<1>3. QED
  BY <1>2 DEF Init, NeverFull, MAX_LOAD

(* The live entries of the new table are those of the old one, so a resize *)
(* does not change the count.                                              *)
LEMMA ResizeKeepsCount ==
  ASSUME IInv, IInv', RehashDone
  PROVE  ht'.n_entries = ht.n_entries
<1>1. UNCHANGED Contents(ht)
  BY RefinesRehashDone
<1>2. KeysUnique(ht) /\ KeysUnique(ht')
  BY DEF IInv, StoredKeysFindable
<1>3. \A k \in Keys, v \in Values : Holds(ht', k, v) <=> Holds(ht, k, v)
  BY <1>1, <1>2, ContentsIsHolds
<1>4. \A k \in Keys : Stored(ht', k) <=> Stored(ht, k)
  BY <1>3 DEF Stored
<1>5. {k \in Keys : Stored(ht', k)} = {k \in Keys : Stored(ht, k)}
  BY <1>4
<1>6. /\ Cardinality({k \in Keys : Stored(ht, k)}) = ht.n_entries
      /\ Cardinality({k \in Keys : Stored(ht', k)}) = ht'.n_entries
  BY StoredKeysCount DEF IInv, TypeOK, StoredKeysFindable, CountIsLive
<1>7. QED
  BY <1>5, <1>6

(* What the percentage says about the entries. *)
LEMMA LoadBounds ==
  ASSUME NEW n \in Nat, NEW s \in Nat \ {0}
  PROVE  /\ (n * 100) \div s <= 60 => n * 100 < 61 * s
         /\ (n * 100) \div s < 20 => n * 100 < 20 * s
<1> DEFINE q == (n * 100) \div s
<1>1. n * 100 \in Nat
  OBVIOUS
<1>2. q \in Nat /\ n * 100 < q * s + s
  BY <1>1, DivBounds
<1>3. q <= 60 => q * s + s <= 61 * s
  BY <1>2
<1>4. q < 20 => q * s + s <= 20 * s
  BY <1>2
<1>5. QED
  BY <1>1, <1>2, <1>3, <1>4

(* A resized table is not too full for the next insert. *)
LEMMA ResizeRelieves ==
  ASSUME IInv, StartResize
  PROVE  ht.n_entries * 100 < 61 * resized'.size
<1> USE DEF MAX_LOAD, MIN_LOAD, RESIZE_FACTOR
<1>1. PICK p \in Primes : IsNextPrime(NewSize, p) /\ resized' = EmptyTable(p)
  BY DEF StartResize
<1>2. /\ ht.size \in Nat \ {0} /\ ht.n_entries \in Nat
      /\ p \in Nat \ {0} /\ resized'.size = p /\ p >= NewSize
  BY <1>1, PrimesAssumption DEF IInv, TypeOK, IsTable, IsNextPrime, EmptyTable
<1>3. CASE GrowNeeded
  <2>1. p >= ht.size * 2
    BY <1>2, <1>3 DEF GrowNeeded, NewSize
  <2>2. ht.n_entries <= ht.size
    <3>1. LiveSlots(ht) \subseteq 0 .. ht.size - 1
      BY DEF IInv, TypeOK, IsTable, LiveSlots
    <3>2. Cardinality(LiveSlots(ht)) <= ht.size
      BY <1>2, <3>1, SlotsCardinality, FS_Subset
    <3>3. QED
      BY <3>2 DEF IInv, CountIsLive, Counted
  <2>3. QED
    BY <1>2, <2>1, <2>2
<1>4. CASE ~GrowNeeded
  <2>1. ShrinkNeeded /\ call.op = "delete"
    BY <1>4 DEF StartResize, ShrinkNeeded
  <2>2. ht.n_entries * 100 < 20 * ht.size
    BY <1>2, <2>1, LoadBounds DEF ShrinkNeeded, Load
  <2>3. p >= ht.size \div 2
    BY <1>2, <2>1 DEF NewSize
  <2>4. ht.size <= 2 * p + 1
    BY <1>2, <2>3
  <2>5. QED
    BY <1>2, <2>2, <2>4
<1>5. QED
  BY <1>3, <1>4

LEMMA NeverFullStep ==
  ASSUME IInv, IInv', NeverFull, [Next]_vars
  PROVE  NeverFull'
<1> USE DEF MAX_LOAD, RESIZE_FACTOR
<1>1. /\ ht.size \in Nat \ {0} /\ ht.n_entries \in Nat
      /\ IsTable(ht) /\ TypeOK
  BY PrimesAssumption DEF IInv, TypeOK, IsTable
<1>2. ASSUME NEW op \in Calls, NEW k \in Keys, NEW v \in Values \cup {NULL},
             Invoke(op, k, v)
      PROVE  NeverFull'
  BY <1>2 DEF Invoke, NeverFull
<1>3. CASE LoadFine
  <2>1. call.op = "insert" => ht.n_entries * 100 < 61 * ht.size
    <3>1. (ht.n_entries * 100) \div ht.size \in Nat
      BY <1>1, DivBounds
    <3>2. QED
      BY <1>1, <1>3, <3>1, LoadBounds DEF LoadFine, GrowNeeded, Load
  <2>2. QED
    BY <1>3, <2>1 DEF LoadFine, NeverFull
<1>4. CASE StartResize
  BY <1>4, ResizeRelieves DEF StartResize, NeverFull
<1>5. CASE ResizeFails \/ GetHit \/ NotFound \/ InsertFails
  BY <1>5 DEF ResizeFails, GetHit, NotFound, InsertFails, Return, NeverFull
<1>6. CASE PrimesOverrun \/ RehashSkip \/ RehashProbe \/ LookupProbe \/ InsertMiss
           \/ StoreProbe
  BY <1>6 DEF PrimesOverrun, RehashSkip, RehashProbe, LookupProbe, InsertMiss,
              StoreProbe, NeverFull
<1>7. CASE RehashPlace
  BY <1>7 DEF RehashPlace, WithEntry, NeverFull
<1>8. CASE RehashDone
  <2>1. ht'.n_entries = ht.n_entries /\ ht' = resized
    BY <1>8, ResizeKeepsCount DEF RehashDone
  <2>2. ht'.n_entries * 100 < 61 * ht'.size
    BY <1>8, <2>1 DEF RehashDone, NeverFull
  <2>3. ht'.n_entries \in Nat /\ ht'.size \in Nat
    BY PrimesAssumption DEF IInv, TypeOK, IsTable
  <2>4. pc' = "lookup"
    BY <1>8 DEF RehashDone
  <2>5. QED
    BY <2>2, <2>3, <2>4 DEF NeverFull
<1>9. CASE DeleteHit
  <2>1. ht'.size = ht.size /\ ht'.n_entries = ht.n_entries - 1 /\ pc' = "idle"
    BY <1>9 DEF DeleteHit, WithoutEntry, Return
  <2>2. QED
    BY <1>1, <2>1 DEF NeverFull
<1>10. CASE InsertHit
  <2>1. ht'.size = ht.size /\ ht'.n_entries = ht.n_entries /\ pc' = "idle"
    BY <1>10 DEF InsertHit, WithValue, Return
  <2>2. QED
    BY <2>1 DEF NeverFull
<1>11. CASE StoreEntry
  <2>1. ht'.size = ht.size /\ ht'.n_entries = ht.n_entries + 1 /\ pc' = "idle"
    BY <1>11 DEF StoreEntry, WithEntry, Return
  <2>2. ht.n_entries * 100 < 61 * ht.size
    BY <1>1, <1>11 DEF StoreEntry, NeverFull, TypeOK
  <2>3. QED
    BY <1>1, <2>1, <2>2 DEF NeverFull
<1>12. CASE UNCHANGED vars
  BY <1>12 DEF vars, NeverFull
<1>13. QED
  BY <1>2, <1>3, <1>4, <1>5, <1>6, <1>7, <1>8, <1>9, <1>10, <1>11, <1>12
     DEF Next, Step

(* In a table of three slots or more a search that finds no null slot to   *)
(* stop at runs among tombstones: without deletes every search can end.    *)
THEOREM SearchesCanStop == Spec => []NullSlotRemains
<1>1. Init => NeverFull
  BY NeverFullInit
<1>2. IInv /\ IInv' /\ NeverFull /\ [Next]_vars => NeverFull'
  BY NeverFullStep
<1>3. IInv /\ NeverFull => NullSlotRemains
  <2> SUFFICES ASSUME IInv, NeverFull, NoTombstones(ht), ht.size >= 3,
                      \A j \in DOMAIN ht.entries : ht.entries[j] # NULL
               PROVE  FALSE
    BY DEF NullSlotRemains
  <2>1. /\ IsTable(ht) /\ ht.size \in Nat \ {0} /\ ht.n_entries \in Nat
        /\ Counted(ht)
    BY PrimesAssumption DEF IInv, TypeOK, IsTable, CountIsLive
  <2>2. LiveSlots(ht) = 0 .. ht.size - 1
    BY <2>1 DEF NoTombstones, LiveSlots, Live, IsTable
  <2>3. ht.n_entries = ht.size
    BY <2>1, <2>2, SlotsCardinality DEF Counted
  <2>4. QED
    BY <2>1, <2>3 DEF NeverFull, MAX_LOAD
<1>4. QED
  BY <1>1, <1>2, <1>3, Invariance, PTL DEF Spec

=============================================================================
