------------------------ MODULE HashtableCallsProofs ------------------------
(***************************************************************************)
(* What the whole calls of HashtableCalls do to a table, for any set V of  *)
(* values: they are what the data store is built of.                       *)
(***************************************************************************)
EXTENDS HashtableCalls, WellFoundedInduction, FiniteSetTheorems, TLAPS

(* Induction, in the form of a least element. *)
LEMMA LeastNatural ==
  ASSUME NEW T, T \subseteq Nat, T # {}
  PROVE  \E m \in T : \A k \in T : m <= k
<1> DEFINE R == OpToRel(<, Nat)
<1>1. IsWellFoundedOn(R, Nat)
  BY NatLessThanWellFounded
<1>2. \A x, y \in Nat : x < y => <<x, y>> \in R
  BY DEF OpToRel
<1> HIDE DEF R
<1>3. PICK x \in T : \A y \in T : ~(<<y, x>> \in R)
  BY <1>1, WFMin
<1>4. \A k \in T : ~(k < x)
  BY <1>2, <1>3, Zenon
<1>5. \A k \in T : x <= k
  BY <1>4
<1> QED
  BY <1>5

LEMMA FirstStop ==
  ASSUME NEW t, NEW k, t.size \in Nat, NEW a \in Stops(t, k), \A b \in Stops(t, k) : a <= b
  PROVE  IndexOf(t, k) = hashtable_hash(k, t.size, a)
<1>1. Stops(t, k) \subseteq Nat
  BY DEF Stops, Attempts
<1>2. Min(Stops(t, k)) = a
  BY <1>1 DEF Min
<1> QED
  BY <1>2 DEF IndexOf

(* The recursion of Copies has a solution. *)
LEMMA CopiesDefined ==
  ASSUME NEW t, NEW size, t.size \in Nat
  PROVE  Copies(t, size) = [n \in 0 .. t.size |->
           IF n = 0 THEN NewTable(size)
           ELSE IF Live(t.entries[n - 1])
                THEN InsertedNewEntry(Copies(t, size)[n - 1], t.entries[n - 1])
           ELSE Copies(t, size)[n - 1]]
<1> DEFINE Step(g, n) == IF n = 0 THEN NewTable(size)
                         ELSE IF Live(t.entries[n - 1])
                              THEN InsertedNewEntry(g[n - 1], t.entries[n - 1])
                         ELSE g[n - 1]
           Solves(g, m) == g = [n \in 0 .. m |-> Step(g, n)]
           Unsolved == {m \in Nat : ~\E g : Solves(g, m)}
<1>1. Unsolved = {}
  <2> SUFFICES ASSUME Unsolved # {} PROVE FALSE
    OBVIOUS
  <2>1. PICK m \in Unsolved : \A k \in Unsolved : m <= k
    BY LeastNatural
  <2>2. m # 0
    <3> DEFINE g == [n \in 0 .. 0 |-> NewTable(size)]
    <3>1. Solves(g, 0)
      OBVIOUS
    <3> QED
      BY <3>1, <2>1
  <2>3. m - 1 \in Nat /\ m - 1 \notin Unsolved
    <3>1. m \in Nat
      OBVIOUS
    <3> HIDE DEF Unsolved
    <3> QED
      BY <2>1, <2>2, <3>1
  <2>4. PICK g : Solves(g, m - 1)
    BY <2>3
  <2> DEFINE h == [n \in 0 .. m |-> IF n = m THEN Step(g, m) ELSE g[n]]
  <2>5. \A n \in 0 .. m : h[n] = Step(h, n)
    <3> SUFFICES ASSUME NEW n \in 0 .. m PROVE h[n] = Step(h, n)
      OBVIOUS
    <3>1. n # 0 => h[n - 1] = g[n - 1]
      BY <2>1
    <3>2. Step(h, n) = Step(g, n)
      BY <3>1
    <3>3. n # m => g[n] = Step(g, n)
      BY <2>1, <2>4
    <3> QED
      BY <3>2, <3>3
  <2>6. Solves(h, m)
    BY <2>5, Zenon
  <2> QED
    BY <2>1, <2>6
<1>2. \E g : Solves(g, t.size)
  BY <1>1
<1> QED
  BY <1>2 DEF Copies

-----------------------------------------------------------------------------
(* Well-kept tables.                                                       *)

(* No entry can be mistaken for a null pointer or for the tombstone.       *)
Proper(V) == NULL \notin EntriesOf(V) /\ DELETED \notin EntriesOf(V)

(* A probe always looks inside the table. *)
LEMMA ProbeRange ==
  ASSUME NEW k \in Keys, NEW n \in Nat \ {0}, NEW a \in Nat
  PROVE  hashtable_hash(k, n, a) \in 0 .. n - 1
<1>1. Hash[k] + a \in Nat
  BY HashAssumption
<1> QED
  BY <1>1 DEF hashtable_hash

(* A probe sequence passes every slot. *)
LEMMA ProbesCover ==
  ASSUME NEW k \in Keys, NEW n \in Nat \ {0}, NEW j \in 0 .. n - 1
  PROVE  \E a \in 0 .. n - 1 : hashtable_hash(k, n, a) = j
<1> DEFINE h == Hash[k] % n
           q == Hash[k] \div n
<1>1. Hash[k] \in Nat
  BY HashAssumption
<1>2. h \in 0 .. n - 1 /\ q \in Nat /\ Hash[k] = q * n + h
  BY <1>1
<1> HIDE DEF h, q
<1>3. CASE j >= h
  <2>1. j - h \in 0 .. n - 1
    BY <1>2, <1>3
  <2>2. Hash[k] + (j - h) = q * n + j
    BY <1>2
  <2>3. (q * n + j) % n = j
    BY <1>2
  <2> QED
    BY <2>1, <2>2, <2>3 DEF hashtable_hash
<1>4. CASE j < h
  <2>1. j - h + n \in 0 .. n - 1
    BY <1>2, <1>4
  <2>2. Hash[k] + (j - h + n) = (q + 1) * n + j
    BY <1>2
  <2>3. ((q + 1) * n + j) % n = j
    BY <1>2
  <2> QED
    BY <2>1, <2>2, <2>3 DEF hashtable_hash
<1> QED
  BY <1>2, <1>3, <1>4

LEMMA TableFacts ==
  ASSUME NEW V, NEW t, IsTableOf(t, V)
  PROVE  /\ t.size \in Nat \ {0}
         /\ t.size \in Primes
         /\ t.n_entries \in Nat
         /\ DOMAIN t.entries = 0 .. t.size - 1
         /\ LiveSlots(t) \subseteq 0 .. t.size - 1
         /\ \A j \in 0 .. t.size - 1 : Live(t.entries[j]) <=> j \in LiveSlots(t)
         /\ \A j \in LiveSlots(t) :
              /\ t.entries[j] \in EntriesOf(V)
              /\ t.entries[j].key \in Keys
              /\ t.entries[j].ptr_value \in V
              /\ t.entries[j] = [key |-> t.entries[j].key,
                                 ptr_value |-> t.entries[j].ptr_value]
BY PrimesAssumption DEF IsTableOf, LiveSlots, Live, EntriesOf

LEMMA SlotsCount ==
  ASSUME NEW n \in Nat \ {0}
  PROVE  IsFiniteSet(0 .. n - 1) /\ Cardinality(0 .. n - 1) = n
<1>1. 0 \in Int /\ n - 1 \in Int
  OBVIOUS
<1>2. /\ IsFiniteSet(0 .. n - 1)
      /\ Cardinality(0 .. n - 1) = IF 0 > n - 1 THEN 0 ELSE (n - 1) - 0 + 1
  BY <1>1, FS_Interval
<1> QED
  BY <1>2

LEMMA LiveSlotsCount ==
  ASSUME NEW V, NEW t, IsTableOf(t, V)
  PROVE  /\ IsFiniteSet(LiveSlots(t))
         /\ Cardinality(LiveSlots(t)) \in Nat
         /\ Cardinality(LiveSlots(t)) <= t.size
         /\ Cardinality(LiveSlots(t)) = t.size => LiveSlots(t) = 0 .. t.size - 1
<1>1. t.size \in Nat \ {0} /\ LiveSlots(t) \in SUBSET (0 .. t.size - 1)
  BY TableFacts
<1>2. IsFiniteSet(0 .. t.size - 1) /\ Cardinality(0 .. t.size - 1) = t.size
  BY <1>1, SlotsCount
<1>3. /\ IsFiniteSet(LiveSlots(t))
      /\ Cardinality(LiveSlots(t)) <= Cardinality(0 .. t.size - 1)
      /\ Cardinality(LiveSlots(t)) = Cardinality(0 .. t.size - 1)
           => LiveSlots(t) = 0 .. t.size - 1
  BY <1>1, <1>2, FS_Subset
<1>4. Cardinality(LiveSlots(t)) \in Nat
  BY <1>3, FS_CardinalityType
<1> QED
  BY <1>2, <1>3, <1>4

LEMMA EmptyKept ==
  ASSUME NEW V, NEW D, NEW p \in Primes
  PROVE  /\ Kept(EmptyTable(p), V, D)
         /\ LiveSlots(EmptyTable(p)) = {}
         /\ EmptyTable(p).size = p
         /\ EmptyTable(p).n_entries = 0
         /\ NoTombstones(EmptyTable(p))
<1>1. p \in Nat \ {0}
  BY PrimesAssumption
<1>2. LiveSlots(EmptyTable(p)) = {}
  BY DEF LiveSlots, EmptyTable, Live
<1>3. IsTableOf(EmptyTable(p), V)
  BY DEF IsTableOf, EmptyTable
<1>4. Counted(EmptyTable(p))
  BY <1>2, FS_EmptySet DEF Counted, EmptyTable
<1>5. DELETED # NULL
  BY DeletedAssumption
<1>6. NoTombstones(EmptyTable(p))
  BY <1>5 DEF NoTombstones, EmptyTable
<1> QED
  BY <1>2, <1>3, <1>4, <1>6 DEF Kept, Reachable, UniqueBut, EmptyTable

(* What a lookup and a resize need to know of a table with one entry more. *)
Placed(u, t, e) ==
  \E j \in 0 .. t.size - 1 : ~Live(t.entries[j]) /\ u = WithEntry(t, j, e)

LEMMA PlacedFacts ==
  ASSUME NEW V, Proper(V), NEW t, IsTableOf(t, V), NEW e \in EntriesOf(V),
         NEW u, NEW j \in 0 .. t.size - 1, ~Live(t.entries[j]), u = WithEntry(t, j, e)
  PROVE  /\ IsTableOf(u, V)
         /\ j \notin LiveSlots(t)
         /\ LiveSlots(u) = LiveSlots(t) \cup {j}
         /\ u.size = t.size
         /\ u.n_entries = t.n_entries + 1
         /\ u.entries[j] = e
         /\ \A x \in 0 .. t.size - 1 : x # j => u.entries[x] = t.entries[x]
         /\ NoTombstones(t) => NoTombstones(u)
<1>1. /\ u.size = t.size
      /\ u.n_entries = t.n_entries + 1
      /\ u.entries = [t.entries EXCEPT ![j] = e]
      /\ u = [size |-> u.size, n_entries |-> u.n_entries, entries |-> u.entries]
  BY DEF WithEntry
<1>2. t.entries \in [0 .. t.size - 1 -> EntriesOf(V) \cup {NULL, DELETED}]
  BY DEF IsTableOf
<1>3. u.entries \in [0 .. t.size - 1 -> EntriesOf(V) \cup {NULL, DELETED}]
  BY <1>1, <1>2
<1>4. IsTableOf(u, V)
  BY <1>1, <1>3 DEF IsTableOf
<1>5. Live(e)
  BY DEF Proper, Live
<1>6. /\ u.entries[j] = e
      /\ \A x \in 0 .. t.size - 1 : x # j => u.entries[x] = t.entries[x]
      /\ DOMAIN u.entries = 0 .. t.size - 1
      /\ DOMAIN t.entries = 0 .. t.size - 1
  BY <1>1, <1>2
<1>7. LiveSlots(u) = LiveSlots(t) \cup {j}
  BY <1>5, <1>6 DEF LiveSlots
<1>8. NoTombstones(t) => NoTombstones(u)
  BY <1>5, <1>6 DEF NoTombstones, Live
<1> QED
  BY <1>1, <1>4, <1>6, <1>7, <1>8 DEF LiveSlots

(* An entry put in the first free slot of its key's probe sequence can be  *)
(* found there, and all others are still found.                            *)
LEMMA PlacedKept ==
  ASSUME NEW V, Proper(V), NEW D, NEW t, Kept(t, V, D),
         NEW e \in EntriesOf(V), Lacks(t, e.key) \/ e.key \in D,
         NEW a \in 0 .. t.size - 1, ~Live(Probed(t, e.key, a)),
         \A b \in 0 .. a - 1 : Live(Probed(t, e.key, b))
  PROVE  Kept(WithEntry(t, hashtable_hash(e.key, t.size, a), e), V, D)
<1> DEFINE j == hashtable_hash(e.key, t.size, a)
           u == WithEntry(t, j, e)
<1>1. IsTableOf(t, V) /\ Counted(t) /\ Reachable(t) /\ UniqueBut(t, D)
  BY DEF Kept
<1>2. t.size \in Nat \ {0} /\ e.key \in Keys /\ LiveSlots(t) \subseteq 0 .. t.size - 1
  BY <1>1, TableFacts DEF EntriesOf
<1>3. j \in 0 .. t.size - 1 /\ ~Live(t.entries[j])
  BY <1>2, ProbeRange DEF Probed
<1>4. /\ IsTableOf(u, V)
      /\ j \notin LiveSlots(t)
      /\ LiveSlots(u) = LiveSlots(t) \cup {j}
      /\ u.size = t.size
      /\ u.n_entries = t.n_entries + 1
      /\ u.entries[j] = e
      /\ \A x \in 0 .. t.size - 1 : x # j => u.entries[x] = t.entries[x]
  BY <1>1, <1>3, PlacedFacts
<1> HIDE DEF u, j
<1>5. Counted(u)
  BY <1>1, <1>4, LiveSlotsCount, FS_AddElement DEF Counted
<1>6. UniqueBut(u, D)
  <2> SUFFICES ASSUME NEW j1 \in LiveSlots(u), NEW j2 \in LiveSlots(u),
                      u.entries[j1].key = u.entries[j2].key,
                      u.entries[j1].key \notin D
               PROVE  j1 = j2
    BY DEF UniqueBut
  <2>1. CASE j1 = j \/ j2 = j
    BY <1>2, <1>4, <2>1 DEF Lacks
  <2>2. CASE j1 # j /\ j2 # j
    BY <1>1, <1>2, <1>4, <2>2 DEF UniqueBut
  <2> QED
    BY <2>1, <2>2
<1>7. e # NULL
  BY DEF Proper
<1>8. Reachable(u)
  <2> SUFFICES ASSUME NEW x \in LiveSlots(u)
               PROVE  \E c \in 0 .. u.size - 1 :
                        /\ hashtable_hash(u.entries[x].key, u.size, c) = x
                        /\ \A b \in 0 .. c - 1 :
                             u.entries[hashtable_hash(u.entries[x].key, u.size, b)] # NULL
    BY DEF Reachable
  <2>0. ASSUME NEW k \in Keys, NEW c \in 0 .. t.size - 1, NEW b \in 0 .. c - 1,
               t.entries[hashtable_hash(k, t.size, b)] # NULL
        PROVE  u.entries[hashtable_hash(k, t.size, b)] # NULL
    <3>1. hashtable_hash(k, t.size, b) \in 0 .. t.size - 1
      BY <1>2, ProbeRange
    <3> QED
      BY <1>4, <1>7, <2>0, <3>1
  <2>1. CASE x = j
    <3>1. \A b \in 0 .. a - 1 : t.entries[hashtable_hash(e.key, t.size, b)] # NULL
      BY DEF Probed, Live
    <3>2. \A b \in 0 .. a - 1 : u.entries[hashtable_hash(e.key, t.size, b)] # NULL
      BY <1>2, <2>0, <3>1
    <3> QED
      BY <1>4, <2>1, <3>2 DEF j
  <2>2. CASE x # j
    <3>1. x \in LiveSlots(t) /\ u.entries[x] = t.entries[x]
      BY <1>2, <1>4, <2>2
    <3>2. PICK c \in 0 .. t.size - 1 :
            /\ hashtable_hash(t.entries[x].key, t.size, c) = x
            /\ \A b \in 0 .. c - 1 :
                 t.entries[hashtable_hash(t.entries[x].key, t.size, b)] # NULL
      BY <1>1, <3>1 DEF Reachable
    <3>3. t.entries[x].key \in Keys
      BY <1>1, <3>1, TableFacts
    <3>4. \A b \in 0 .. c - 1 :
            u.entries[hashtable_hash(t.entries[x].key, t.size, b)] # NULL
      BY <2>0, <3>2, <3>3
    <3> QED
      BY <1>4, <3>1, <3>2, <3>4
  <2> QED
    BY <2>1, <2>2
<1> QED
  BY <1>4, <1>5, <1>6, <1>8 DEF Kept, u, j

(* hashtable_insert_new_entry, when a slot is free. *)
LEMMA InsertedNewEntryKept ==
  ASSUME NEW V, Proper(V), NEW D, NEW t, Kept(t, V, D),
         NEW e \in EntriesOf(V), Lacks(t, e.key) \/ e.key \in D,
         t.n_entries < t.size
  PROVE  /\ Kept(InsertedNewEntry(t, e), V, D)
         /\ Placed(InsertedNewEntry(t, e), t, e)
<1> DEFINE Free == {a \in Attempts(t) : ~Live(Probed(t, e.key, a))}
<1>1. IsTableOf(t, V) /\ Counted(t)
  BY DEF Kept
<1>2. t.size \in Nat \ {0} /\ e.key \in Keys /\ t.n_entries \in Nat
  BY <1>1, TableFacts DEF EntriesOf
<1>3. PICK j \in 0 .. t.size - 1 : j \notin LiveSlots(t)
  <2>1. Cardinality(LiveSlots(t)) # Cardinality(0 .. t.size - 1)
    BY <1>1, <1>2, SlotsCount DEF Counted
  <2>2. LiveSlots(t) # 0 .. t.size - 1
    BY <2>1
  <2> QED
    BY <1>1, <2>2, TableFacts
<1>4. PICK c \in 0 .. t.size - 1 : hashtable_hash(e.key, t.size, c) = j
  BY <1>2, ProbesCover
<1>5. c \in Free
  BY <1>1, <1>3, <1>4, TableFacts DEF Attempts, Probed
<1>6. PICK a \in Free : \A b \in Free : a <= b
  <2>1. Free \subseteq Nat /\ Free # {}
    BY <1>5 DEF Attempts
  <2> QED
    BY <2>1, LeastNatural
<1>7. Min(Free) = a
  <2>1. Free \subseteq Nat
    BY DEF Attempts
  <2> QED
    BY <1>6, <2>1 DEF Min
<1>8. InsertedNewEntry(t, e) = WithEntry(t, hashtable_hash(e.key, t.size, a), e)
  BY <1>7 DEF InsertedNewEntry
<1>9. a \in 0 .. t.size - 1 /\ ~Live(Probed(t, e.key, a))
  BY DEF Attempts
<1>10. \A b \in 0 .. a - 1 : Live(Probed(t, e.key, b))
  <2> SUFFICES ASSUME NEW b \in 0 .. a - 1, ~Live(Probed(t, e.key, b))
               PROVE  FALSE
    OBVIOUS
  <2>1. b \in Free
    BY <1>2, <1>9 DEF Attempts
  <2> QED
    BY <1>6, <1>9, <2>1
<1>11. Kept(InsertedNewEntry(t, e), V, D)
  BY <1>8, <1>9, <1>10, PlacedKept
<1>12. hashtable_hash(e.key, t.size, a) \in 0 .. t.size - 1
  BY <1>2, <1>9, ProbeRange
<1> QED
  BY <1>8, <1>9, <1>11, <1>12 DEF Placed, Probed

-----------------------------------------------------------------------------
(* Resizing.                                                               *)

LEMMA PlacedHeld ==
  ASSUME NEW V, Proper(V), NEW t, IsTableOf(t, V), NEW e \in EntriesOf(V),
         NEW u, Placed(u, t, e)
  PROVE  /\ Held(u) = Held(t) \cup {e}
         /\ u.size = t.size
         /\ u.n_entries = t.n_entries + 1
         /\ NoTombstones(t) => NoTombstones(u)
<1>1. PICK j \in 0 .. t.size - 1 : ~Live(t.entries[j]) /\ u = WithEntry(t, j, e)
  BY DEF Placed
<1>2. /\ j \notin LiveSlots(t)
      /\ LiveSlots(u) = LiveSlots(t) \cup {j}
      /\ u.size = t.size
      /\ u.n_entries = t.n_entries + 1
      /\ u.entries[j] = e
      /\ \A x \in 0 .. t.size - 1 : x # j => u.entries[x] = t.entries[x]
      /\ NoTombstones(t) => NoTombstones(u)
  BY <1>1, PlacedFacts
<1>3. LiveSlots(t) \subseteq 0 .. t.size - 1
  BY TableFacts
<1>4. Held(u) = Held(t) \cup {e}
  BY <1>2, <1>3 DEF Held
<1> QED
  BY <1>2, <1>4

LEMMA NextPrimeIs ==
  ASSUME NEW n, NEW p \in Primes, IsNextPrime(n, p)
  PROVE  NextPrime(n) = p
<1>1. \A q \in Primes : IsNextPrime(n, q) => q = p
  BY PrimesAssumption DEF IsNextPrime
<1> QED
  BY <1>1 DEF NextPrime

(* There is a next prime as soon as there is any prime large enough. *)
LEMMA NextPrimeExists ==
  ASSUME NEW n, NEW q \in Primes, q >= n
  PROVE  \E p \in Primes : IsNextPrime(n, p)
<1> DEFINE T == {p \in Primes : p >= n}
<1>1. T \subseteq Nat /\ T # {}
  BY PrimesAssumption
<1>2. PICK p \in T : \A r \in T : p <= r
  BY <1>1, LeastNatural
<1> QED
  BY <1>2 DEF IsNextPrime

(* The live slots before the n-th. *)
Before(t, n) == {j \in LiveSlots(t) : j < n}

LEMMA BeforeCount ==
  ASSUME NEW V, NEW t, IsTableOf(t, V), NEW n \in 0 .. t.size
  PROVE  /\ IsFiniteSet(Before(t, n))
         /\ Cardinality(Before(t, n)) \in Nat
         /\ Cardinality(Before(t, n)) <= Cardinality(LiveSlots(t))
         /\ n \in LiveSlots(t) => Cardinality(Before(t, n)) < Cardinality(LiveSlots(t))
         /\ n = 0 => Before(t, n) = {} /\ Cardinality(Before(t, n)) = 0
         /\ n = t.size => Before(t, n) = LiveSlots(t)
         /\ n < t.size =>
              /\ Before(t, n + 1) = IF n \in LiveSlots(t) THEN Before(t, n) \cup {n}
                                    ELSE Before(t, n)
              /\ Cardinality(Before(t, n + 1)) =
                   IF n \in LiveSlots(t) THEN Cardinality(Before(t, n)) + 1
                   ELSE Cardinality(Before(t, n))
<1>1. t.size \in Nat /\ LiveSlots(t) \subseteq 0 .. t.size - 1
  BY TableFacts
<1>2. IsFiniteSet(LiveSlots(t))
  BY LiveSlotsCount
<1>3. /\ IsFiniteSet(Before(t, n))
      /\ Cardinality(Before(t, n)) <= Cardinality(LiveSlots(t))
      /\ Cardinality(Before(t, n)) = Cardinality(LiveSlots(t)) => Before(t, n) = LiveSlots(t)
  <2>1. Before(t, n) \in SUBSET LiveSlots(t)
    BY DEF Before
  <2> QED
    BY <1>2, <2>1, FS_Subset
<1>4. Cardinality(Before(t, n)) \in Nat /\ Cardinality(LiveSlots(t)) \in Nat
  BY <1>2, <1>3, FS_CardinalityType
<1>5. n \notin Before(t, n)
  BY DEF Before
<1>6. n = 0 => Before(t, n) = {} /\ Cardinality(Before(t, n)) = 0
  <2>1. n = 0 => Before(t, n) = {}
    BY <1>1 DEF Before
  <2> QED
    BY <2>1, FS_EmptySet
<1>7. n = t.size => Before(t, n) = LiveSlots(t)
  BY <1>1 DEF Before
<1>8. Before(t, n + 1) = IF n \in LiveSlots(t) THEN Before(t, n) \cup {n} ELSE Before(t, n)
  BY <1>1 DEF Before
<1>9. Cardinality(Before(t, n) \cup {n}) = Cardinality(Before(t, n)) + 1
  BY <1>3, <1>5, FS_AddElement
<1> QED
  BY <1>3, <1>4, <1>5, <1>6, <1>7, <1>8, <1>9

(* Each live entry has been copied when its slot is passed. *)
LEMMA CopiesKept ==
  ASSUME NEW V, Proper(V), NEW D, NEW t, Kept(t, V, D),
         NEW size, NEW p \in Primes, IsNextPrime(size, p), t.n_entries <= p,
         NEW n \in 0 .. t.size
  PROVE  /\ Kept(Copies(t, size)[n], V, D)
         /\ Copies(t, size)[n].size = p
         /\ Copies(t, size)[n].n_entries = Cardinality(Before(t, n))
         /\ Held(Copies(t, size)[n]) = {t.entries[o] : o \in Before(t, n)}
         /\ NoTombstones(Copies(t, size)[n])
<1> DEFINE c == Copies(t, size)
           P(m) == /\ Kept(c[m], V, D)
                   /\ c[m].size = p
                   /\ c[m].n_entries = Cardinality(Before(t, m))
                   /\ Held(c[m]) = {t.entries[o] : o \in Before(t, m)}
                   /\ NoTombstones(c[m])
           T == {m \in 0 .. t.size : ~P(m)}
<1>1. IsTableOf(t, V) /\ Counted(t) /\ UniqueBut(t, D)
  BY DEF Kept
<1>2. t.size \in Nat \ {0} /\ LiveSlots(t) \subseteq 0 .. t.size - 1
  BY <1>1, TableFacts
<1>3. \A m \in 0 .. t.size :
        c[m] = IF m = 0 THEN NewTable(size)
               ELSE IF Live(t.entries[m - 1]) THEN InsertedNewEntry(c[m - 1], t.entries[m - 1])
               ELSE c[m - 1]
  BY <1>2, CopiesDefined
<1> HIDE DEF c
<1>4. P(0)
  <2>1. c[0] = EmptyTable(p)
    BY <1>2, <1>3, NextPrimeIs DEF NewTable
  <2>2. Before(t, 0) = {} /\ Cardinality(Before(t, 0)) = 0
    <3>1. 0 \in 0 .. t.size
      BY <1>2
    <3> QED
      BY <1>1, <3>1, BeforeCount
  <2>3. /\ Kept(EmptyTable(p), V, D)
        /\ LiveSlots(EmptyTable(p)) = {}
        /\ EmptyTable(p).size = p
        /\ EmptyTable(p).n_entries = 0
        /\ NoTombstones(EmptyTable(p))
    BY EmptyKept
  <2>4. Held(EmptyTable(p)) = {}
    BY <2>3 DEF Held
  <2> QED
    BY <2>1, <2>2, <2>3, <2>4
<1>5. ASSUME NEW m \in 0 .. t.size, m < t.size, P(m)
      PROVE  P(m + 1)
  <2>1. m + 1 \in 0 .. t.size /\ m + 1 # 0 /\ (m + 1) - 1 = m /\ m \in 0 .. t.size - 1
    BY <1>2, <1>5
  <2>2. c[m + 1] = IF Live(t.entries[m]) THEN InsertedNewEntry(c[m], t.entries[m]) ELSE c[m]
    BY <1>3, <2>1
  <2>3. Live(t.entries[m]) <=> m \in LiveSlots(t)
    BY <1>1, <2>1, TableFacts
  <2>4. /\ Before(t, m + 1) = IF m \in LiveSlots(t) THEN Before(t, m) \cup {m}
                              ELSE Before(t, m)
        /\ Cardinality(Before(t, m + 1)) =
             IF m \in LiveSlots(t) THEN Cardinality(Before(t, m)) + 1
             ELSE Cardinality(Before(t, m))
        /\ m \in LiveSlots(t) => Cardinality(Before(t, m)) < Cardinality(LiveSlots(t))
        /\ Cardinality(Before(t, m)) \in Nat
    BY <1>1, <1>5, BeforeCount
  <2>5. CASE m \notin LiveSlots(t)
    <3>1. c[m + 1] = c[m]
      BY <2>2, <2>3, <2>5
    <3>2. Before(t, m + 1) = Before(t, m)
      BY <2>4, <2>5
    <3> QED
      BY <1>5, <3>1, <3>2
  <2>6. CASE m \in LiveSlots(t)
    <3> DEFINE e == t.entries[m]
    <3>1. c[m + 1] = InsertedNewEntry(c[m], e)
      BY <2>2, <2>3, <2>6
    <3>2. e \in EntriesOf(V) /\ IsTableOf(c[m], V)
      BY <1>1, <1>5, <2>6, TableFacts DEF Kept
    <3>3. c[m].n_entries < c[m].size
      <4>1. t.n_entries \in Nat /\ p \in Nat /\ t.n_entries = Cardinality(LiveSlots(t))
        BY <1>1, PrimesAssumption, TableFacts DEF Counted
      <4> QED
        BY <1>5, <2>4, <2>6, <4>1
    <3>4. Lacks(c[m], e.key) \/ e.key \in D
      <4> SUFFICES ASSUME NEW x \in LiveSlots(c[m]), c[m].entries[x].key = e.key, e.key \notin D
                   PROVE  FALSE
        BY DEF Lacks
      <4>1. c[m].entries[x] \in Held(c[m])
        BY DEF Held
      <4>2. PICK o \in Before(t, m) : c[m].entries[x] = t.entries[o]
        BY <1>5, <4>1
      <4>3. o \in LiveSlots(t) /\ o < m
        BY DEF Before
      <4>4. o = m
        BY <1>1, <2>6, <4>2, <4>3 DEF UniqueBut
      <4> QED
        BY <1>2, <2>1, <4>3, <4>4
    <3> HIDE DEF e
    <3>5. Kept(c[m + 1], V, D) /\ Placed(c[m + 1], c[m], e)
      BY <1>5, <3>1, <3>2, <3>3, <3>4, InsertedNewEntryKept
    <3>6. /\ Held(c[m + 1]) = Held(c[m]) \cup {e}
          /\ c[m + 1].size = p
          /\ c[m + 1].n_entries = c[m].n_entries + 1
          /\ NoTombstones(c[m + 1])
      BY <1>5, <3>2, <3>5, PlacedHeld
    <3>7. Held(c[m + 1]) = {t.entries[o] : o \in Before(t, m + 1)}
      BY <1>5, <2>4, <2>6, <3>6 DEF e
    <3> QED
      BY <1>5, <2>4, <2>6, <3>5, <3>6, <3>7
  <2> QED
    BY <2>5, <2>6
<1>6. T = {}
  <2> SUFFICES ASSUME T # {} PROVE FALSE
    OBVIOUS
  <2>1. T \subseteq Nat
    OBVIOUS
  <2>2. PICK m \in T : \A k \in T : m <= k
    <3> HIDE DEF T
    <3> QED
      BY <2>1, LeastNatural
  <2>3. m \in 0 .. t.size /\ ~P(m) /\ m # 0
    <3> HIDE DEF P
    <3> QED
      BY <1>4
  <2>4. m - 1 \in 0 .. t.size /\ m - 1 < t.size /\ (m - 1) + 1 = m /\ ~(m <= m - 1)
    BY <1>2, <2>3
  <2>5. m - 1 \notin T
    <3> HIDE DEF T
    <3> QED
      BY <2>2, <2>4
  <2>6. P(m - 1)
    <3> HIDE DEF P
    <3> QED
      BY <2>4, <2>5
  <2> HIDE DEF P
  <2> QED
    BY <1>5, <2>3, <2>4, <2>6
<1>7. P(n)
  <2> HIDE DEF P
  <2> QED
    BY <1>6
<1> QED
  BY <1>7 DEF c

(* hashtable_resize, when the new table has room. *)
LEMMA ResizedKept ==
  ASSUME NEW V, Proper(V), NEW D, NEW t, Kept(t, V, D),
         NEW size, NEW p \in Primes, IsNextPrime(size, p), t.n_entries <= p
  PROVE  /\ Kept(Resized(t, size), V, D)
         /\ Resized(t, size).size = p
         /\ Resized(t, size).n_entries = t.n_entries
         /\ Held(Resized(t, size)) = Held(t)
         /\ NoTombstones(Resized(t, size))
<1>1. IsTableOf(t, V) /\ Counted(t)
  BY DEF Kept
<1>2. t.size \in 0 .. t.size
  BY <1>1, TableFacts
<1>3. Before(t, t.size) = LiveSlots(t)
  BY <1>1, <1>2, BeforeCount
<1>4. /\ Kept(Copies(t, size)[t.size], V, D)
      /\ Copies(t, size)[t.size].size = p
      /\ Copies(t, size)[t.size].n_entries = Cardinality(Before(t, t.size))
      /\ Held(Copies(t, size)[t.size]) = {t.entries[o] : o \in Before(t, t.size)}
      /\ NoTombstones(Copies(t, size)[t.size])
  BY <1>2, CopiesKept
<1> QED
  BY <1>1, <1>3, <1>4 DEF Resized, Held, Counted

-----------------------------------------------------------------------------
(* Searching.                                                              *)

LEMMA FirstStopIs ==
  ASSUME NEW V, NEW t, IsTableOf(t, V), NEW k \in Keys, Stops(t, k) # {}
  PROVE  \E a \in 0 .. t.size - 1 :
           /\ IndexOf(t, k) = hashtable_hash(k, t.size, a)
           /\ IndexOf(t, k) \in 0 .. t.size - 1
           /\ \/ t.entries[IndexOf(t, k)] = NULL
              \/ Live(t.entries[IndexOf(t, k)]) /\ t.entries[IndexOf(t, k)].key = k
           /\ \A c \in 0 .. t.size - 1 :
                \/ t.entries[hashtable_hash(k, t.size, c)] = NULL
                \/ /\ Live(t.entries[hashtable_hash(k, t.size, c)])
                   /\ t.entries[hashtable_hash(k, t.size, c)].key = k
                => a <= c
<1>1. t.size \in Nat \ {0}
  BY TableFacts
<1>2. Stops(t, k) \subseteq Nat /\ Stops(t, k) \subseteq 0 .. t.size - 1
  BY DEF Stops, Attempts
<1>3. PICK a \in Stops(t, k) : \A b \in Stops(t, k) : a <= b
  BY <1>2, LeastNatural
<1>4. IndexOf(t, k) = hashtable_hash(k, t.size, a)
  BY <1>1, <1>3, FirstStop
<1>5. a \in 0 .. t.size - 1 /\ IndexOf(t, k) \in 0 .. t.size - 1
  BY <1>1, <1>2, <1>4, ProbeRange
<1>6. \/ t.entries[IndexOf(t, k)] = NULL
      \/ Live(t.entries[IndexOf(t, k)]) /\ t.entries[IndexOf(t, k)].key = k
  BY <1>4 DEF Stops, Probed
<1>7. ASSUME NEW c \in 0 .. t.size - 1,
             \/ t.entries[hashtable_hash(k, t.size, c)] = NULL
             \/ /\ Live(t.entries[hashtable_hash(k, t.size, c)])
                /\ t.entries[hashtable_hash(k, t.size, c)].key = k
      PROVE  a <= c
  <2>1. c \in Stops(t, k)
    BY <1>7 DEF Stops, Attempts, Probed
  <2> QED
    BY <1>3, <2>1
<1> QED
  BY <1>4, <1>5, <1>6, <1>7

LEMMA NoneLive ==
  ASSUME NEW V, NEW t, IsTableOf(t, V), Counted(t)
  PROVE  t.n_entries = 0 <=> LiveSlots(t) = {}
BY LiveSlotsCount, FS_EmptySet DEF Counted

(* What is found has the key. *)
LEMMA FoundHasKey ==
  ASSUME NEW V, NEW t, IsTableOf(t, V), NEW k \in Keys, Found(t, k)
  PROVE  /\ IndexOf(t, k) \in LiveSlots(t)
         /\ IndexOf(t, k) \in 0 .. t.size - 1
         /\ t.entries[IndexOf(t, k)].key = k
         /\ t.entries[IndexOf(t, k)] \in Held(t)
<1>1. Stops(t, k) # {} /\ Live(t.entries[IndexOf(t, k)])
  BY DEF Found
<1>2. /\ IndexOf(t, k) \in 0 .. t.size - 1
      /\ \/ t.entries[IndexOf(t, k)] = NULL
         \/ Live(t.entries[IndexOf(t, k)]) /\ t.entries[IndexOf(t, k)].key = k
  BY <1>1, FirstStopIs
<1>3. IndexOf(t, k) \in LiveSlots(t)
  BY <1>1, <1>2, TableFacts
<1> QED
  BY <1>1, <1>2, <1>3 DEF Held, Live

(* A search that ends without finding the key is right. *)
LEMMA NotFoundIsAbsent ==
  ASSUME NEW V, NEW t, IsTableOf(t, V), Counted(t), Reachable(t), NEW k \in Keys,
         ~Found(t, k), ~Endless(t, k)
  PROVE  Lacks(t, k)
<1>1. CASE t.n_entries = 0
  BY <1>1, NoneLive DEF Lacks
<1>2. CASE t.n_entries # 0
  <2>1. t.n_entries > 0 /\ t.size \in Nat \ {0} /\ LiveSlots(t) \subseteq 0 .. t.size - 1
    BY <1>2, TableFacts
  <2>2. Stops(t, k) # {} /\ ~Live(t.entries[IndexOf(t, k)])
    BY <2>1 DEF Found, Endless
  <2>3. PICK a \in 0 .. t.size - 1 :
          /\ IndexOf(t, k) = hashtable_hash(k, t.size, a)
          /\ t.entries[IndexOf(t, k)] = NULL
          /\ \A c \in 0 .. t.size - 1 :
               Live(t.entries[hashtable_hash(k, t.size, c)])
               /\ t.entries[hashtable_hash(k, t.size, c)].key = k => a <= c
    BY <2>2, FirstStopIs
  <2> SUFFICES ASSUME NEW j \in LiveSlots(t), t.entries[j].key = k
               PROVE  FALSE
    BY DEF Lacks
  <2>4. PICK c \in 0 .. t.size - 1 :
          /\ hashtable_hash(k, t.size, c) = j
          /\ \A b \in 0 .. c - 1 : t.entries[hashtable_hash(k, t.size, b)] # NULL
    BY DEF Reachable
  <2>5. Live(t.entries[j]) /\ t.entries[j] # NULL
    BY DEF LiveSlots, Live
  <2>6. a <= c
    BY <2>3, <2>4, <2>5
  <2>7. a # c
    BY <2>3, <2>4, <2>5
  <2>8. a \in 0 .. c - 1
    BY <2>6, <2>7
  <2> QED
    BY <2>3, <2>4, <2>8
<1> QED
  BY <1>1, <1>2

(* A key that is stored is found where it is. *)
LEMMA StoredIsFound ==
  ASSUME NEW V, NEW D, NEW t, Kept(t, V, D), NEW j \in LiveSlots(t),
         t.entries[j].key \notin D
  PROVE  Found(t, t.entries[j].key) /\ IndexOf(t, t.entries[j].key) = j
<1> DEFINE k == t.entries[j].key
<1>1. IsTableOf(t, V) /\ Counted(t) /\ Reachable(t) /\ UniqueBut(t, D)
  BY DEF Kept
<1>2. /\ t.size \in Nat \ {0} /\ LiveSlots(t) \subseteq 0 .. t.size - 1
      /\ k \in Keys /\ t.n_entries \in Nat
  BY <1>1, TableFacts
<1>3. t.n_entries > 0
  BY <1>1, <1>2, NoneLive
<1>4. PICK c \in 0 .. t.size - 1 :
        /\ hashtable_hash(k, t.size, c) = j
        /\ \A b \in 0 .. c - 1 : t.entries[hashtable_hash(k, t.size, b)] # NULL
  BY <1>1 DEF Reachable
<1>5. Live(t.entries[j])
  BY DEF LiveSlots
<1>6. c \in Stops(t, k)
  BY <1>4, <1>5 DEF Stops, Attempts, Probed
<1> HIDE DEF k
<1>7. PICK a \in 0 .. t.size - 1 :
        /\ IndexOf(t, k) = hashtable_hash(k, t.size, a)
        /\ IndexOf(t, k) \in 0 .. t.size - 1
        /\ \/ t.entries[IndexOf(t, k)] = NULL
           \/ Live(t.entries[IndexOf(t, k)]) /\ t.entries[IndexOf(t, k)].key = k
        /\ \A b \in 0 .. t.size - 1 :
             Live(t.entries[hashtable_hash(k, t.size, b)])
             /\ t.entries[hashtable_hash(k, t.size, b)].key = k => a <= b
  BY <1>1, <1>2, <1>6, FirstStopIs
<1>8. t.entries[IndexOf(t, k)] # NULL
  <2>1. a <= c
    BY <1>4, <1>5, <1>7 DEF k
  <2>2. CASE a = c
    BY <1>4, <1>5, <1>7, <2>2 DEF Live
  <2>3. CASE a # c
    <3>1. a \in 0 .. c - 1
      BY <2>1, <2>3
    <3> QED
      BY <1>4, <1>7, <3>1
  <2> QED
    BY <2>2, <2>3
<1>9. Live(t.entries[IndexOf(t, k)]) /\ t.entries[IndexOf(t, k)].key = k
  BY <1>7, <1>8
<1>10. IndexOf(t, k) \in LiveSlots(t)
  BY <1>1, <1>7, <1>9, TableFacts
<1>11. IndexOf(t, k) = j
  BY <1>1, <1>9, <1>10 DEF UniqueBut, k
<1> QED
  BY <1>3, <1>6, <1>9, <1>11 DEF Found, k

(* A search that never ends has no null slot to stop at. *)
LEMMA EndlessIsCrowded ==
  ASSUME NEW V, NEW t, IsTableOf(t, V), Counted(t), NEW k \in Keys, Endless(t, k)
  PROVE  NoTombstones(t) => t.n_entries = t.size
<1>1. t.size \in Nat \ {0} /\ Stops(t, k) = {}
  BY TableFacts DEF Endless
<1>2. ASSUME NEW j \in 0 .. t.size - 1
      PROVE  t.entries[j] # NULL
  <2>1. PICK a \in 0 .. t.size - 1 : hashtable_hash(k, t.size, a) = j
    BY <1>1, ProbesCover
  <2> QED
    BY <1>1, <2>1 DEF Stops, Attempts, Probed
<1>3. NoTombstones(t) => LiveSlots(t) = 0 .. t.size - 1
  <2>1. DOMAIN t.entries = 0 .. t.size - 1
    BY TableFacts
  <2> QED
    BY <1>2, <2>1 DEF NoTombstones, Live, LiveSlots
<1> QED
  BY <1>1, <1>3, SlotsCount DEF Counted

(* One entry for each key that is not of D. *)
LEMMA UniqueHeld ==
  ASSUME NEW V, NEW D, NEW t, Kept(t, V, D), NEW x \in Held(t), NEW y \in Held(t),
         x.key = y.key, x.key \notin D
  PROVE  x = y
BY DEF Kept, UniqueBut, Held

LEMMA UniqueNoExcess ==
  ASSUME NEW V, NEW t, Kept(t, V, {})
  PROVE  Excess(t) = 0
<1> DEFINE keyOf == [j \in LiveSlots(t) |-> t.entries[j].key]
<1>1. IsTableOf(t, V) /\ Counted(t) /\ UniqueBut(t, {})
  BY DEF Kept
<1>2. IsFiniteSet(LiveSlots(t)) /\ Cardinality(LiveSlots(t)) \in Nat
  BY <1>1, LiveSlotsCount
<1>3. keyOf \in Bijection(LiveSlots(t), KeysIn(t))
  <2>1. keyOf \in [LiveSlots(t) -> KeysIn(t)]
    BY DEF KeysIn, Held
  <2>2. \A a, b \in LiveSlots(t) : keyOf[a] = keyOf[b] => a = b
    BY <1>1 DEF UniqueBut
  <2>3. \A k \in KeysIn(t) : \E a \in LiveSlots(t) : keyOf[a] = k
    BY DEF KeysIn, Held
  <2>4. DOMAIN keyOf = LiveSlots(t)
    OBVIOUS
  <2> HIDE DEF keyOf
  <2>5. IsInjective(keyOf)
    BY <2>2, <2>4 DEF IsInjective
  <2> QED
    BY <2>1, <2>3, <2>5 DEF Bijection, Injection, Surjection
<1>4. ExistsBijection(LiveSlots(t), KeysIn(t))
  BY <1>3 DEF ExistsBijection
<1>5. Cardinality(LiveSlots(t)) = Cardinality(KeysIn(t))
  BY <1>2, <1>4, FS_Bijection, Zenon
<1> QED
  BY <1>1, <1>2, <1>5 DEF Counted, Excess

-----------------------------------------------------------------------------
(* Changing and removing an entry.                                         *)

(* Replacing entries by tombstones, or pointers by pointers, changes no    *)
(* slot to NULL, so what is left can still be found.                       *)
LEMMA StillReachable ==
  ASSUME NEW V, NEW t, IsTableOf(t, V), Reachable(t),
         NEW u, u.size = t.size,
         LiveSlots(u) \subseteq LiveSlots(t),
         \A j \in LiveSlots(u) : u.entries[j].key = t.entries[j].key,
         \A j \in 0 .. t.size - 1 : t.entries[j] # NULL => u.entries[j] # NULL
  PROVE  Reachable(u)
<1>1. t.size \in Nat \ {0}
  BY TableFacts
<1> SUFFICES ASSUME NEW x \in LiveSlots(u)
             PROVE  \E c \in 0 .. u.size - 1 :
                      /\ hashtable_hash(u.entries[x].key, u.size, c) = x
                      /\ \A b \in 0 .. c - 1 :
                           u.entries[hashtable_hash(u.entries[x].key, u.size, b)] # NULL
  BY DEF Reachable
<1>2. PICK c \in 0 .. t.size - 1 :
        /\ hashtable_hash(t.entries[x].key, t.size, c) = x
        /\ \A b \in 0 .. c - 1 :
             t.entries[hashtable_hash(t.entries[x].key, t.size, b)] # NULL
  BY DEF Reachable
<1>3. t.entries[x].key \in Keys /\ u.entries[x].key = t.entries[x].key
  BY TableFacts
<1>4. \A b \in 0 .. c - 1 :
        hashtable_hash(t.entries[x].key, t.size, b) \in 0 .. t.size - 1
  <2> SUFFICES ASSUME NEW b \in 0 .. c - 1
               PROVE  hashtable_hash(t.entries[x].key, t.size, b) \in 0 .. t.size - 1
    OBVIOUS
  <2>1. b \in Nat
    OBVIOUS
  <2> QED
    BY <1>1, <1>3, <2>1, ProbeRange
<1>5. \A b \in 0 .. c - 1 :
        u.entries[hashtable_hash(t.entries[x].key, t.size, b)] # NULL
  BY <1>2, <1>4
<1> QED
  BY <1>2, <1>3, <1>5

LEMMA KeysInFinite ==
  ASSUME NEW V, NEW t, IsTableOf(t, V)
  PROVE  /\ IsFiniteSet(KeysIn(t))
         /\ Cardinality(KeysIn(t)) \in Nat
         /\ Cardinality(KeysIn(t)) <= Cardinality(LiveSlots(t))
<1>1. IsFiniteSet(LiveSlots(t))
  BY LiveSlotsCount
<1> DEFINE f == [j \in LiveSlots(t) |-> t.entries[j].key]
<1>2. f \in Surjection(LiveSlots(t), KeysIn(t))
  BY DEF Surjection, KeysIn, Held
<1>3. /\ IsFiniteSet(KeysIn(t))
      /\ Cardinality(KeysIn(t)) <= Cardinality(LiveSlots(t))
  BY <1>1, <1>2, FS_Surjection
<1> QED
  BY <1>3, FS_CardinalityType

(* hashtable_insert on an entry: its value is replaced. *)
LEMMA WithValueKept ==
  ASSUME NEW V, Proper(V), NEW D, NEW t, Kept(t, V, D), NEW j \in LiveSlots(t), NEW v \in V
  PROVE  LET u == WithValue(t, j, v)
             k == t.entries[j].key
             e == [key |-> k, ptr_value |-> v]
         IN  /\ Kept(u, V, D)
             /\ u.size = t.size /\ u.n_entries = t.n_entries
             /\ e \in Held(u)
             /\ Held(u) \subseteq Held(t) \cup {e}
             /\ \A x \in Held(t) : x.key # k => x \in Held(u)
             /\ KeysIn(u) = KeysIn(t)
             /\ NoTombstones(t) => NoTombstones(u)
<1> DEFINE u == WithValue(t, j, v)
           k == t.entries[j].key
           e == [key |-> k, ptr_value |-> v]
<1>1. IsTableOf(t, V) /\ Counted(t) /\ Reachable(t) /\ UniqueBut(t, D)
  BY DEF Kept
<1>2. /\ j \in 0 .. t.size - 1 /\ LiveSlots(t) \subseteq 0 .. t.size - 1
      /\ k \in Keys /\ Live(t.entries[j])
  BY <1>1, TableFacts
<1>3. e \in EntriesOf(V)
  BY <1>2 DEF EntriesOf
<1>4. Live(e) /\ e # NULL
  BY <1>3 DEF Proper, Live
<1>5. /\ u.size = t.size
      /\ u.n_entries = t.n_entries
      /\ u.entries = [t.entries EXCEPT ![j] = e]
      /\ u = [size |-> u.size, n_entries |-> u.n_entries, entries |-> u.entries]
  BY DEF WithValue
<1>6. t.entries \in [0 .. t.size - 1 -> EntriesOf(V) \cup {NULL, DELETED}]
  BY <1>1 DEF IsTableOf
<1>7. u.entries \in [0 .. t.size - 1 -> EntriesOf(V) \cup {NULL, DELETED}]
  BY <1>3, <1>5, <1>6
<1>8. IsTableOf(u, V)
  BY <1>1, <1>5, <1>7 DEF IsTableOf
<1>9. \A x \in 0 .. t.size - 1 : u.entries[x] = IF x = j THEN e ELSE t.entries[x]
  BY <1>5, <1>6
<1>10. DOMAIN u.entries = 0 .. t.size - 1 /\ DOMAIN t.entries = 0 .. t.size - 1
  BY <1>6, <1>7
<1>11. LiveSlots(u) = LiveSlots(t)
  BY <1>2, <1>4, <1>9, <1>10 DEF LiveSlots
<1>12. e.key = k
  OBVIOUS
<1> HIDE DEF u, k, e
<1>13. \A x \in LiveSlots(u) : u.entries[x].key = t.entries[x].key
  BY <1>2, <1>9, <1>11, <1>12 DEF k
<1>14. \A x \in 0 .. t.size - 1 : t.entries[x] # NULL => u.entries[x] # NULL
  BY <1>4, <1>9
<1>15. Reachable(u)
  BY <1>1, <1>5, <1>11, <1>13, <1>14, StillReachable
<1>16. UniqueBut(u, D) /\ Counted(u)
  BY <1>1, <1>5, <1>11, <1>13 DEF UniqueBut, Counted
<1>17. e \in Held(u) /\ Held(u) \subseteq Held(t) \cup {e}
  BY <1>2, <1>9, <1>11 DEF Held
<1>18. \A x \in Held(t) : x.key # k => x \in Held(u)
  BY <1>2, <1>9, <1>11 DEF Held, k
<1>19. KeysIn(u) = KeysIn(t)
  BY <1>11, <1>13 DEF KeysIn, Held
<1>20. NoTombstones(t) => NoTombstones(u)
  BY <1>4, <1>9, <1>10 DEF NoTombstones, Live
<1> QED
  BY <1>5, <1>8, <1>15, <1>16, <1>17, <1>18, <1>19, <1>20 DEF Kept, u, k, e

(* hashtable_delete on an entry. *)
LEMMA WithoutEntryKept ==
  ASSUME NEW V, NEW D, NEW t, Kept(t, V, D), NEW j \in LiveSlots(t)
  PROVE  LET u == WithoutEntry(t, j)
             k == t.entries[j].key
         IN  /\ Kept(u, V, D)
             /\ u.size = t.size /\ u.n_entries = t.n_entries - 1 /\ u.n_entries \in Nat
             /\ Held(u) \subseteq Held(t)
             /\ \A x \in Held(t) : x.key # k => x \in Held(u)
             /\ KeysIn(u) \subseteq KeysIn(t) /\ KeysIn(t) \subseteq KeysIn(u) \cup {k}
             /\ k \notin D => Lacks(u, k)
<1> DEFINE u == WithoutEntry(t, j)
           k == t.entries[j].key
<1>1. IsTableOf(t, V) /\ Counted(t) /\ Reachable(t) /\ UniqueBut(t, D)
  BY DEF Kept
<1>2. /\ j \in 0 .. t.size - 1 /\ LiveSlots(t) \subseteq 0 .. t.size - 1
      /\ t.n_entries \in Nat
  BY <1>1, TableFacts
<1>3. t.n_entries # 0
  BY <1>1, NoneLive
<1>4. /\ u.size = t.size
      /\ u.n_entries = t.n_entries - 1
      /\ u.entries = [t.entries EXCEPT ![j] = DELETED]
      /\ u = [size |-> u.size, n_entries |-> u.n_entries, entries |-> u.entries]
  BY DEF WithoutEntry
<1>5. t.entries \in [0 .. t.size - 1 -> EntriesOf(V) \cup {NULL, DELETED}]
  BY <1>1 DEF IsTableOf
<1>6. u.entries \in [0 .. t.size - 1 -> EntriesOf(V) \cup {NULL, DELETED}]
  BY <1>4, <1>5
<1>7. u.n_entries \in Nat
  BY <1>2, <1>3, <1>4
<1>8. IsTableOf(u, V)
  BY <1>1, <1>4, <1>6, <1>7 DEF IsTableOf
<1>9. \A x \in 0 .. t.size - 1 : u.entries[x] = IF x = j THEN DELETED ELSE t.entries[x]
  BY <1>4, <1>5
<1>10. DOMAIN u.entries = 0 .. t.size - 1 /\ DOMAIN t.entries = 0 .. t.size - 1
  BY <1>5, <1>6
<1>11. LiveSlots(u) = LiveSlots(t) \ {j}
  BY <1>2, <1>9, <1>10 DEF LiveSlots, Live
<1> HIDE DEF u, k
<1>12. \A x \in LiveSlots(u) : u.entries[x] = t.entries[x]
  BY <1>2, <1>9, <1>11
<1>13. \A x \in 0 .. t.size - 1 : t.entries[x] # NULL => u.entries[x] # NULL
  BY <1>9, DeletedAssumption
<1>14. Reachable(u)
  <2>1. LiveSlots(u) \subseteq LiveSlots(t)
    BY <1>11
  <2>2. \A x \in LiveSlots(u) : u.entries[x].key = t.entries[x].key
    BY <1>12
  <2>3. u.size = t.size
    BY <1>4
  <2> QED
    BY <1>1, <1>13, <2>1, <2>2, <2>3, StillReachable
<1>15. UniqueBut(u, D)
  BY <1>1, <1>11, <1>12 DEF UniqueBut
<1>16. Counted(u)
  <2>1. IsFiniteSet(LiveSlots(t))
    BY <1>1, LiveSlotsCount
  <2>2. Cardinality(LiveSlots(t) \ {j}) = Cardinality(LiveSlots(t)) - 1
    BY <2>1, FS_RemoveElement
  <2> QED
    BY <1>1, <1>4, <1>11, <2>2 DEF Counted
<1>17. Held(u) \subseteq Held(t)
  BY <1>11, <1>12 DEF Held
<1>18. \A x \in Held(t) : x.key # k => x \in Held(u)
  BY <1>11, <1>12 DEF Held, k
<1>19. KeysIn(u) \subseteq KeysIn(t) /\ KeysIn(t) \subseteq KeysIn(u) \cup {k}
  BY <1>17, <1>18 DEF KeysIn
<1>20. ASSUME k \notin D PROVE Lacks(u, k)
  BY <1>1, <1>11, <1>12, <1>20 DEF UniqueBut, Lacks, k
<1> QED
  BY <1>4, <1>7, <1>8, <1>14, <1>15, <1>16, <1>17, <1>18, <1>19, <1>20 DEF Kept, u, k

-----------------------------------------------------------------------------
(* The load checks and the whole calls.                                    *)

(* What the percentage says about the entries. *)
LEMMA LoadSays ==
  ASSUME NEW t, t.n_entries \in Nat, t.size \in Nat \ {0}
  PROVE  /\ Load(t) <= MAX_LOAD => t.n_entries * 100 < 61 * t.size
         /\ Load(t) > MAX_LOAD => t.n_entries * 100 > 60 * t.size
         /\ Load(t) < MIN_LOAD => t.n_entries * 100 < 20 * t.size
         /\ Load(t) \in Nat
<1> DEFINE n == t.n_entries
           s == t.size
           q == (n * 100) \div s
<1>1. n * 100 \in Nat
  OBVIOUS
<1>2. q \in Nat /\ n * 100 < q * s + s /\ q * s <= n * 100
  BY <1>1
<1>3. q <= 60 => q * s + s <= 61 * s
  BY <1>2
<1>4. q < 20 => q * s + s <= 20 * s
  BY <1>2
<1>5. q > 60 => q * s > 60 * s
  BY <1>2
<1> QED
  BY <1>1, <1>2, <1>3, <1>4, <1>5 DEF Load, MAX_LOAD, MIN_LOAD

(* primes[] has a prime for the next growth. *)
Growable(t) == Load(t) > MAX_LOAD => \E q \in Primes : q >= t.size * RESIZE_FACTOR

LEMMA GrownKept ==
  ASSUME NEW V, Proper(V), NEW D, NEW t, Kept(t, V, D), Growable(t)
  PROVE  /\ Kept(Grown(t), V, D)
         /\ Grown(t).n_entries = t.n_entries
         /\ Held(Grown(t)) = Held(t)
         /\ Grown(t).n_entries * 100 < 61 * Grown(t).size
         /\ Grown(t).n_entries < Grown(t).size
         /\ Grown(t) = t \/ NoTombstones(Grown(t))
<1>1. IsTableOf(t, V) /\ Counted(t)
  BY DEF Kept
<1>2. t.size \in Nat \ {0} /\ t.n_entries \in Nat /\ t.n_entries <= t.size
  BY <1>1, TableFacts, LiveSlotsCount DEF Counted
<1>3. CASE Load(t) > MAX_LOAD
  <2>1. PICK p \in Primes : IsNextPrime(t.size * RESIZE_FACTOR, p)
    BY <1>3, NextPrimeExists DEF Growable
  <2>2. p \in Nat \ {0} /\ p >= t.size * 2
    BY <2>1, PrimesAssumption DEF IsNextPrime, RESIZE_FACTOR
  <2>3. t.n_entries <= p /\ t.n_entries < p /\ t.n_entries * 100 < 61 * p
    BY <1>2, <2>2
  <2>4. Grown(t) = Resized(t, t.size * RESIZE_FACTOR)
    BY <1>3 DEF Grown
  <2> QED
    BY <2>1, <2>3, <2>4, ResizedKept
<1>4. CASE ~(Load(t) > MAX_LOAD)
  <2>1. Grown(t) = t
    BY <1>4 DEF Grown
  <2>2. t.n_entries * 100 < 61 * t.size
    BY <1>2, <1>4, LoadSays DEF MAX_LOAD
  <2> QED
    BY <1>2, <2>1, <2>2
<1> QED
  BY <1>3, <1>4

LEMMA ShrunkKept ==
  ASSUME NEW V, Proper(V), NEW D, NEW t, Kept(t, V, D)
  PROVE  /\ Kept(Shrunk(t), V, D)
         /\ Shrunk(t).n_entries = t.n_entries
         /\ Held(Shrunk(t)) = Held(t)
         /\ \/ Shrunk(t) = t
            \/ /\ NoTombstones(Shrunk(t))
               /\ Shrunk(t).n_entries * 100 < 61 * Shrunk(t).size
               /\ Shrunk(t).n_entries < Shrunk(t).size
<1>1. IsTableOf(t, V) /\ Counted(t)
  BY DEF Kept
<1>2. t.size \in Nat \ {0} /\ t.size \in Primes /\ t.n_entries \in Nat
  BY <1>1, TableFacts
<1>3. CASE Load(t) < MIN_LOAD
  <2>1. t.size >= t.size \div RESIZE_FACTOR
    BY <1>2 DEF RESIZE_FACTOR
  <2>2. PICK p \in Primes : IsNextPrime(t.size \div RESIZE_FACTOR, p)
    BY <1>2, <2>1, NextPrimeExists
  <2>3. p \in Nat \ {0} /\ p >= t.size \div 2
    BY <2>2, PrimesAssumption DEF IsNextPrime, RESIZE_FACTOR
  <2>4. t.n_entries * 100 < 20 * t.size
    BY <1>2, <1>3, LoadSays
  <2>5. t.size <= 2 * p + 1
    BY <1>2, <2>3
  <2>6. t.n_entries <= p /\ t.n_entries < p /\ t.n_entries * 100 < 61 * p
    BY <1>2, <2>3, <2>4, <2>5
  <2>7. Shrunk(t) = Resized(t, t.size \div RESIZE_FACTOR)
    BY <1>3 DEF Shrunk
  <2> QED
    BY <2>2, <2>6, <2>7, ResizedKept
<1>4. CASE ~(Load(t) < MIN_LOAD)
  BY <1>4 DEF Shrunk
<1> QED
  BY <1>3, <1>4

(* What a call may do to its table, besides what it is called for.         *)
After(u, t, V, D) ==
  /\ Kept(u, V, D)
  /\ Excess(u) <= Excess(t)
  /\ Roomy(t) => Roomy(u)
  /\ NoTombstones(t) => NoTombstones(u)

(* hashtable_insert: every outcome is one of these. *)
InsertedOK(u, t, k, v) ==
  LET e == [key |-> k, ptr_value |-> v]
  IN  /\ u.n_entries > 0
      /\ e \in Held(u)
      /\ Held(u) \subseteq Held(t) \cup {e}
      /\ \A x \in Held(t) : x.key # k => x \in Held(u)

LEMMA StoredKept ==
  ASSUME NEW V, Proper(V), NEW D, NEW t, Kept(t, V, D), Growable(t),
         NEW k \in Keys, NEW v \in V, ~Endless(Grown(t), k)
  PROVE  LET g == Grown(t)
             u == IF Found(g, k) THEN WithValue(g, IndexOf(g, k), v)
                  ELSE InsertedNewEntry(g, [key |-> k, ptr_value |-> v])
         IN  /\ Kept(u, V, D)
             /\ Excess(u) <= Excess(t)
             /\ Roomy(u)
             /\ NoTombstones(g) => NoTombstones(u)
             /\ InsertedOK(u, t, k, v)
<1> DEFINE g == Grown(t)
           e == [key |-> k, ptr_value |-> v]
<1>1. /\ Kept(g, V, D)
      /\ g.n_entries = t.n_entries
      /\ Held(g) = Held(t)
      /\ g.n_entries * 100 < 61 * g.size
      /\ g.n_entries < g.size
  BY GrownKept
<1> HIDE DEF g
<1>2. IsTableOf(g, V) /\ Counted(g) /\ Reachable(g)
  BY <1>1 DEF Kept
<1>3. g.size \in Nat \ {0} /\ g.n_entries \in Nat
  BY <1>2, TableFacts
<1>4. e \in EntriesOf(V) /\ e.key = k
  BY DEF EntriesOf
<1>5. Excess(g) = Excess(t) /\ Excess(g) \in Int
  <2>1. Cardinality(KeysIn(g)) \in Nat
    BY <1>2, KeysInFinite
  <2> QED
    BY <1>1, <1>3, <2>1 DEF Excess, KeysIn
<1>6. CASE Found(g, k)
  <2> DEFINE j == IndexOf(g, k)
             u == WithValue(g, j, v)
  <2>1. j \in LiveSlots(g) /\ g.entries[j].key = k
    BY <1>2, <1>6, FoundHasKey
  <2> HIDE DEF j
  <2>2. /\ Kept(u, V, D)
        /\ u.size = g.size /\ u.n_entries = g.n_entries
        /\ e \in Held(u)
        /\ Held(u) \subseteq Held(g) \cup {e}
        /\ \A x \in Held(g) : x.key # k => x \in Held(u)
        /\ KeysIn(u) = KeysIn(g)
        /\ NoTombstones(g) => NoTombstones(u)
    BY <1>1, <2>1, WithValueKept
  <2> HIDE DEF u
  <2>3. Excess(u) <= Excess(t) /\ Roomy(u)
    BY <1>1, <1>3, <1>5, <2>2 DEF Excess, Roomy
  <2>4. u.n_entries > 0
    BY <1>2, <1>3, <2>1, <2>2, NoneLive
  <2>5. InsertedOK(u, t, k, v)
    BY <1>1, <2>2, <2>4 DEF InsertedOK
  <2> QED
    BY <1>6, <2>2, <2>3, <2>5 DEF u, j, g
<1>7. CASE ~Found(g, k)
  <2> DEFINE u == InsertedNewEntry(g, e)
  <2>1. Lacks(g, k)
    BY <1>2, <1>7, NotFoundIsAbsent DEF g
  <2>2. Kept(u, V, D) /\ Placed(u, g, e)
    BY <1>1, <1>4, <2>1, InsertedNewEntryKept
  <2> HIDE DEF u, e
  <2>3. /\ Held(u) = Held(g) \cup {e}
        /\ u.size = g.size
        /\ u.n_entries = g.n_entries + 1
        /\ NoTombstones(g) => NoTombstones(u)
    BY <1>2, <1>4, <2>2, PlacedHeld
  <2>4. KeysIn(u) = KeysIn(g) \cup {k} /\ k \notin KeysIn(g)
    BY <1>4, <2>1, <2>3 DEF KeysIn, Held, Lacks
  <2>5. Cardinality(KeysIn(u)) = Cardinality(KeysIn(g)) + 1 /\ Cardinality(KeysIn(g)) \in Nat
    BY <1>2, <2>4, KeysInFinite, FS_AddElement
  <2>6. Excess(u) <= Excess(t) /\ Roomy(u) /\ u.n_entries > 0
    BY <1>1, <1>3, <1>5, <2>3, <2>5 DEF Excess, Roomy
  <2>7. InsertedOK(u, t, k, v)
    BY <1>1, <2>3, <2>6 DEF InsertedOK, e
  <2> QED
    BY <1>7, <2>2, <2>3, <2>6, <2>7 DEF u, g, e
<1> QED
  BY <1>6, <1>7

LEMMA InsertOutcomesKept ==
  ASSUME NEW V, Proper(V), NEW D, NEW t, Kept(t, V, D), Growable(t),
         NEW k \in Keys, NEW v \in V, NEW mayFail, NEW o \in InsertOutcomes(t, k, v, mayFail)
  PROVE  /\ After(o.table, t, V, D)
         /\ o = Outcome(o.table, o.ok) /\ o.ok \in BOOLEAN
         /\ IF o.ok THEN InsertedOK(o.table, t, k, v)
            ELSE mayFail /\ Held(o.table) = Held(t) /\ o.table.n_entries = t.n_entries
<1> DEFINE g == Grown(t)
           u == IF Found(g, k) THEN WithValue(g, IndexOf(g, k), v)
                ELSE InsertedNewEntry(g, [key |-> k, ptr_value |-> v])
<1>1. /\ Kept(g, V, D)
      /\ g.n_entries = t.n_entries
      /\ Held(g) = Held(t)
      /\ g.n_entries * 100 < 61 * g.size
      /\ g = t \/ NoTombstones(g)
  BY GrownKept
<1>2. ASSUME ~Endless(g, k)
      PROVE  /\ Kept(u, V, D)
             /\ Excess(u) <= Excess(t)
             /\ Roomy(u)
             /\ NoTombstones(g) => NoTombstones(u)
             /\ InsertedOK(u, t, k, v)
  BY <1>2, StoredKept
<1>3. \/ ~Endless(g, k) /\ o = Outcome(u, TRUE)
      \/ mayFail /\ o = Outcome(t, FALSE)
      \/ mayFail /\ o = Outcome(g, FALSE)
  BY DEF InsertOutcomes
<1> HIDE DEF u, g
<1>4. t.n_entries \in Nat /\ Cardinality(KeysIn(t)) \in Nat /\ Cardinality(KeysIn(g)) \in Nat
      /\ t.size \in Nat /\ g.size \in Nat
  BY <1>1, TableFacts, KeysInFinite DEF Kept
<1>5. CASE ~Endless(g, k) /\ o = Outcome(u, TRUE)
  <2>1. o.table = u /\ o.ok = TRUE /\ o = Outcome(o.table, o.ok)
    BY <1>5 DEF Outcome
  <2>2. Kept(u, V, D) /\ Excess(u) <= Excess(t) /\ Roomy(u) /\ InsertedOK(u, t, k, v)
    BY <1>2, <1>5
  <2>3. NoTombstones(t) => NoTombstones(u)
    BY <1>1, <1>2, <1>5, Zenon
  <2>4. After(u, t, V, D)
    BY <2>2, <2>3 DEF After
  <2> QED
    BY <2>1, <2>2, <2>4, Zenon
<1>6. CASE mayFail /\ o = Outcome(t, FALSE)
  BY <1>4, <1>6 DEF Outcome, After, Excess
<1>7. CASE mayFail /\ o = Outcome(g, FALSE)
  BY <1>1, <1>4, <1>7 DEF Outcome, After, Excess, KeysIn, Roomy
<1> QED
  BY <1>3, <1>5, <1>6, <1>7

(* A table without tombstones never keeps an insert searching.             *)
LEMMA InsertReturns ==
  ASSUME NEW V, Proper(V), NEW D, NEW t, Kept(t, V, D), Growable(t), NoTombstones(t),
         NEW k \in Keys, NEW v
  PROVE  /\ ~Endless(Grown(t), k)
         /\ InsertOutcomes(t, k, v, FALSE) # {}
<1>1. /\ Kept(Grown(t), V, D)
      /\ Grown(t).n_entries < Grown(t).size
      /\ NoTombstones(Grown(t))
  BY GrownKept
<1>2. Grown(t).n_entries \in Nat /\ Grown(t).size \in Nat
  BY <1>1, TableFacts DEF Kept
<1>3. ~Endless(Grown(t), k)
  BY <1>1, <1>2, EndlessIsCrowded DEF Kept
<1> QED
  BY <1>3 DEF InsertOutcomes

(* hashtable_delete. *)
DeletedOK(u, t, k) ==
  /\ u.n_entries = t.n_entries - 1
  /\ Held(u) \subseteq Held(t)
  /\ \A x \in Held(t) : x.key # k => x \in Held(u)

LEMMA DeleteOutcomesKept ==
  ASSUME NEW V, Proper(V), NEW D, NEW t, Kept(t, V, D),
         NEW k \in Keys, NEW mayFail, NEW o \in DeleteOutcomes(t, k, mayFail)
  PROVE  /\ Kept(o.table, V, D)
         /\ Excess(o.table) <= Excess(t)
         /\ Roomy(t) => Roomy(o.table)
         /\ o = Outcome(o.table, o.ok) /\ o.ok \in BOOLEAN
         /\ IF o.ok THEN DeletedOK(o.table, t, k) /\ (k \notin D => Lacks(o.table, k))
            ELSE /\ Held(o.table) = Held(t)
                 /\ o.table.n_entries = t.n_entries
                 /\ mayFail \/ Lacks(t, k)
<1> DEFINE s == Shrunk(t)
           u == WithoutEntry(s, IndexOf(s, k))
<1>1. /\ Kept(s, V, D)
      /\ s.n_entries = t.n_entries
      /\ Held(s) = Held(t)
      /\ s = t \/ s.n_entries * 100 < 61 * s.size
  BY ShrunkKept
<1>2. \/ Found(s, k) /\ o = Outcome(u, TRUE)
      \/ ~Found(s, k) /\ ~Endless(s, k) /\ o = Outcome(s, FALSE)
      \/ mayFail /\ o = Outcome(t, FALSE)
  BY DEF DeleteOutcomes
<1> HIDE DEF s, u
<1>3. /\ IsTableOf(s, V) /\ Counted(s) /\ Reachable(s) /\ IsTableOf(t, V)
      /\ t.n_entries \in Nat /\ t.size \in Nat /\ s.size \in Nat
      /\ Cardinality(KeysIn(t)) \in Nat /\ Cardinality(KeysIn(s)) \in Nat
  BY <1>1, TableFacts, KeysInFinite DEF Kept
<1>4. Roomy(t) => Roomy(s)
  BY <1>1, <1>3 DEF Roomy
<1>5. Excess(s) = Excess(t) /\ KeysIn(s) = KeysIn(t) /\ Excess(t) \in Int
  BY <1>1, <1>3 DEF Excess, KeysIn
<1>6. CASE Found(s, k) /\ o = Outcome(u, TRUE)
  <2>1. IndexOf(s, k) \in LiveSlots(s) /\ s.entries[IndexOf(s, k)].key = k
    BY <1>3, <1>6, FoundHasKey
  <2>2. /\ Kept(u, V, D)
        /\ u.size = s.size /\ u.n_entries = s.n_entries - 1
        /\ Held(u) \subseteq Held(s)
        /\ \A x \in Held(s) : x.key # k => x \in Held(u)
        /\ KeysIn(u) \subseteq KeysIn(s) /\ KeysIn(s) \subseteq KeysIn(u) \cup {k}
        /\ k \notin D => Lacks(u, k)
    BY <1>1, <2>1, WithoutEntryKept DEF u
  <2>3. IsFiniteSet(KeysIn(u)) /\ Cardinality(KeysIn(u)) \in Nat
    BY <2>2, KeysInFinite DEF Kept
  <2>4. IsFiniteSet(KeysIn(u) \cup {k}) /\ Cardinality(KeysIn(u) \cup {k}) <= Cardinality(KeysIn(u)) + 1
    <3>1. CASE k \in KeysIn(u)
      <4>1. KeysIn(u) \cup {k} = KeysIn(u)
        BY <3>1
      <4>2. /\ IsFiniteSet(KeysIn(u) \cup {k})
            /\ Cardinality(KeysIn(u) \cup {k}) = Cardinality(KeysIn(u))
        BY <2>3, <4>1, Zenon
      <4> QED
        BY <2>3, <4>2
    <3>2. CASE k \notin KeysIn(u)
      <4>1. /\ IsFiniteSet(KeysIn(u) \cup {k})
            /\ Cardinality(KeysIn(u) \cup {k}) = Cardinality(KeysIn(u)) + 1
        BY <2>3, <3>2, FS_AddElement, Zenon
      <4> QED
        BY <2>3, <4>1
    <3> QED
      BY <3>1, <3>2
  <2>5. Cardinality(KeysIn(s)) <= Cardinality(KeysIn(u) \cup {k})
    BY <2>2, <2>4, FS_Subset
  <2>6. Cardinality(KeysIn(u) \cup {k}) \in Nat
    BY <2>4, FS_CardinalityType
  <2>7. Excess(u) <= Excess(t)
    BY <1>1, <1>3, <1>5, <2>2, <2>3, <2>4, <2>5, <2>6 DEF Excess
  <2>8. Roomy(t) => Roomy(u)
    BY <1>1, <1>3, <1>4, <2>2 DEF Roomy
  <2>9. DeletedOK(u, t, k)
    BY <1>1, <2>2 DEF DeletedOK
  <2> QED
    BY <1>6, <2>2, <2>7, <2>8, <2>9 DEF Outcome
<1>7. CASE ~Found(s, k) /\ ~Endless(s, k) /\ o = Outcome(s, FALSE)
  <2>1. Lacks(s, k)
    BY <1>3, <1>7, NotFoundIsAbsent
  <2>2. Lacks(t, k)
    BY <1>1, <2>1 DEF Lacks, Held
  <2> QED
    BY <1>1, <1>3, <1>4, <1>5, <1>7, <2>2 DEF Outcome
<1>8. CASE mayFail /\ o = Outcome(t, FALSE)
  BY <1>3, <1>5, <1>8 DEF Outcome
<1> QED
  BY <1>2, <1>6, <1>7, <1>8

=============================================================================
