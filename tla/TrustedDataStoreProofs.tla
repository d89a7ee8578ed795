----------------------- MODULE TrustedDataStoreProofs -----------------------
(***************************************************************************)
(* The trusted data store keeps its invariants: whatever fails and however *)
(* often it is restarted, its tables can be searched, what a save has      *)
(* written by the time it stops can be loaded, and a search that never     *)
(* ends has one of two causes.                                             *)
(***************************************************************************)
EXTENDS TrustedDataStoreProps, HashtableCallsProofs, SequenceTheorems

(* The recursions of the model have solutions. *)

(* The first n sequences, one after the other. *)
LEMMA ConcatenatedDefined ==
  ASSUME NEW seqs, Len(seqs) \in Nat
  PROVE  Concatenated(seqs) = [n \in 0 .. Len(seqs) |->
           IF n = 0 THEN <<>>
           ELSE Concatenated(seqs)[n - 1] \o seqs[n]]
<1> DEFINE Step(g, n) == IF n = 0 THEN <<>>
                         ELSE g[n - 1] \o seqs[n]
           Solves(g, m) == g = [n \in 0 .. m |-> Step(g, n)]
           Unsolved == {m \in Nat : ~\E g : Solves(g, m)}
<1>1. Unsolved = {}
  <2> SUFFICES ASSUME Unsolved # {} PROVE FALSE
    OBVIOUS
  <2>1. PICK m \in Unsolved : \A k \in Unsolved : m <= k
    BY LeastNatural
  <2>2. m # 0
    <3> DEFINE g == [n \in 0 .. 0 |-> <<>>]
    <3>1. Solves(g, 0)
      OBVIOUS
    <3> QED
      BY <3>1, <2>1
  <2>3. m - 1 \in Nat /\ m - 1 \notin Unsolved
    <3>1. m \in Nat
      OBVIOUS
    <3> HIDE DEF Unsolved
    <3> QED
      BY <2>1, <2>2, <3>1
  <2>4. PICK g : Solves(g, m - 1)
    BY <2>3
  <2> DEFINE h == [n \in 0 .. m |-> IF n = m THEN Step(g, m) ELSE g[n]]
  <2>5. \A n \in 0 .. m : h[n] = Step(h, n)
    <3> SUFFICES ASSUME NEW n \in 0 .. m PROVE h[n] = Step(h, n)
      OBVIOUS
    <3>1. n # 0 => h[n - 1] = g[n - 1]
      BY <2>1
    <3>2. Step(h, n) = Step(g, n)
      BY <3>1
    <3>3. n # m => g[n] = Step(g, n)
      BY <2>1, <2>4
    <3> QED
      BY <3>2, <3>3
  <2>6. Solves(h, m)
    BY <2>5, Zenon
  <2> QED
    BY <2>1, <2>6
<1>2. \E g : Solves(g, Len(seqs))
  BY <1>1
<1> QED
  BY <1>2 DEF Concatenated

(* Fields are read one at a time. *)
LEMMA FillingDefined ==
  ASSUME NEW f, NEW p, At(f, p + 1, 0) \in Nat
  PROVE  Filling(f, p) = [n \in 0 .. At(f, p + 1, 0) |->
           IF n = 0 THEN NewTable(At(f, p, 0))
           ELSE InsertedNewEntry(Filling(f, p)[n - 1], read_hashtable_entry(f, p + 2 + 4 * (n - 1)))]
<1> DEFINE Step(g, n) == IF n = 0 THEN NewTable(At(f, p, 0))
                         ELSE InsertedNewEntry(g[n - 1], read_hashtable_entry(f, p + 2 + 4 * (n - 1)))
           Solves(g, m) == g = [n \in 0 .. m |-> Step(g, n)]
           Unsolved == {m \in Nat : ~\E g : Solves(g, m)}
<1>1. Unsolved = {}
  <2> SUFFICES ASSUME Unsolved # {} PROVE FALSE
    OBVIOUS
  <2>1. PICK m \in Unsolved : \A k \in Unsolved : m <= k
    BY LeastNatural
  <2>2. m # 0
    <3> DEFINE g == [n \in 0 .. 0 |-> NewTable(At(f, p, 0))]
    <3>1. Solves(g, 0)
      OBVIOUS
    <3> QED
      BY <3>1, <2>1
  <2>3. m - 1 \in Nat /\ m - 1 \notin Unsolved
    <3>1. m \in Nat
      OBVIOUS
    <3> HIDE DEF Unsolved
    <3> QED
      BY <2>1, <2>2, <3>1
  <2>4. PICK g : Solves(g, m - 1)
    BY <2>3
  <2> DEFINE h == [n \in 0 .. m |-> IF n = m THEN Step(g, m) ELSE g[n]]
  <2>5. \A n \in 0 .. m : h[n] = Step(h, n)
    <3> SUFFICES ASSUME NEW n \in 0 .. m PROVE h[n] = Step(h, n)
      OBVIOUS
    <3>1. n # 0 => h[n - 1] = g[n - 1]
      BY <2>1
    <3>2. Step(h, n) = Step(g, n)
      BY <3>1
    <3>3. n # m => g[n] = Step(g, n)
      BY <2>1, <2>4
    <3> QED
      BY <3>2, <3>3
  <2>6. Solves(h, m)
    BY <2>5, Zenon
  <2> QED
    BY <2>1, <2>6
<1>2. \E g : Solves(g, At(f, p + 1, 0))
  BY <1>1
<1> QED
  BY <1>2 DEF Filling

(* A key begins where the set before it ends. *)
LEMMA PositionsDefined ==
  ASSUME NEW f, At(f, 2, 0) \in Nat
  PROVE  Positions(f) = [n \in 0 .. At(f, 2, 0) |->
           IF n = 0 THEN 3
           ELSE Positions(f)[n - 1] + 4 + 4 * At(f, Positions(f)[n - 1] + 3, 0)]
<1> DEFINE Step(g, n) == IF n = 0 THEN 3
                         ELSE g[n - 1] + 4 + 4 * At(f, g[n - 1] + 3, 0)
           Solves(g, m) == g = [n \in 0 .. m |-> Step(g, n)]
           Unsolved == {m \in Nat : ~\E g : Solves(g, m)}
<1>1. Unsolved = {}
  <2> SUFFICES ASSUME Unsolved # {} PROVE FALSE
    OBVIOUS
  <2>1. PICK m \in Unsolved : \A k \in Unsolved : m <= k
    BY LeastNatural
  <2>2. m # 0
    <3> DEFINE g == [n \in 0 .. 0 |-> 3]
    <3>1. Solves(g, 0)
      OBVIOUS
    <3> QED
      BY <3>1, <2>1
  <2>3. m - 1 \in Nat /\ m - 1 \notin Unsolved
    <3>1. m \in Nat
      OBVIOUS
    <3> HIDE DEF Unsolved
    <3> QED
      BY <2>1, <2>2, <3>1
  <2>4. PICK g : Solves(g, m - 1)
    BY <2>3
  <2> DEFINE h == [n \in 0 .. m |-> IF n = m THEN Step(g, m) ELSE g[n]]
  <2>5. \A n \in 0 .. m : h[n] = Step(h, n)
    <3> SUFFICES ASSUME NEW n \in 0 .. m PROVE h[n] = Step(h, n)
      OBVIOUS
    <3>1. n # 0 => h[n - 1] = g[n - 1]
      BY <2>1
    <3>2. Step(h, n) = Step(g, n)
      BY <3>1
    <3>3. n # m => g[n] = Step(g, n)
      BY <2>1, <2>4
    <3> QED
      BY <3>2, <3>3
  <2>6. Solves(h, m)
    BY <2>5, Zenon
  <2> QED
    BY <2>1, <2>6
<1>2. \E g : Solves(g, At(f, 2, 0))
  BY <1>1
<1> QED
  BY <1>2 DEF Positions

ReadAt(f, t, p) ==
  (CHOOSE o \in InsertOutcomes(t, read_string(f, p), read_hashtable(f, p + 2), FALSE) : TRUE).table

(* Sets are read one at a time. *)
LEMMA LoadingDefined ==
  ASSUME NEW f, At(f, 2, 0) \in Nat
  PROVE  Loading(f) = [n \in 0 .. At(f, 2, 0) |->
           IF n = 0 THEN NewTable(At(f, 1, 0))
           ELSE ReadAt(f, Loading(f)[n - 1], Positions(f)[n - 1])]
<1> DEFINE Step(g, n) == IF n = 0 THEN NewTable(At(f, 1, 0))
                         ELSE ReadAt(f, g[n - 1], Positions(f)[n - 1])
           Solves(g, m) == g = [n \in 0 .. m |-> Step(g, n)]
           Unsolved == {m \in Nat : ~\E g : Solves(g, m)}
<1>1. Unsolved = {}
  <2> SUFFICES ASSUME Unsolved # {} PROVE FALSE
    OBVIOUS
  <2>1. PICK m \in Unsolved : \A k \in Unsolved : m <= k
    BY LeastNatural
  <2>2. m # 0
    <3> DEFINE g == [n \in 0 .. 0 |-> NewTable(At(f, 1, 0))]
    <3>1. Solves(g, 0)
      OBVIOUS
    <3> QED
      BY <3>1, <2>1
  <2>3. m - 1 \in Nat /\ m - 1 \notin Unsolved
    <3>1. m \in Nat
      OBVIOUS
    <3> HIDE DEF Unsolved
    <3> QED
      BY <2>1, <2>2, <3>1
  <2>4. PICK g : Solves(g, m - 1)
    BY <2>3
  <2> DEFINE h == [n \in 0 .. m |-> IF n = m THEN Step(g, m) ELSE g[n]]
  <2>5. \A n \in 0 .. m : h[n] = Step(h, n)
    <3> SUFFICES ASSUME NEW n \in 0 .. m PROVE h[n] = Step(h, n)
      OBVIOUS
    <3>1. n # 0 => h[n - 1] = g[n - 1]
      BY <2>1
    <3>2. Step(h, n) = Step(g, n)
      BY <3>1
    <3>3. n # m => g[n] = Step(g, n)
      BY <2>1, <2>4
    <3> QED
      BY <3>2, <3>3
  <2>6. Solves(h, m)
    BY <2>5, Zenon
  <2> QED
    BY <2>1, <2>6
<1>2. \E g : Solves(g, At(f, 2, 0))
  BY <1>1
<1> QED
  BY <1>2 DEF Loading, ReadAt

-----------------------------------------------------------------------------
(* Sets and stores.                                                        *)

LEMMA ProperValues == Proper(Fields) /\ Proper(Sets)
BY PointersAssumption DEF Proper

(* The bounds on the fields of a set, and primes[] which is long enough.   *)
LEMMA CapFacts ==
  ASSUME NEW n \in Nat
  PROVE  /\ Cap(n) \in Nat
         /\ Cap(n + 1) = Cap(n) + Cardinality(Keys)
         /\ Cap(n) <= Cap(n + 1)
         /\ Cardinality(Keys) \in Nat
<1>1. Cardinality(Keys) \in Nat
  BY SizesAssumption, FS_CardinalityType
<1> DEFINE c == Cardinality(Keys)
<1>2. c \in Nat
  BY <1>1
<1> HIDE DEF c
<1>3. n * c \in Nat /\ (n + 1) * c = n * c + c
  BY <1>2, SMT
<1> QED
  BY <1>1, <1>3 DEF Cap, c

LEMMA CapGrows ==
  ASSUME NEW n \in Nat, NEW m \in Nat, n <= m
  PROVE  Cap(n) <= Cap(m)
<1> DEFINE c == Cardinality(Keys)
<1>1. c \in Nat
  BY SizesAssumption, FS_CardinalityType
<1> HIDE DEF c
<1>2. PICK d \in Nat : m = n + d
  <2>1. m - n \in Nat /\ m = n + (m - n)
    OBVIOUS
  <2> QED
    BY <2>1
<1>3. d * c \in Nat /\ n * c \in Nat
  BY <1>1, SMT
<1>4. m * c = n * c + d * c
  BY <1>1, <1>2, SMT
<1> QED
  BY <1>3, <1>4 DEF Cap, c

LEMMA KeysBound ==
  ASSUME NEW V, NEW t, IsTableOf(t, V)
  PROVE  Cardinality(KeysIn(t)) <= Cardinality(Keys) /\ Cardinality(KeysIn(t)) \in Nat
<1>1. \A j \in LiveSlots(t) : t.entries[j].key \in Keys
  BY TableFacts
<1>2. KeysIn(t) \subseteq Keys
  BY <1>1 DEF KeysIn, Held
<1> QED
  BY <1>2, SizesAssumption, FS_Subset, KeysInFinite

LEMMA ExcessType ==
  ASSUME NEW V, NEW t, IsTableOf(t, V)
  PROVE  Excess(t) \in Int
<1>1. t.n_entries \in Nat /\ Cardinality(KeysIn(t)) \in Nat
  BY TableFacts, KeysInFinite
<1> QED
  BY <1>1 DEF Excess

LEMMA NotTooMany ==
  ASSUME NEW V, NEW D, NEW t, Kept(t, V, D), NEW n \in 0 .. MaxStarts, n > 0,
         Excess(t) <= Cap(n - 1)
  PROVE  t.n_entries <= Cap(n) /\ Growable(t)
<1>1. IsTableOf(t, V)
  BY DEF Kept
<1>2. t.n_entries \in Nat /\ t.size \in Nat \ {0}
  BY <1>1, TableFacts
<1>3. n - 1 \in Nat /\ n \in Nat /\ MaxStarts \in Nat /\ n <= MaxStarts
  BY SizesAssumption
<1>4. Cap(n) = Cap(n - 1) + Cardinality(Keys) /\ Cap(n - 1) \in Nat /\ Cardinality(Keys) \in Nat
  BY <1>3, CapFacts
<1>5. t.n_entries <= Cap(n)
  BY <1>1, <1>2, <1>4, KeysBound DEF Excess
<1>6. Cap(n) <= Cap(MaxStarts) /\ Cap(n) \in Nat /\ Cap(MaxStarts) \in Nat
  BY <1>3, CapGrows, CapFacts
<1>7. Growable(t)
  <2> SUFFICES ASSUME Load(t) > MAX_LOAD
               PROVE  \E q \in Primes : q >= t.size * RESIZE_FACTOR
    BY DEF Growable
  <2>1. t.n_entries * 100 > 60 * t.size
    BY <1>2, LoadSays
  <2>2. PICK q \in Primes : Cap(MaxStarts) * RESIZE_FACTOR * 100 <= MAX_LOAD * q
    BY SizesAssumption DEF Cap
  <2>3. q \in Nat
    BY PrimesAssumption
  <2>4. q >= t.size * RESIZE_FACTOR
    BY <1>2, <1>5, <1>6, <2>1, <2>2, <2>3 DEF RESIZE_FACTOR, MAX_LOAD
  <2> QED
    BY <2>4
<1> QED
  BY <1>5, <1>7

LEMMA IsSet ==
  ASSUME NEW s, IsTableOf(s, Fields)
  PROVE  s \in Sets /\ s # NULL
<1>1. s \in Sets
  BY DEF IsTableOf, Sets
<1> QED
  BY <1>1, PointersAssumption

(* A good store is a table of sets. *)
LEMMA StoreOfSets ==
  ASSUME NEW t, NEW n, GoodStore(t, n)
  PROVE  /\ Kept(t, Sets, {})
         /\ SetsIn(t) \subseteq Sets
         /\ \A s \in SetsIn(t) : IsTableOf(s, Fields) /\ GoodSet(s, n)
<1>1. \A s \in SetsIn(t) : IsTableOf(s, Fields) /\ GoodSet(s, n)
  BY DEF GoodStore, GoodSet, Kept
<1>2. SetsIn(t) \subseteq Sets
  BY <1>1, IsSet
<1>3. IsTableOf(t, SetsIn(t))
  BY DEF GoodStore, Kept
<1>4. EntriesOf(SetsIn(t)) \subseteq EntriesOf(Sets)
  BY <1>2 DEF EntriesOf
<1>5. t.entries \in [0 .. t.size - 1 -> EntriesOf(Sets) \cup {NULL, DELETED}]
  BY <1>3, <1>4 DEF IsTableOf
<1>6. IsTableOf(t, Sets)
  BY <1>3, <1>5 DEF IsTableOf
<1> QED
  BY <1>1, <1>2, <1>6 DEF GoodStore, Kept

LEMMA StoreIsGood ==
  ASSUME NEW t, NEW n, Kept(t, Sets, {}), Roomy(t), \A s \in SetsIn(t) : GoodSet(s, n)
  PROVE  GoodStore(t, n)
<1>1. IsTableOf(t, Sets)
  BY DEF Kept
<1>2. \A j \in 0 .. t.size - 1 :
        t.entries[j] \in EntriesOf(SetsIn(t)) \cup {NULL, DELETED}
  <2> SUFFICES ASSUME NEW j \in 0 .. t.size - 1
               PROVE  t.entries[j] \in EntriesOf(SetsIn(t)) \cup {NULL, DELETED}
    OBVIOUS
  <2>1. CASE j \in LiveSlots(t)
    <3>1. t.entries[j].ptr_value \in SetsIn(t)
      BY <2>1 DEF SetsIn, Held
    <3>2. /\ t.entries[j].key \in Keys
          /\ t.entries[j] = [key |-> t.entries[j].key, ptr_value |-> t.entries[j].ptr_value]
      BY <1>1, <2>1, TableFacts
    <3>3. t.entries[j] \in EntriesOf(SetsIn(t))
      BY <3>1, <3>2, Zenon DEF EntriesOf
    <3> QED
      BY <3>3
  <2>2. CASE j \notin LiveSlots(t)
    BY <1>1, <2>2, TableFacts DEF Live
  <2> QED
    BY <2>1, <2>2
<1>3. t.entries \in [0 .. t.size - 1 -> EntriesOf(SetsIn(t)) \cup {NULL, DELETED}]
  BY <1>1, <1>2 DEF IsTableOf
<1>4. IsTableOf(t, SetsIn(t))
  BY <1>1, <1>3 DEF IsTableOf
<1> QED
  BY <1>4 DEF GoodStore, Kept

(* A lookup in a good store gives a good set or nothing. *)
LEMMA SetFacts ==
  ASSUME NEW t, NEW n, GoodStore(t, n), NEW k \in Keys
  PROVE  /\ Set(t, k) # NULL <=> Found(t, k)
         /\ Found(t, k) =>
              /\ Set(t, k) \in SetsIn(t)
              /\ GoodSet(Set(t, k), n)
              /\ IsTableOf(Set(t, k), Fields)
              /\ IndexOf(t, k) \in LiveSlots(t)
              /\ t.entries[IndexOf(t, k)].key = k
<1>1. Kept(t, Sets, {}) /\ \A s \in SetsIn(t) : IsTableOf(s, Fields) /\ GoodSet(s, n)
  BY StoreOfSets
<1>2. IsTableOf(t, Sets)
  BY <1>1 DEF Kept
<1>3. ASSUME ~Found(t, k) PROVE Set(t, k) = NULL
  BY <1>3 DEF Set, Got
<1>4. ASSUME Found(t, k)
      PROVE  /\ Set(t, k) = t.entries[IndexOf(t, k)].ptr_value
             /\ IndexOf(t, k) \in LiveSlots(t)
             /\ t.entries[IndexOf(t, k)].key = k
  BY <1>2, <1>4, FoundHasKey DEF Set, Got
<1>5. ASSUME Found(t, k) PROVE Set(t, k) \in SetsIn(t)
  BY <1>4, <1>5 DEF SetsIn, Held
<1>6. ASSUME Found(t, k) PROVE IsTableOf(Set(t, k), Fields) /\ GoodSet(Set(t, k), n) /\ Set(t, k) # NULL
  BY <1>1, <1>5, <1>6, IsSet
<1> QED
  BY <1>3, <1>4, <1>5, <1>6

(* The set of a key is replaced. *)
LEMMA WithSetGood ==
  ASSUME NEW t, NEW n, GoodStore(t, n), NEW k \in Keys, Found(t, k),
         NEW s, GoodSet(s, n)
  PROVE  LET u == WithSet(t, k, s)
         IN  /\ GoodStore(u, n)
             /\ [key |-> k, ptr_value |-> s] \in Held(u)
             /\ \A x \in Held(u) :
                  x = [key |-> k, ptr_value |-> s] \/ (x \in Held(t) /\ x.key # k)
<1> DEFINE u == WithSet(t, k, s)
           e == [key |-> k, ptr_value |-> s]
<1>1. Kept(t, Sets, {}) /\ Roomy(t) /\ \A x \in SetsIn(t) : GoodSet(x, n)
  BY StoreOfSets DEF GoodStore
<1>2. IndexOf(t, k) \in LiveSlots(t) /\ t.entries[IndexOf(t, k)].key = k
  BY SetFacts
<1>3. s \in Sets
  BY IsSet DEF GoodSet, Kept
<1>4. /\ Kept(u, Sets, {})
      /\ u.size = t.size /\ u.n_entries = t.n_entries
      /\ e \in Held(u)
      /\ Held(u) \subseteq Held(t) \cup {e}
  BY <1>1, <1>2, <1>3, ProperValues, WithValueKept DEF WithSet
<1> HIDE DEF u
<1>5. \A x \in Held(u) : x = e \/ (x \in Held(t) /\ x.key # k)
  <2> SUFFICES ASSUME NEW x \in Held(u), x # e PROVE x \in Held(t) /\ x.key # k
    OBVIOUS
  <2>1. x.key # k
    <3> SUFFICES ASSUME x.key = k PROVE FALSE
      OBVIOUS
    <3>1. x.key = e.key /\ x.key \notin {}
      OBVIOUS
    <3> HIDE DEF e
    <3> QED
      BY <1>4, <3>1, UniqueHeld
  <2> QED
    BY <1>4, <2>1
<1>6. Roomy(u)
  BY <1>1, <1>4 DEF Roomy
<1>7. \A x \in SetsIn(u) : GoodSet(x, n)
  BY <1>1, <1>5 DEF SetsIn
<1>8. GoodStore(u, n)
  BY <1>4, <1>6, <1>7, StoreIsGood
<1> QED
  BY <1>4, <1>5, <1>8 DEF u

LEMMA NewSetGood ==
  ASSUME NEW n \in Nat, n > 0
  PROVE  GoodSet(NewTable(INITIAL_SIZE), n) /\ GoodStore(NewTable(INITIAL_SIZE), n)
         /\ SetsIn(NewTable(INITIAL_SIZE)) = {}
<1>1. PICK p \in Primes : IsNextPrime(INITIAL_SIZE, p)
  BY SizesAssumption
<1>2. NewTable(INITIAL_SIZE) = EmptyTable(p)
  BY <1>1, NextPrimeIs DEF NewTable
<1> DEFINE t == EmptyTable(p)
<1>3. /\ Kept(t, Fields, {Empty}) /\ Kept(t, Sets, {})
      /\ LiveSlots(t) = {} /\ t.size = p /\ t.n_entries = 0
  BY EmptyKept
<1> HIDE DEF t
<1>4. Held(t) = {} /\ KeysIn(t) = {} /\ SetsIn(t) = {}
  BY <1>3 DEF Held, KeysIn, SetsIn
<1>5. Excess(t) = 0
  BY <1>3, <1>4, FS_EmptySet DEF Excess
<1>6. p \in Nat \ {0}
  BY PrimesAssumption
<1>7. Roomy(t)
  BY <1>3, <1>6 DEF Roomy
<1>8. 0 <= Cap(n - 1)
  <2>1. n - 1 \in Nat
    OBVIOUS
  <2> QED
    BY <2>1, CapFacts
<1>9. GoodSet(t, n)
  BY <1>3, <1>5, <1>7, <1>8 DEF GoodSet
<1>10. GoodStore(t, n)
  BY <1>3, <1>4, <1>7, StoreIsGood
<1> QED
  BY <1>2, <1>4, <1>9, <1>10 DEF t

-----------------------------------------------------------------------------
(* The commands.                                                           *)

LEMMA SetInserted ==
  ASSUME NEW n \in 0 .. MaxStarts, n > 0, NEW s, GoodSet(s, n), NEW k \in Keys, NEW v \in Fields,
         NEW mayFail, NEW o \in InsertOutcomes(s, k, v, mayFail)
  PROVE  /\ GoodSet(o.table, n)
         /\ o.ok \in BOOLEAN
         /\ IF o.ok THEN o.table.n_entries > 0 ELSE mayFail
<1>1. Kept(s, Fields, {Empty}) /\ Roomy(s) /\ Excess(s) <= Cap(n - 1)
  BY DEF GoodSet
<1>2. Growable(s)
  BY <1>1, NotTooMany
<1>3. /\ After(o.table, s, Fields, {Empty})
      /\ o.ok \in BOOLEAN
      /\ IF o.ok THEN InsertedOK(o.table, s, k, v)
         ELSE mayFail /\ Held(o.table) = Held(s) /\ o.table.n_entries = s.n_entries
  BY <1>1, <1>2, ProperValues, InsertOutcomesKept
<1>4. Kept(o.table, Fields, {Empty}) /\ Roomy(o.table) /\ Excess(o.table) <= Excess(s)
  BY <1>1, <1>3 DEF After
<1>5. Excess(o.table) \in Int /\ Excess(s) \in Int /\ Cap(n - 1) \in Int
  <2>1. n - 1 \in Nat
    BY SizesAssumption
  <2>2. IsTableOf(s, Fields) /\ IsTableOf(o.table, Fields)
    BY <1>1, <1>4 DEF Kept
  <2> QED
    BY <2>1, <2>2, CapFacts, ExcessType
<1>6. GoodSet(o.table, n)
  BY <1>1, <1>4, <1>5 DEF GoodSet
<1> QED
  BY <1>3, <1>6 DEF InsertedOK

LEMMA SetDeleted ==
  ASSUME NEW n \in 0 .. MaxStarts, n > 0, NEW s, GoodSet(s, n), NEW k \in Keys,
         NEW mayFail, NEW o \in DeleteOutcomes(s, k, mayFail)
  PROVE  GoodSet(o.table, n) /\ o.ok \in BOOLEAN
<1>1. Kept(s, Fields, {Empty}) /\ Roomy(s) /\ Excess(s) <= Cap(n - 1)
  BY DEF GoodSet
<1>2. Kept(o.table, Fields, {Empty}) /\ Roomy(o.table) /\ Excess(o.table) <= Excess(s)
      /\ o.ok \in BOOLEAN
  BY <1>1, ProperValues, DeleteOutcomesKept
<1>3. Excess(o.table) \in Int /\ Excess(s) \in Int /\ Cap(n - 1) \in Int
  <2>1. n - 1 \in Nat
    BY SizesAssumption
  <2>2. IsTableOf(s, Fields) /\ IsTableOf(o.table, Fields)
    BY <1>1, <1>2 DEF Kept
  <2> QED
    BY <2>1, <2>2, CapFacts, ExcessType
<1> QED
  BY <1>1, <1>2, <1>3 DEF GoodSet

LEMMA HeldIsFound ==
  ASSUME NEW V, NEW t, Kept(t, V, {}), NEW e \in Held(t)
  PROVE  Found(t, e.key) /\ t.entries[IndexOf(t, e.key)] = e
<1>1. PICK j \in LiveSlots(t) : e = t.entries[j]
  BY DEF Held
<1>2. t.entries[j].key \notin {}
  OBVIOUS
<1> QED
  BY <1>1, <1>2, StoredIsFound

LEMMA StoreGrowable ==
  ASSUME NEW n \in 0 .. MaxStarts, n > 0, NEW t, GoodStore(t, n)
  PROVE  Growable(t)
<1>1. Kept(t, Sets, {})
  BY StoreOfSets
<1>2. Excess(t) = 0
  BY <1>1, UniqueNoExcess
<1>3. n - 1 \in Nat
  BY SizesAssumption
<1>4. Excess(t) <= Cap(n - 1)
  BY <1>2, <1>3, CapFacts
<1> QED
  BY <1>1, <1>4, NotTooMany

(* A set is stored for a key. *)
LEMMA StoreInserted ==
  ASSUME NEW n \in 0 .. MaxStarts, n > 0, NEW t, GoodStore(t, n), NEW k \in Keys,
         NEW s, GoodSet(s, n), NEW mayFail, NEW o \in InsertOutcomes(t, k, s, mayFail)
  PROVE  /\ GoodStore(o.table, n)
         /\ o.ok \in BOOLEAN
         /\ NoTombstones(t) => NoTombstones(o.table)
         /\ SetsIn(o.table) \subseteq SetsIn(t) \cup {s}
         /\ \A x \in Held(o.table) : x.key # k => x \in Held(t)
         /\ IF o.ok THEN Found(o.table, k) ELSE mayFail
<1> DEFINE u == o.table
           e == [key |-> k, ptr_value |-> s]
<1>1. Kept(t, Sets, {}) /\ Roomy(t) /\ \A x \in SetsIn(t) : GoodSet(x, n)
  BY StoreOfSets DEF GoodStore
<1>2. s \in Sets
  BY IsSet DEF GoodSet, Kept
<1>3. Growable(t)
  BY StoreGrowable
<1>4. /\ After(u, t, Sets, {})
      /\ o.ok \in BOOLEAN
      /\ IF o.ok THEN InsertedOK(u, t, k, s)
         ELSE mayFail /\ Held(u) = Held(t) /\ u.n_entries = t.n_entries
  BY <1>1, <1>2, <1>3, ProperValues, InsertOutcomesKept
<1> HIDE DEF u
<1>5. Kept(u, Sets, {}) /\ Roomy(u) /\ (NoTombstones(t) => NoTombstones(u))
  BY <1>1, <1>4 DEF After
<1>6. Held(u) \subseteq Held(t) \cup {e} /\ (o.ok => e \in Held(u))
  BY <1>4 DEF InsertedOK
<1>7. SetsIn(u) \subseteq SetsIn(t) \cup {s}
  BY <1>6 DEF SetsIn
<1>8. GoodStore(u, n)
  BY <1>1, <1>5, <1>7, StoreIsGood
<1>9. o.ok => Found(u, k)
  BY <1>5, <1>6, HeldIsFound
<1>10. \A x \in Held(u) : x.key # k => x \in Held(t)
  BY <1>6
<1> QED
  BY <1>4, <1>5, <1>7, <1>8, <1>9, <1>10 DEF u

LEMMA SetMade ==
  ASSUME NEW n \in 0 .. MaxStarts, n > 0, NEW t, GoodStore(t, n), NEW k \in Keys,
         NEW o \in SetOutcomes(t, k)
  PROVE  /\ GoodStore(o.table, n)
         /\ o.ok \in BOOLEAN
         /\ \A x \in Held(o.table) : x.key # k => x \in Held(t)
         /\ IF o.ok THEN Found(o.table, k) ELSE NoMemory
<1>1. CASE Set(t, k) # NULL
  <2>1. o = Outcome(t, TRUE)
    BY <1>1 DEF SetOutcomes
  <2>2. o.table = t /\ o.ok = TRUE
    BY <2>1 DEF Outcome
  <2> QED
    BY <1>1, <2>2, SetFacts
<1>2. CASE Set(t, k) = NULL
  <2>1. o \in InsertOutcomes(t, k, NewTable(INITIAL_SIZE), NoMemory)
    BY <1>2 DEF SetOutcomes
  <2>2. n \in Nat
    BY SizesAssumption
  <2>3. GoodSet(NewTable(INITIAL_SIZE), n)
    BY <2>2, NewSetGood
  <2> QED
    BY <2>1, <2>3, StoreInserted
<1> QED
  BY <1>1, <1>2

LEMMA FieldMade ==
  ASSUME NEW n \in 0 .. MaxStarts, n > 0, NEW t, GoodStore(t, n), NEW k \in Keys, Found(t, k),
         NEW f \in Keys, NEW v \in Values, NEW o \in FieldOutcomes(t, k, f, v)
  PROVE  /\ GoodStore(o.table, n)
         /\ o.ok \in BOOLEAN
         /\ \E s : /\ \A x \in Held(o.table) : x.ptr_value = s \/ (x \in Held(t) /\ x.key # k)
                   /\ IF o.ok THEN s.n_entries > 0 ELSE NoMemory
<1>1. PICK d \in {v} \cup (IF NoMemory THEN {NULL} ELSE {}) :
        \E x \in InsertOutcomes(Set(t, k), f, d, NoMemory) :
          o = Outcome(WithSet(t, k, x.table), x.ok)
  BY DEF FieldOutcomes
<1>2. PICK x \in InsertOutcomes(Set(t, k), f, d, NoMemory) :
        o = Outcome(WithSet(t, k, x.table), x.ok)
  BY <1>1
<1>3. d \in Fields
  BY DEF Fields
<1>4. GoodSet(Set(t, k), n)
  BY SetFacts
<1>5. /\ GoodSet(x.table, n)
      /\ x.ok \in BOOLEAN
      /\ IF x.ok THEN x.table.n_entries > 0 ELSE NoMemory
  BY <1>3, <1>4, SetInserted
<1>6. o.table = WithSet(t, k, x.table) /\ o.ok = x.ok
  BY <1>2 DEF Outcome
<1>7. /\ GoodStore(WithSet(t, k, x.table), n)
      /\ \A y \in Held(WithSet(t, k, x.table)) :
           y = [key |-> k, ptr_value |-> x.table] \/ (y \in Held(t) /\ y.key # k)
  BY <1>5, WithSetGood
<1> QED
  BY <1>5, <1>6, <1>7

LEMMA data_store_insertGood ==
  ASSUME NEW n \in 0 .. MaxStarts, n > 0, NEW t, GoodStore(t, n), NEW k \in Keys,
         NEW f \in Keys, NEW v \in Values, NEW o \in data_store_insert(t, k, f, v)
  PROVE  /\ GoodStore(o.table, n)
         /\ o.ok \in BOOLEAN
         /\ ~NoMemory /\ HasFields(t) => HasFields(o.table)
<1>1. PICK m \in SetOutcomes(t, k) : o \in IF m.ok THEN FieldOutcomes(m.table, k, f, v) ELSE {m}
  BY DEF data_store_insert
<1>2. /\ GoodStore(m.table, n)
      /\ m.ok \in BOOLEAN
      /\ \A x \in Held(m.table) : x.key # k => x \in Held(t)
      /\ IF m.ok THEN Found(m.table, k) ELSE NoMemory
  BY SetMade
<1>3. CASE ~m.ok
  BY <1>1, <1>2, <1>3
<1>4. CASE m.ok
  <2>1. o \in FieldOutcomes(m.table, k, f, v)
    BY <1>1, <1>4
  <2>2. PICK s : /\ GoodStore(o.table, n)
                 /\ o.ok \in BOOLEAN
                 /\ \A x \in Held(o.table) :
                      x.ptr_value = s \/ (x \in Held(m.table) /\ x.key # k)
                 /\ IF o.ok THEN s.n_entries > 0 ELSE NoMemory
    BY <1>2, <1>4, <2>1, FieldMade
  <2>3. ~NoMemory /\ HasFields(t) => HasFields(o.table)
    BY <1>2, <2>2 DEF HasFields, SetsIn
  <2> QED
    BY <2>2, <2>3
<1> QED
  BY <1>2, <1>3, <1>4

LEMMA StoreDeleted ==
  ASSUME NEW n \in 0 .. MaxStarts, n > 0, NEW t, GoodStore(t, n), NEW k \in Keys,
         NEW mayFail, NEW o \in DeleteOutcomes(t, k, mayFail)
  PROVE  /\ GoodStore(o.table, n)
         /\ o.ok \in BOOLEAN
         /\ Held(o.table) \subseteq Held(t)
         /\ IF o.ok THEN \A x \in Held(o.table) : x.key # k
            ELSE mayFail \/ \A x \in Held(t) : x.key # k
<1>1. Kept(t, Sets, {}) /\ Roomy(t) /\ \A x \in SetsIn(t) : GoodSet(x, n)
  BY StoreOfSets DEF GoodStore
<1>2. k \notin {}
  OBVIOUS
<1>3. /\ Kept(o.table, Sets, {})
      /\ Roomy(o.table)
      /\ o.ok \in BOOLEAN
      /\ IF o.ok THEN DeletedOK(o.table, t, k) /\ Lacks(o.table, k)
         ELSE Held(o.table) = Held(t) /\ (mayFail \/ Lacks(t, k))
  BY <1>1, <1>2, ProperValues, DeleteOutcomesKept
<1>4. Held(o.table) \subseteq Held(t)
  BY <1>3 DEF DeletedOK
<1>5. IF o.ok THEN \A x \in Held(o.table) : x.key # k
      ELSE mayFail \/ \A x \in Held(t) : x.key # k
  BY <1>3 DEF Lacks, Held
<1>6. SetsIn(o.table) \subseteq SetsIn(t)
  BY <1>4 DEF SetsIn
<1>7. GoodStore(o.table, n)
  BY <1>1, <1>3, <1>6, StoreIsGood
<1> QED
  BY <1>3, <1>4, <1>5, <1>7

LEMMA data_store_delete_fieldGood ==
  ASSUME NEW n \in 0 .. MaxStarts, n > 0, NEW t, GoodStore(t, n), NEW k \in Keys,
         NEW f \in Keys, NEW o \in data_store_delete_field(t, k, f)
  PROVE  /\ GoodStore(o.table, n)
         /\ o.ok \in BOOLEAN
         /\ ~NoMemory /\ HasFields(t) => HasFields(o.table)
<1>1. CASE Set(t, k) = NULL
  <2>1. o = Outcome(t, FALSE)
    BY <1>1 DEF data_store_delete_field
  <2> QED
    BY <2>1 DEF Outcome
<1>2. CASE Set(t, k) # NULL
  <2>1. PICK m \in DeleteOutcomes(Set(t, k), f, NoMemory) :
          LET u == WithSet(t, k, m.table)
          IN  o \in IF m.table.n_entries # 0 THEN {Outcome(u, m.ok)}
                    ELSE {Outcome(e.table, m.ok) : e \in DeleteOutcomes(u, k, NoMemory)}
    BY <1>2 DEF data_store_delete_field
  <2> DEFINE u == WithSet(t, k, m.table)
  <2>2. Found(t, k) /\ GoodSet(Set(t, k), n)
    BY <1>2, SetFacts
  <2>3. GoodSet(m.table, n) /\ m.ok \in BOOLEAN
    BY <2>2, SetDeleted
  <2>4. /\ GoodStore(u, n)
        /\ [key |-> k, ptr_value |-> m.table] \in Held(u)
        /\ \A x \in Held(u) :
             x = [key |-> k, ptr_value |-> m.table] \/ (x \in Held(t) /\ x.key # k)
    BY <2>2, <2>3, WithSetGood
  <2>5. m.table.n_entries \in Nat
    <3>1. IsTableOf(m.table, Fields)
      BY <2>3 DEF GoodSet, Kept
    <3> QED
      BY <3>1, TableFacts
  <2> HIDE DEF u
  <2>6. CASE m.table.n_entries # 0
    <3>1. o = Outcome(u, m.ok)
      BY <2>1, <2>6 DEF u
    <3>2. o.table = u /\ o.ok = m.ok
      BY <3>1 DEF Outcome
    <3>3. HasFields(t) => HasFields(u)
      BY <2>4, <2>5, <2>6 DEF HasFields, SetsIn
    <3> QED
      BY <2>3, <2>4, <3>2, <3>3
  <2>7. CASE m.table.n_entries = 0
    <3>1. PICK e \in DeleteOutcomes(u, k, NoMemory) : o = Outcome(e.table, m.ok)
      BY <2>1, <2>7 DEF u
    <3>2. o.table = e.table /\ o.ok = m.ok
      BY <3>1 DEF Outcome
    <3>3. /\ GoodStore(e.table, n)
          /\ e.ok \in BOOLEAN
          /\ Held(e.table) \subseteq Held(u)
          /\ IF e.ok THEN \A x \in Held(e.table) : x.key # k
             ELSE NoMemory \/ \A x \in Held(u) : x.key # k
      BY <2>4, StoreDeleted
    <3>4. ASSUME ~NoMemory PROVE \A x \in Held(e.table) : x \in Held(t)
      <4>1. e.ok
        BY <2>4, <3>3, <3>4
      <4> QED
        BY <2>4, <3>3, <4>1
    <3> QED
      BY <2>3, <3>2, <3>3, <3>4 DEF HasFields, SetsIn
  <2> QED
    BY <2>6, <2>7
<1> QED
  BY <1>1, <1>2

-----------------------------------------------------------------------------
(* Searches that never end.                                                *)

LEMMA EndlessCrowded ==
  ASSUME NEW V, NEW D, NEW t, Kept(t, V, D), Roomy(t), NEW k \in Keys, Endless(t, k)
  PROVE  Crowded(t)
<1> SUFFICES ASSUME ~Crowded(t) PROVE FALSE
  OBVIOUS
<1>1. NoTombstones(t) /\ t.size # 2
  BY DEF Crowded, NoTombstones
<1>2. IsTableOf(t, V) /\ Counted(t)
  BY DEF Kept
<1>3. t.n_entries = t.size
  BY <1>1, <1>2, EndlessIsCrowded
<1>4. t.size \in Nat \ {0} /\ t.size # 1
  BY <1>2, TableFacts, SizesAssumption
<1> QED
  BY <1>1, <1>3, <1>4 DEF Roomy

LEMMA GrownEndless ==
  ASSUME NEW V, Proper(V), NEW D, NEW t, Kept(t, V, D), Roomy(t), Growable(t), NEW k \in Keys,
         Endless(Grown(t), k)
  PROVE  Crowded(t)
<1>1. /\ Kept(Grown(t), V, D)
      /\ Grown(t).n_entries < Grown(t).size
      /\ Grown(t) = t \/ NoTombstones(Grown(t))
  BY GrownKept
<1>2. IsTableOf(Grown(t), V) /\ Counted(Grown(t))
  BY <1>1 DEF Kept
<1>3. Grown(t).n_entries \in Nat /\ Grown(t).size \in Nat
  BY <1>2, TableFacts
<1>4. ~NoTombstones(Grown(t))
  BY <1>1, <1>2, <1>3, EndlessIsCrowded
<1> QED
  BY <1>1, <1>4, EndlessCrowded

LEMMA ShrunkEndless ==
  ASSUME NEW V, Proper(V), NEW D, NEW t, Kept(t, V, D), Roomy(t), NEW k \in Keys,
         Endless(Shrunk(t), k)
  PROVE  Crowded(t)
<1>1. /\ Kept(Shrunk(t), V, D)
      /\ \/ Shrunk(t) = t
         \/ NoTombstones(Shrunk(t)) /\ Shrunk(t).n_entries < Shrunk(t).size
  BY ShrunkKept
<1>2. IsTableOf(Shrunk(t), V) /\ Counted(Shrunk(t))
  BY <1>1 DEF Kept
<1>3. Shrunk(t).n_entries \in Nat /\ Shrunk(t).size \in Nat
  BY <1>2, TableFacts
<1>4. NoTombstones(Shrunk(t)) => Shrunk(t).n_entries = Shrunk(t).size
  BY <1>2, EndlessIsCrowded
<1>5. Shrunk(t) = t
  BY <1>1, <1>3, <1>4
<1> QED
  BY <1>5, EndlessCrowded

LEMMA HangsExplained ==
  ASSUME NEW n \in 0 .. MaxStarts, n > 0, GoodStore(store, n), NEW k \in Keys, NEW f \in Keys,
         CommandHangs(k, f)
  PROVE  Crowded(store) \/ \E s \in SetsIn(store) : Crowded(s)
<1>1. Kept(store, Sets, {}) /\ Roomy(store)
  BY StoreOfSets DEF GoodStore
<1>2. ASSUME NEW x \in Keys, Endless(store, x) PROVE Crowded(store)
  BY <1>1, <1>2, EndlessCrowded
<1>3. ASSUME Endless(Shrunk(store), k) PROVE Crowded(store)
  BY <1>1, <1>3, ProperValues, ShrunkEndless
<1>4. ASSUME Set(store, k) # NULL
      PROVE  /\ Set(store, k) \in SetsIn(store)
             /\ Kept(Set(store, k), Fields, {Empty}) /\ Roomy(Set(store, k))
             /\ Growable(Set(store, k))
  <2>1. Set(store, k) \in SetsIn(store) /\ GoodSet(Set(store, k), n)
    BY <1>4, SetFacts
  <2> QED
    BY <2>1, NotTooMany DEF GoodSet
<1>5. ASSUME Set(store, k) # NULL, Endless(Set(store, k), f) PROVE Crowded(Set(store, k))
  BY <1>4, <1>5, EndlessCrowded
<1>6. ASSUME Set(store, k) # NULL, Endless(Grown(Set(store, k)), f) PROVE Crowded(Set(store, k))
  BY <1>4, <1>6, ProperValues, GrownEndless
<1>7. ASSUME ~FieldSearchEnds(store, k, f)
      PROVE  Endless(store, k) \/ (Set(store, k) # NULL /\ Endless(Set(store, k), f))
  BY <1>7 DEF FieldSearchEnds
<1>8. Zeros \in Keys
  BY NamesAssumption
<1>9. \/ Endless(store, k) \/ Endless(store, Zeros) \/ Endless(Shrunk(store), k)
      \/ Set(store, k) # NULL /\ Endless(Set(store, k), f)
      \/ Set(store, k) # NULL /\ Endless(Grown(Set(store, k)), f)
  BY <1>7 DEF CommandHangs
<1> QED
  BY <1>2, <1>3, <1>4, <1>5, <1>6, <1>8, <1>9

-----------------------------------------------------------------------------
(* Loading.                                                                *)

LEMMA TableOfSize ==
  ASSUME NEW size \in Primes \cup {0}
  PROVE  \E p \in Primes : NewTable(size) = EmptyTable(p) /\ (size \in Primes => p = size)
<1>1. CASE size \in Primes
  <2>1. IsNextPrime(size, size)
    BY <1>1, PrimesAssumption DEF IsNextPrime
  <2> QED
    BY <1>1, <2>1, NextPrimeIs DEF NewTable
<1>2. CASE size \notin Primes
  <2>1. size = 0
    BY <1>2
  <2>2. PICK q \in Primes : q >= 0
    BY SizesAssumption, PrimesAssumption
  <2>3. PICK p \in Primes : IsNextPrime(0, p)
    BY <2>2, NextPrimeExists
  <2> QED
    BY <1>2, <2>1, <2>3, NextPrimeIs DEF NewTable
<1> QED
  BY <1>1, <1>2

(* What s is after the first j fields of the set at q have been read. *)
FilledTo(f, q, s, j) ==
  /\ Kept(s, Fields, {Empty})
  /\ s.n_entries = j
  /\ At(f, q + 2, 0) \in Primes => s.size = At(f, q + 2, 0)
  /\ Held(s) = {FieldAt(f, q, i) : i \in 0 .. j - 1}

(* The fields of a set, read one after the other. *)
LEMMA SetFilled ==
  ASSUME NEW f, NEW q, NEW most, SetAt(f, q, most), NEW j \in 0 .. At(f, q + 3, 0)
  PROVE  FilledTo(f, q, Filling(f, q + 2)[j], j)
<1> DEFINE size == At(f, q + 2, 0)
           count == At(f, q + 3, 0)
           F == Filling(f, q + 2)
           P(m) == /\ Kept(F[m], Fields, {Empty})
                   /\ F[m].n_entries = m
                   /\ size \in Primes => F[m].size = size
                   /\ Held(F[m]) = {FieldAt(f, q, i) : i \in 0 .. m - 1}
           T == {m \in 0 .. count : ~P(m)}
<1>1. /\ q \in Nat /\ count \in Nat
      /\ size \in Primes \/ (size = 0 /\ count = 0)
      /\ count * 100 < 61 * size + 100
      /\ \A i \in 0 .. count - 1 : FieldAt(f, q, i) \in EntriesOf(Fields)
      /\ \A i, h \in 0 .. count - 1 :
           FieldAt(f, q, i).key = FieldAt(f, q, h).key /\ FieldAt(f, q, i).key # Empty => i = h
  BY DEF SetAt
<1>2. PICK p \in Primes : NewTable(size) = EmptyTable(p) /\ (size \in Primes => p = size)
  BY <1>1, TableOfSize
<1>3. /\ F[0] = EmptyTable(p)
      /\ \A m \in 0 .. count :
           m # 0 => F[m] = InsertedNewEntry(F[m - 1], FieldAt(f, q, m - 1))
  <2>1. (q + 2) + 1 = q + 3
    BY <1>1
  <2>2. At(f, (q + 2) + 1, 0) = count
    BY <2>1
  <2>3. F = [m \in 0 .. count |->
               IF m = 0 THEN NewTable(size)
               ELSE InsertedNewEntry(F[m - 1], read_hashtable_entry(f, (q + 2) + 2 + 4 * (m - 1)))]
    <3>1. At(f, (q + 2) + 1, 0) \in Nat
      BY <1>1, <2>2, Zenon
    <3>2. Filling(f, q + 2) =
            [m \in 0 .. At(f, (q + 2) + 1, 0) |->
               IF m = 0 THEN NewTable(At(f, q + 2, 0))
               ELSE InsertedNewEntry(Filling(f, q + 2)[m - 1],
                                     read_hashtable_entry(f, (q + 2) + 2 + 4 * (m - 1)))]
      BY <3>1, FillingDefined
    <3> DEFINE c == At(f, (q + 2) + 1, 0)
    <3>3. c = count
      BY <2>2, Zenon
    <3> HIDE DEF c, count, F, size
    <3> QED
      BY <3>2, <3>3, Zenon DEF c, F, size
  <2> HIDE DEF F, count, size
  <2>4. 0 \in 0 .. count
    BY <1>1
  <2>5. F[0] = EmptyTable(p)
    BY <1>2, <2>3, <2>4
  <2>6. ASSUME NEW m \in 0 .. count, m # 0
        PROVE  F[m] = InsertedNewEntry(F[m - 1], FieldAt(f, q, m - 1))
    <3>1. (q + 2) + 2 + 4 * (m - 1) = q + 4 + 4 * (m - 1)
      BY <1>1, <2>6
    <3>2. F[m] = InsertedNewEntry(F[m - 1], read_hashtable_entry(f, (q + 2) + 2 + 4 * (m - 1)))
      BY <2>3, <2>6, Zenon
    <3> QED
      BY <3>1, <3>2 DEF FieldAt
  <2> QED
    BY <2>5, <2>6
<1> HIDE DEF F, count, size
<1>4. P(0)
  <2>1. /\ Kept(EmptyTable(p), Fields, {Empty})
        /\ LiveSlots(EmptyTable(p)) = {}
        /\ EmptyTable(p).size = p
        /\ EmptyTable(p).n_entries = 0
    BY EmptyKept
  <2>2. Held(EmptyTable(p)) = {}
    BY <2>1 DEF Held
  <2>3. {FieldAt(f, q, i) : i \in 0 .. 0 - 1} = {}
    OBVIOUS
  <2> QED
    BY <1>2, <1>3, <2>1, <2>2, <2>3
<1>5. ASSUME NEW m \in 0 .. count, m < count, P(m)
      PROVE  P(m + 1)
  <2> DEFINE e == FieldAt(f, q, m)
             t == F[m]
  <2>1. m + 1 \in 0 .. count /\ m + 1 # 0 /\ (m + 1) - 1 = m /\ m \in 0 .. count - 1 /\ m \in Nat
    BY <1>1, <1>5
  <2>2. F[m + 1] = InsertedNewEntry(t, e)
    BY <1>3, <2>1
  <2>3. e \in EntriesOf(Fields)
    BY <1>1, <2>1
  <2>4. size \in Primes /\ size \in Nat
    <3>1. count # 0
      BY <1>1, <1>5
    <3>2. size \in Primes
      BY <1>1, <3>1
    <3> QED
      BY <3>2, PrimesAssumption
  <2>5. t.n_entries < t.size
    <3>1. t.n_entries = m /\ t.size = size
      BY <1>5, <2>4
    <3> QED
      BY <1>1, <1>5, <2>1, <2>4, <3>1
  <2>6. Lacks(t, e.key) \/ e.key \in {Empty}
    <3> SUFFICES ASSUME NEW x \in LiveSlots(t), t.entries[x].key = e.key, e.key # Empty
                 PROVE  FALSE
      BY DEF Lacks
    <3>1. t.entries[x] \in Held(t)
      BY DEF Held
    <3>2. PICK i \in 0 .. m - 1 : t.entries[x] = FieldAt(f, q, i)
      BY <1>5, <3>1
    <3>3. i \in 0 .. count - 1 /\ i # m
      BY <1>1, <2>1
    <3> QED
      BY <1>1, <2>1, <3>2, <3>3
  <2>7. IsTableOf(t, Fields)
    BY <1>5 DEF Kept
  <2> HIDE DEF e, t
  <2>8. Kept(t, Fields, {Empty})
    BY <1>5 DEF t
  <2>9. Kept(F[m + 1], Fields, {Empty}) /\ Placed(F[m + 1], t, e)
    BY <2>2, <2>3, <2>5, <2>6, <2>8, ProperValues, InsertedNewEntryKept
  <2>10. /\ Held(F[m + 1]) = Held(t) \cup {e}
         /\ F[m + 1].size = t.size
         /\ F[m + 1].n_entries = t.n_entries + 1
    BY <2>3, <2>7, <2>9, ProperValues, PlacedHeld
  <2>11. Held(F[m + 1]) = {FieldAt(f, q, i) : i \in 0 .. (m + 1) - 1}
    <3>1. 0 .. (m + 1) - 1 = (0 .. m - 1) \cup {m}
      BY <2>1
    <3>2. Held(t) = {FieldAt(f, q, i) : i \in 0 .. m - 1}
      BY <1>5 DEF t
    <3> QED
      BY <2>10, <3>1, <3>2, Zenon DEF e
  <2>12. F[m + 1].n_entries = m + 1 /\ (size \in Primes => F[m + 1].size = size)
    BY <1>5, <2>10 DEF t
  <2> QED
    BY <2>9, <2>11, <2>12
<1>6. T = {}
  <2> SUFFICES ASSUME T # {} PROVE FALSE
    OBVIOUS
  <2>1. T \subseteq Nat
    OBVIOUS
  <2>2. PICK m \in T : \A k \in T : m <= k
    BY <2>1, LeastNatural
  <2>3. m \in 0 .. count /\ ~P(m)
    OBVIOUS
  <2> HIDE DEF P
  <2>4. m # 0
    BY <1>4, <2>3
  <2>5. m - 1 \in 0 .. count /\ m - 1 < count /\ (m - 1) + 1 = m
    BY <1>1, <2>3, <2>4
  <2>6. P(m - 1)
    BY <2>2, <2>3, <2>5
  <2> QED
    BY <1>5, <2>3, <2>5, <2>6
<1>7. P(j)
  <2>1. j \in 0 .. count
    BY DEF count
  <2> HIDE DEF P
  <2> QED
    BY <1>6, <2>1
<1> QED
  BY <1>7 DEF F, size, FilledTo

LEMMA SetRead ==
  ASSUME NEW f, NEW q, NEW n \in Nat, n > 0, SetAt(f, q, Cap(n - 1))
  PROVE  /\ GoodSet(read_hashtable(f, q + 2), n)
         /\ read_hashtable(f, q + 2).n_entries = At(f, q + 3, 0)
<1> DEFINE count == At(f, q + 3, 0)
           size == At(f, q + 2, 0)
           s == Filling(f, q + 2)[count]
<1>1. /\ q \in Nat /\ count \in Nat /\ count <= Cap(n - 1)
      /\ size \in Primes \/ (size = 0 /\ count = 0)
      /\ count * 100 < 61 * size + 100
  BY DEF SetAt
<1>2. read_hashtable(f, q + 2) = s
  <2>1. (q + 2) + 1 = q + 3
    BY <1>1
  <2> QED
    BY <2>1 DEF read_hashtable
<1>3. count \in 0 .. At(f, q + 3, 0)
  BY <1>1
<1>4. /\ Kept(s, Fields, {Empty}) /\ s.n_entries = count
      /\ size \in Primes => s.size = size
  <2>1. FilledTo(f, q, s, count)
    BY <1>3, SetFilled, Zenon
  <2> HIDE DEF s, count
  <2> QED
    BY <2>1 DEF FilledTo
<1> HIDE DEF s, count, size
<1>5. IsTableOf(s, Fields)
  BY <1>4 DEF Kept
<1>6. s.size \in Nat \ {0} /\ Cardinality(KeysIn(s)) \in Nat
  BY <1>5, TableFacts, KeysInFinite
<1>7. Roomy(s)
  BY <1>1, <1>4, <1>6 DEF Roomy
<1>8. Excess(s) <= Cap(n - 1)
  <2>1. n - 1 \in Nat
    OBVIOUS
  <2>2. Cap(n - 1) \in Nat
    BY <2>1, CapFacts
  <2> QED
    BY <1>1, <1>4, <1>6, <2>2 DEF Excess
<1> QED
  BY <1>2, <1>4, <1>7, <1>8 DEF GoodSet, count

(* The sets of an object that can be loaded, read one after the other. *)
LEMMA StoreLoading ==
  ASSUME NEW f, NEW n \in 0 .. MaxStarts, n > 0, Readable(f, Cap(n - 1)),
         NEW j \in 0 .. At(f, 2, 0)
  PROVE  /\ GoodStore(Loading(f)[j], n)
         /\ AllFilled(f) => HasFields(Loading(f)[j])
<1> DEFINE count == At(f, 2, 0)
           L == Loading(f)
           q(m) == Positions(f)[m]
           P(m) == /\ GoodStore(L[m], n)
                   /\ NoTombstones(L[m])
                   /\ AllFilled(f) => HasFields(L[m])
           T == {m \in 0 .. count : ~P(m)}
<1>1. /\ At(f, 1, 0) \in Primes \cup {0}
      /\ count \in Nat
      /\ \A m \in 0 .. count - 1 : SetAt(f, q(m), Cap(n - 1))
      /\ n \in Nat
  BY SizesAssumption DEF Readable
<1>2. PICK p \in Primes : NewTable(At(f, 1, 0)) = EmptyTable(p)
  BY <1>1, TableOfSize
<1>3. /\ L[0] = EmptyTable(p)
      /\ \A m \in 0 .. count : m # 0 => L[m] = ReadAt(f, L[m - 1], q(m - 1))
  <2>1. L = [m \in 0 .. count |-> IF m = 0 THEN NewTable(At(f, 1, 0))
                                  ELSE ReadAt(f, L[m - 1], q(m - 1))]
    BY <1>1, LoadingDefined
  <2> HIDE DEF L, q, count
  <2>2. 0 \in 0 .. count
    BY <1>1
  <2> QED
    BY <1>2, <2>1, <2>2
<1> HIDE DEF L, q, count
<1>4. P(0)
  <2> DEFINE t == EmptyTable(p)
  <2>1. Kept(t, Sets, {}) /\ LiveSlots(t) = {} /\ t.size = p /\ t.n_entries = 0 /\ NoTombstones(t)
    BY EmptyKept
  <2> HIDE DEF t
  <2>2. SetsIn(t) = {}
    BY <2>1 DEF SetsIn, Held
  <2>3. p \in Nat
    BY PrimesAssumption
  <2>4. Roomy(t)
    BY <2>1, <2>3 DEF Roomy
  <2>5. GoodStore(t, n) /\ HasFields(t)
    BY <2>1, <2>2, <2>4, StoreIsGood DEF HasFields
  <2> QED
    BY <1>3, <2>1, <2>5 DEF t
<1>5. ASSUME NEW m \in 0 .. count, m < count, P(m)
      PROVE  P(m + 1)
  <2> DEFINE t == L[m]
             k == read_string(f, q(m))
             s == read_hashtable(f, q(m) + 2)
             o == CHOOSE x \in InsertOutcomes(t, k, s, FALSE) : TRUE
  <2>1. m + 1 \in 0 .. count /\ m + 1 # 0 /\ (m + 1) - 1 = m /\ m \in 0 .. count - 1
    BY <1>1, <1>5
  <2>2. L[m + 1] = o.table
    <3>1. L[m + 1] = ReadAt(f, L[(m + 1) - 1], q((m + 1) - 1))
      BY <1>3, <2>1, Zenon
    <3> QED
      BY <2>1, <3>1 DEF ReadAt
  <2>3. SetAt(f, q(m), Cap(n - 1))
    BY <1>1, <2>1
  <2>4. k \in Keys
    BY <2>3 DEF SetAt
  <2>5. GoodSet(s, n) /\ s.n_entries = At(f, q(m) + 3, 0)
    BY <1>1, <2>3, SetRead
  <2>6. AllFilled(f) => s.n_entries > 0
    <3>1. AllFilled(f) => At(f, q(m) + 3, 0) > 0
      BY <2>1 DEF AllFilled, q, count
    <3> QED
      BY <2>5, <3>1
  <2>7. GoodStore(t, n) /\ NoTombstones(t) /\ (AllFilled(f) => HasFields(t))
    BY <1>5
  <2> HIDE DEF t, k, s
  <2>8. o \in InsertOutcomes(t, k, s, FALSE)
    <3>1. Growable(t) /\ Kept(t, Sets, {})
      BY <2>7, StoreGrowable, StoreOfSets
    <3>2. InsertOutcomes(t, k, s, FALSE) # {}
      BY <2>4, <2>7, <3>1, ProperValues, InsertReturns
    <3> QED
      BY <3>2
  <2> HIDE DEF o
  <2>9. /\ GoodStore(o.table, n)
        /\ NoTombstones(o.table)
        /\ SetsIn(o.table) \subseteq SetsIn(t) \cup {s}
    BY <2>4, <2>5, <2>7, <2>8, StoreInserted
  <2>10. AllFilled(f) => HasFields(o.table)
    BY <2>6, <2>7, <2>9 DEF HasFields
  <2> QED
    BY <2>2, <2>9, <2>10
<1>6. T = {}
  <2> SUFFICES ASSUME T # {} PROVE FALSE
    OBVIOUS
  <2>1. T \subseteq Nat
    OBVIOUS
  <2>2. PICK m \in T : \A x \in T : m <= x
    BY <2>1, LeastNatural
  <2>3. m \in 0 .. count /\ ~P(m)
    OBVIOUS
  <2> HIDE DEF P
  <2>4. m # 0
    BY <1>4, <2>3
  <2>5. m - 1 \in 0 .. count /\ m - 1 < count /\ (m - 1) + 1 = m
    BY <1>1, <2>3, <2>4
  <2>6. P(m - 1)
    BY <2>2, <2>3, <2>5
  <2> QED
    BY <1>5, <2>3, <2>5, <2>6
<1>7. P(j)
  <2>1. j \in 0 .. count
    BY DEF count
  <2> HIDE DEF P
  <2> QED
    BY <1>6, <2>1
<1> QED
  BY <1>7 DEF L

(* load_data_store, when the instance is created for the n-th time. *)
LEMMA StoreLoaded ==
  ASSUME NEW f, NEW n \in 0 .. MaxStarts, n > 0, f # NULL => Readable(f, Cap(n - 1))
  PROVE  /\ GoodStore(Loaded(f), n)
         /\ (f # NULL => AllFilled(f)) => HasFields(Loaded(f))
<1>1. CASE f = NULL
  <2>1. n \in Nat
    BY SizesAssumption
  <2>2. Loaded(f) = NewTable(INITIAL_SIZE)
    BY <1>1 DEF Loaded
  <2> QED
    BY <2>1, <2>2, NewSetGood DEF HasFields
<1>2. CASE f # NULL
  <2>1. At(f, 2, 0) \in 0 .. At(f, 2, 0)
    BY <1>2 DEF Readable
  <2>2. Loaded(f) = Loading(f)[At(f, 2, 0)]
    BY <1>2 DEF Loaded
  <2> QED
    BY <1>2, <2>1, <2>2, StoreLoading
<1> QED
  BY <1>1, <1>2

-----------------------------------------------------------------------------
(* Saving: what is written, and where.                                     *)

(* C joins the sequences of elements of S, first n at a time. *)
Joins(C, seqs, S) ==
  /\ Len(seqs) \in Nat
  /\ \A j \in 1 .. Len(seqs) : seqs[j] \in Seq(S)
  /\ C = Concatenated(seqs)

(* c is b after a. *)
Follows(c, a, b) == c = a \o b

(* c begins with a. *)
Begins(c, a) ==
  /\ Len(a) \in Nat /\ Len(c) \in Nat /\ Len(a) <= Len(c)
  /\ \A p \in 1 .. Len(a) : c[p] = a[p]

LEMMA FollowsFacts ==
  ASSUME NEW S, NEW a \in Seq(S), NEW b \in Seq(S), NEW c, Follows(c, a, b)
  PROVE  /\ c \in Seq(S) /\ Begins(c, a)
         /\ Len(a) \in Nat /\ Len(b) \in Nat
         /\ Len(c) = Len(a) + Len(b)
         /\ \A p \in 1 .. Len(b) : c[Len(a) + p] = b[p]
<1>1. /\ Len(a) \in Nat /\ Len(b) \in Nat
      /\ c \in Seq(S) /\ Len(c) = Len(a) + Len(b)
      /\ \A p \in 1 .. Len(a) + Len(b) : c[p] = IF p <= Len(a) THEN a[p] ELSE b[p - Len(a)]
  BY ConcatProperties, LenProperties DEF Follows
<1>2. \A p \in 1 .. Len(b) : c[Len(a) + p] = b[p]
  <2> SUFFICES ASSUME NEW p \in 1 .. Len(b) PROVE c[Len(a) + p] = b[p]
    OBVIOUS
  <2>1. Len(a) + p \in 1 .. Len(a) + Len(b) /\ ~(Len(a) + p <= Len(a))
        /\ (Len(a) + p) - Len(a) = p
    BY <1>1
  <2> QED
    BY <1>1, <2>1
<1>3. Begins(c, a)
  BY <1>1 DEF Begins
<1> QED
  BY <1>1, <1>2, <1>3

LEMMA BeginsTransitive ==
  ASSUME NEW a, NEW b, NEW c, Begins(b, a), Begins(c, b)
  PROVE  Begins(c, a)
<1>1. /\ Len(a) \in Nat /\ Len(b) \in Nat /\ Len(c) \in Nat
      /\ Len(a) <= Len(b) /\ Len(b) <= Len(c)
      /\ \A p \in 1 .. Len(a) : b[p] = a[p]
      /\ \A p \in 1 .. Len(b) : c[p] = b[p]
  BY DEF Begins
<1>2. \A p \in 1 .. Len(a) : p \in 1 .. Len(b)
  BY <1>1
<1>3. \A p \in 1 .. Len(a) : c[p] = a[p]
  BY <1>1, <1>2, Zenon
<1> QED
  BY <1>1, <1>3 DEF Begins

LEMMA BeginsSelf ==
  ASSUME NEW S, NEW a \in Seq(S)
  PROVE  Begins(a, a)
BY LenProperties DEF Begins

LEMMA ConcatenatedNext ==
  ASSUME NEW S, NEW seqs, NEW C, Joins(C, seqs, S)
  PROVE  /\ \A n \in 0 .. Len(seqs) : C[n] \in Seq(S)
         /\ C[0] = <<>>
         /\ \A n \in 0 .. Len(seqs) - 1 :
              seqs[n + 1] \in Seq(S) /\ Follows(C[n + 1], C[n], seqs[n + 1])
<1> DEFINE top == Len(seqs)
           P(m) == C[m] \in Seq(S)
           T == {m \in 0 .. top : ~P(m)}
<1>1. /\ top \in Nat
      /\ \A j \in 1 .. top : seqs[j] \in Seq(S)
      /\ \A m \in 0 .. top : C[m] = IF m = 0 THEN <<>> ELSE C[m - 1] \o seqs[m]
  BY ConcatenatedDefined DEF Joins
<1> HIDE DEF top
<1>2. C[0] = <<>>
  <2>1. 0 \in 0 .. top
    BY <1>1
  <2> QED
    BY <1>1, <2>1
<1>3. ASSUME NEW m \in 0 .. top, m # 0, P(m - 1) PROVE P(m)
  <2>1. C[m] = C[m - 1] \o seqs[m]
    BY <1>1, <1>3
  <2>2. m \in 1 .. top
    BY <1>1, <1>3
  <2>3. seqs[m] \in Seq(S)
    BY <1>1, <2>2
  <2> QED
    BY <1>3, <2>1, <2>3, ConcatProperties
<1>4. P(0)
  BY <1>2
<1>5. T = {}
  <2> SUFFICES ASSUME T # {} PROVE FALSE
    OBVIOUS
  <2>1. T \subseteq Nat
    OBVIOUS
  <2>2. PICK m \in T : \A x \in T : m <= x
    BY <2>1, LeastNatural
  <2>3. m \in 0 .. top /\ ~P(m)
    OBVIOUS
  <2> HIDE DEF P
  <2>4. m # 0
    BY <1>4, <2>3
  <2>5. m - 1 \in 0 .. top /\ ~(m <= m - 1)
    BY <1>1, <2>3, <2>4
  <2>6. P(m - 1)
    BY <2>2, <2>3, <2>5
  <2> QED
    BY <1>3, <2>3, <2>4, <2>6
<1>6. \A n \in 0 .. top : C[n] \in Seq(S)
  BY <1>5
<1>7. ASSUME NEW n \in 0 .. top - 1
      PROVE  seqs[n + 1] \in Seq(S) /\ Follows(C[n + 1], C[n], seqs[n + 1])
  <2>1. n + 1 \in 0 .. top /\ n + 1 \in 1 .. top /\ n + 1 # 0 /\ (n + 1) - 1 = n
    BY <1>1
  <2>2. C[n + 1] = C[(n + 1) - 1] \o seqs[n + 1]
    BY <1>1, <2>1, Zenon
  <2>3. C[n + 1] = C[n] \o seqs[n + 1]
    BY <2>1, <2>2, Zenon
  <2> QED
    BY <1>1, <2>1, <2>3, Zenon DEF Follows
<1> QED
  BY <1>2, <1>6, <1>7 DEF top

(* What is written for the first slots comes first. *)
LEMMA ConcatenatedPrefix ==
  ASSUME NEW S, NEW seqs, NEW C, Joins(C, seqs, S), NEW b \in 0 .. Len(seqs), NEW a \in 0 .. b
  PROVE  Begins(C[b], C[a])
<1> DEFINE top == Len(seqs)
           P(m) == Begins(C[m], C[a])
           T == {m \in a .. top : ~P(m)}
<1>1. /\ top \in Nat /\ \A n \in 0 .. top : C[n] \in Seq(S)
      /\ \A n \in 0 .. top - 1 :
           seqs[n + 1] \in Seq(S) /\ Follows(C[n + 1], C[n], seqs[n + 1])
  BY ConcatenatedNext DEF Joins
<1> HIDE DEF top
<1>2. b \in a .. top /\ a \in 0 .. top
  BY <1>1 DEF top
<1>3. P(a)
  BY <1>1, <1>2, BeginsSelf
<1>4. ASSUME NEW m \in a .. top - 1, P(m) PROVE P(m + 1)
  <2>1. m \in 0 .. top - 1 /\ m \in 0 .. top
    BY <1>1, <1>2
  <2>2. Begins(C[m + 1], C[m])
    BY <1>1, <2>1, FollowsFacts, Zenon
  <2> QED
    BY <1>4, <2>2, BeginsTransitive, Zenon
<1>5. T = {}
  <2> SUFFICES ASSUME T # {} PROVE FALSE
    OBVIOUS
  <2>1. T \subseteq Nat
    BY <1>1, <1>2
  <2>2. PICK m \in T : \A x \in T : m <= x
    BY <2>1, LeastNatural
  <2>3. m \in a .. top /\ ~P(m)
    OBVIOUS
  <2> HIDE DEF P
  <2>4. m # a
    BY <1>3, <2>3
  <2>5. m - 1 \in a .. top - 1 /\ m - 1 \in a .. top
        /\ ~(m <= m - 1) /\ (m - 1) + 1 = m
    BY <1>1, <1>2, <2>3, <2>4
  <2>6. P(m - 1)
    BY <2>2, <2>5
  <2> QED
    BY <1>4, <2>3, <2>5, <2>6
<1> QED
  <2> HIDE DEF P
  <2>1. P(b)
    BY <1>2, <1>5
  <2> QED
    BY <2>1 DEF P

LEMMA WritesFacts ==
  ASSUME NEW seq \in Seq(Datum \cup {NULL}), NEW n, n \in 1 .. Len(seq) => seq[n] # NULL
  PROVE  /\ Writes(seq, n) \in Seq(Write)
         /\ Len(Writes(seq, n)) = Len(seq)
         /\ \A p \in 1 .. Len(seq) : Writes(seq, n)[p].data = seq[p]
<1>1. Len(seq) \in Nat /\ DOMAIN seq = 1 .. Len(seq)
      /\ \A p \in 1 .. Len(seq) : seq[p] \in Datum \cup {NULL}
  OBVIOUS
<1>2. Writes(seq, n) = [p \in 1 .. Len(seq) |-> [data |-> seq[p], iterator |-> p = n]]
  BY <1>1 DEF Writes
<1>3. \A p \in 1 .. Len(seq) : [data |-> seq[p], iterator |-> p = n] \in Write
  BY <1>1 DEF Write
<1>4. Writes(seq, n) \in [1 .. Len(seq) -> Write]
  BY <1>2, <1>3
<1>5. \A p \in 1 .. Len(seq) : Writes(seq, n)[p].data = seq[p]
  BY <1>2
<1> DEFINE w == Writes(seq, n)
           k == Len(seq)
<1>6. k \in Nat /\ w \in [1 .. k -> Write]
  BY <1>1, <1>4
<1> HIDE DEF w, k
<1>7. w \in Seq(Write) /\ Len(w) = k
  BY <1>6
<1> QED
  BY <1>5, <1>7 DEF w, k

(* A field takes four writes unless one of them reads a null pointer. *)
LEMMA FieldWritesFacts ==
  ASSUME NEW e \in EntriesOf(Fields) \cup {DELETED}
  PROVE  /\ FieldWrites(e) \in Seq(Write)
         /\ Len(FieldWrites(e)) \in 1 .. 4
         /\ e = DELETED => FieldWrites(e)[1].data = NULL
         /\ e # DELETED /\ e.ptr_value = NULL =>
              Len(FieldWrites(e)) = 3 /\ FieldWrites(e)[3].data = NULL
         /\ e # DELETED /\ e.ptr_value # NULL =>
              /\ Len(FieldWrites(e)) = 4
              /\ FieldWrites(e)[4].data = e.ptr_value
              /\ e.ptr_value \in Values
         /\ e # DELETED => FieldWrites(e)[2].data = e.key /\ e.key \in Keys
<1>1. CASE e = DELETED
  <2> DEFINE x == <<NULL>>
  <2>1. x \in Seq(Datum \cup {NULL}) /\ Len(x) = 1 /\ x[1] = NULL /\ 1 \in 1 .. 1
    OBVIOUS
  <2>2. FieldWrites(e) = Writes(x, 0)
    BY <1>1 DEF FieldWrites
  <2> HIDE DEF x
  <2> QED
    BY <1>1, <2>1, <2>2, WritesFacts
<1>2. CASE e # DELETED
  <2>1. e.key \in Keys /\ e.ptr_value \in Values \cup {NULL}
    BY <1>2 DEF EntriesOf, Fields
  <2>2. LENGTH \in Datum \cup {NULL} /\ e.key \in Datum \cup {NULL}
        /\ e.ptr_value \in Datum \cup {NULL}
    BY <2>1 DEF Datum
  <2>3. CASE e.ptr_value = NULL
    <3> DEFINE x == <<LENGTH, e.key, NULL>>
    <3>1. /\ x \in Seq(Datum \cup {NULL}) /\ Len(x) = 3 /\ x[2] = e.key /\ x[3] = NULL
          /\ 2 \in 1 .. 3 /\ 3 \in 1 .. 3
      BY <2>2
    <3>2. FieldWrites(e) = Writes(x, 0)
      BY <1>2, <2>3 DEF FieldWrites
    <3> HIDE DEF x
    <3>3. /\ Writes(x, 0) \in Seq(Write) /\ Len(Writes(x, 0)) = 3
          /\ Writes(x, 0)[2].data = e.key /\ Writes(x, 0)[3].data = NULL
      BY <3>1, WritesFacts
    <3> QED
      BY <1>2, <2>1, <2>3, <3>2, <3>3
  <2>4. CASE e.ptr_value # NULL
    <3> DEFINE x == <<LENGTH, e.key, LENGTH, e.ptr_value>>
    <3>1. /\ x \in Seq(Datum \cup {NULL}) /\ Len(x) = 4 /\ x[2] = e.key /\ x[4] = e.ptr_value
          /\ 2 \in 1 .. 4 /\ 4 \in 1 .. 4
      BY <2>2
    <3>2. FieldWrites(e) = Writes(x, 0)
      BY <1>2, <2>4 DEF FieldWrites
    <3> HIDE DEF x
    <3>3. /\ Writes(x, 0) \in Seq(Write) /\ Len(Writes(x, 0)) = 4
          /\ Writes(x, 0)[2].data = e.key /\ Writes(x, 0)[4].data = e.ptr_value
      BY <3>1, WritesFacts
    <3> QED
      BY <1>2, <2>1, <2>4, <3>2, <3>3
  <2> QED
    BY <2>3, <2>4
<1> QED
  BY <1>1, <1>2

(* What is written for each slot of a set. *)
SetSlots(s) ==
  [j \in 1 .. s.size |-> IF Iterated(s, j - 1) THEN FieldWrites(s.entries[j - 1]) ELSE <<>>]

LEMMA SetJoins ==
  ASSUME NEW s, IsTableOf(s, Fields)
  PROVE  /\ Len(SetSlots(s)) = s.size
         /\ Joins(Concatenated(SetSlots(s)), SetSlots(s), Write)
<1>1. s.size \in Nat /\ s.entries \in [0 .. s.size - 1 -> EntriesOf(Fields) \cup {NULL, DELETED}]
  BY TableFacts DEF IsTableOf
<1>2. ASSUME NEW j \in 1 .. s.size PROVE SetSlots(s)[j] \in Seq(Write)
  <2>1. SetSlots(s)[j] = IF Iterated(s, j - 1) THEN FieldWrites(s.entries[j - 1]) ELSE <<>>
    BY DEF SetSlots
  <2>2. CASE Iterated(s, j - 1)
    <3>1. j - 1 \in 0 .. s.size - 1
      BY <1>1
    <3>2. s.entries[j - 1] \in EntriesOf(Fields) \cup {DELETED}
      BY <1>1, <2>2, <3>1 DEF Iterated
    <3> QED
      BY <2>1, <2>2, <3>2, FieldWritesFacts
  <2>3. CASE ~Iterated(s, j - 1)
    BY <2>1, <2>3
  <2> QED
    BY <2>2, <2>3
<1>3. SetSlots(s) \in [1 .. s.size -> Seq(Write)]
  BY <1>2 DEF SetSlots
<1>4. Len(SetSlots(s)) = s.size
  BY <1>1, <1>3
<1> QED
  BY <1>1, <1>2, <1>4 DEF Joins

(* None of the first n writes reads a null pointer. *)
CleanTo(w, n) == \A i \in 1 .. n : w[i].data # NULL

LEMMA CleanPrefix ==
  ASSUME NEW c, NEW a, Begins(c, a), NEW n, n \in 0 .. Len(a)
  PROVE  CleanTo(c, n) <=> CleanTo(a, n)
<1>1. Len(a) \in Nat /\ \A p \in 1 .. Len(a) : c[p] = a[p]
  BY DEF Begins
<1>2. \A i \in 1 .. n : i \in 1 .. Len(a)
  BY <1>1
<1> QED
  BY <1>1, <1>2 DEF CleanTo

(* The write p of a set's fields belongs to the field at slot j, which is  *)
(* not the first of the four writes of each field before it.               *)
Spot(s, w, p, j) ==
  LET r == p - 4 * Cardinality(Before(s, j))
  IN  /\ r \in 1 .. Len(FieldWrites(s.entries[j]))
      /\ w[p].data = FieldWrites(s.entries[j])[r].data

(* Up to the first null pointer the fields are written four by four. *)
Regular(s, w, n) ==
  /\ CleanTo(w, Len(w)) => Len(w) = 4 * Cardinality(Before(s, n))
  /\ \A p \in 1 .. Len(w) : CleanTo(w, p) => \E j \in Before(s, n) : Spot(s, w, p, j)

LEMMA SlotRegular ==
  ASSUME NEW s, IsTableOf(s, Fields), NEW n \in 0 .. s.size - 1,
         NEW c \in Seq(Write), Regular(s, c, n), NEW u, Follows(u, c, SetSlots(s)[n + 1])
  PROVE  Regular(s, u, n + 1)
<1> DEFINE d == SetSlots(s)[n + 1]
           b == Cardinality(Before(s, n))
           e == s.entries[n]
<1>1. s.size \in Nat /\ n \in 0 .. s.size /\ n < s.size /\ n \in Nat
      /\ n + 1 \in 1 .. s.size /\ (n + 1) - 1 = n
  BY TableFacts
<1>2. /\ b \in Nat
      /\ Before(s, n + 1) = IF n \in LiveSlots(s) THEN Before(s, n) \cup {n} ELSE Before(s, n)
      /\ Cardinality(Before(s, n + 1)) = IF n \in LiveSlots(s) THEN b + 1 ELSE b
  BY <1>1, BeforeCount
<1>3. d = IF e = NULL THEN <<>> ELSE FieldWrites(e)
  BY <1>1 DEF SetSlots, Iterated
<1>4. e \in EntriesOf(Fields) \cup {NULL, DELETED} /\ (n \in LiveSlots(s) <=> e \notin {NULL, DELETED})
  BY TableFacts DEF IsTableOf, Live
<1>5. d \in Seq(Write)
  BY <1>3, <1>4, FieldWritesFacts
<1>6. /\ u \in Seq(Write) /\ Begins(u, c)
      /\ Len(c) \in Nat /\ Len(d) \in Nat /\ Len(u) = Len(c) + Len(d)
      /\ \A p \in 1 .. Len(d) : u[Len(c) + p] = d[p]
  BY <1>5, FollowsFacts
<1>7. \A p \in 1 .. Len(c) : u[p] = c[p]
  BY <1>6 DEF Begins
<1>8. \A p \in 0 .. Len(c) : CleanTo(u, p) <=> CleanTo(c, p)
  BY <1>6, CleanPrefix
<1>9. /\ CleanTo(c, Len(c)) => Len(c) = 4 * b
      /\ \A p \in 1 .. Len(c) : CleanTo(c, p) => \E j \in Before(s, n) : Spot(s, c, p, j)
  BY DEF Regular
<1> HIDE DEF d, b, e
(* A write before those of the slot is where it was. *)
<1>10. ASSUME NEW p \in 1 .. Len(c), CleanTo(u, p)
       PROVE  \E j \in Before(s, n + 1) : Spot(s, u, p, j)
  <2>1. CleanTo(c, p)
    BY <1>6, <1>8, <1>10
  <2>2. PICK j \in Before(s, n) : Spot(s, c, p, j)
    BY <1>9, <2>1
  <2>3. Spot(s, u, p, j)
    BY <1>7, <2>2 DEF Spot
  <2> QED
    BY <1>2, <2>2, <2>3
(* When one of the slot's own is made, all before were clean. *)
<1>11. ASSUME NEW p \in 1 .. Len(u), p > Len(c), CleanTo(u, p)
       PROVE  /\ Len(c) = 4 * b
              /\ \A i \in 1 .. Len(d) : i <= p - Len(c) => d[i].data # NULL
              /\ p - Len(c) \in 1 .. Len(d)
              /\ u[p] = d[p - Len(c)]
  <2>1. CleanTo(u, Len(c))
    BY <1>6, <1>11 DEF CleanTo
  <2>2. Len(c) = 4 * b
    BY <1>6, <1>8, <1>9, <2>1
  <2>3. p - Len(c) \in 1 .. Len(d) /\ Len(c) + (p - Len(c)) = p
    BY <1>6, <1>11
  <2>4. u[p] = d[p - Len(c)]
    BY <1>6, <2>3
  <2>5. ASSUME NEW i \in 1 .. Len(d), i <= p - Len(c) PROVE d[i].data # NULL
    <3>1. Len(c) + i \in 1 .. p
      BY <1>6, <1>11, <2>3, <2>5
    <3> QED
      BY <1>6, <1>11, <3>1 DEF CleanTo
  <2> QED
    BY <2>2, <2>3, <2>4, <2>5
<1>12. CASE e = NULL
  <2>1. Len(d) = 0 /\ n \notin LiveSlots(s)
    BY <1>3, <1>4, <1>12
  <2>2. Len(u) = Len(c)
    BY <1>6, <2>1
  <2>3. CleanTo(u, Len(u)) => Len(u) = 4 * Cardinality(Before(s, n + 1))
    BY <1>2, <1>6, <1>8, <1>9, <2>1, <2>2 DEF b
  <2> QED
    BY <1>10, <2>2, <2>3 DEF Regular
<1>13. CASE e = DELETED
  <2>1. d[1].data = NULL /\ 1 \in 1 .. Len(d)
    <3>1. d = FieldWrites(e) /\ e \in EntriesOf(Fields) \cup {DELETED}
      BY <1>3, <1>13, DeletedAssumption
    <3>2. Len(d) \in 1 .. 4 /\ d[1].data = NULL
      BY <1>13, <3>1, FieldWritesFacts
    <3> QED
      BY <3>2
  <2>2. ASSUME NEW p \in 1 .. Len(u), p > Len(c) PROVE ~CleanTo(u, p)
    BY <1>11, <2>1, <2>2
  <2>3. Len(u) \in 1 .. Len(u) /\ Len(u) > Len(c)
    BY <1>6, <2>1
  <2>4. ~CleanTo(u, Len(u))
    BY <2>2, <2>3
  <2>5. ASSUME NEW p \in 1 .. Len(u), CleanTo(u, p)
        PROVE  \E j \in Before(s, n + 1) : Spot(s, u, p, j)
    <3>1. p \in 1 .. Len(c)
      BY <1>6, <2>2, <2>5
    <3> QED
      BY <1>10, <2>5, <3>1
  <2> QED
    BY <2>4, <2>5 DEF Regular
<1>14. CASE e \notin {NULL, DELETED}
  <2>1. /\ n \in LiveSlots(s) /\ d = FieldWrites(e)
        /\ Len(d) \in 1 .. 4
        /\ e.ptr_value = NULL => Len(d) = 3 /\ d[3].data = NULL
        /\ e.ptr_value # NULL => Len(d) = 4
    BY <1>3, <1>4, <1>14, FieldWritesFacts
  <2>2. n \in Before(s, n + 1) /\ Cardinality(Before(s, n + 1)) = b + 1
    BY <1>2, <2>1
  <2>3. ASSUME NEW p \in 1 .. Len(u), p > Len(c), CleanTo(u, p) PROVE Spot(s, u, p, n)
    <3>1. Len(c) = 4 * b /\ p - Len(c) \in 1 .. Len(d) /\ u[p] = d[p - Len(c)]
      BY <1>11, <2>3
    <3> QED
      BY <2>1, <3>1 DEF Spot, b, e
  <2>4. ASSUME CleanTo(u, Len(u)) PROVE Len(u) = 4 * (b + 1)
    <3>1. Len(u) \in 1 .. Len(u) /\ Len(u) > Len(c)
      <4> DEFINE x == Len(c)
                 y == Len(d)
                 z == Len(u)
      <4>1. x \in Nat /\ y \in 1 .. 4 /\ z = x + y
        BY <1>6, <2>1
      <4> HIDE DEF x, y, z
      <4>2. z \in 1 .. z /\ z > x
        BY <4>1
      <4> QED
        BY <4>2 DEF x, z
    <3>2. Len(c) = 4 * b /\ \A i \in 1 .. Len(d) : i <= Len(u) - Len(c) => d[i].data # NULL
      BY <1>11, <2>4, <3>1
    <3>3. Len(d) = 4
      BY <1>6, <2>1, <3>2
    <3> QED
      BY <1>2, <1>6, <3>2, <3>3 DEF b
  <2>5. ASSUME NEW p \in 1 .. Len(u), CleanTo(u, p)
        PROVE  \E j \in Before(s, n + 1) : Spot(s, u, p, j)
    <3>1. CASE p \in 1 .. Len(c)
      BY <1>10, <2>5, <3>1
    <3>2. CASE p \notin 1 .. Len(c)
      <4>1. p > Len(c)
        BY <1>6, <3>2
      <4> QED
        BY <2>2, <2>3, <2>5, <4>1
    <3> QED
      BY <3>1, <3>2
  <2> QED
    BY <2>2, <2>4, <2>5 DEF Regular
<1> QED
  BY <1>12, <1>13, <1>14


(* The entries before a slot are fewer than those before a later one. *)
LEMMA BeforeGrows ==
  ASSUME NEW V, NEW t, IsTableOf(t, V), NEW n \in 0 .. t.size, NEW j \in Before(t, n)
  PROVE  /\ j \in LiveSlots(t) /\ j \in 0 .. t.size - 1 /\ j \in 0 .. t.size /\ j < n
         /\ Cardinality(Before(t, j)) \in Nat /\ Cardinality(Before(t, n)) \in Nat
         /\ Cardinality(Before(t, j)) < Cardinality(Before(t, n))
<1>1. /\ t.size \in Nat /\ LiveSlots(t) \subseteq 0 .. t.size - 1
      /\ j \in LiveSlots(t) /\ j < n
  BY TableFacts DEF Before
<1>2. j \in 0 .. t.size - 1 /\ j \in 0 .. t.size /\ j + 1 \in 0 .. t.size /\ j + 1 <= n /\ j < t.size
  BY <1>1
<1>3. /\ Cardinality(Before(t, j)) \in Nat /\ Cardinality(Before(t, n)) \in Nat
      /\ Cardinality(Before(t, j + 1)) = Cardinality(Before(t, j)) + 1
      /\ IsFiniteSet(Before(t, n))
  BY <1>1, <1>2, BeforeCount
<1>4. Before(t, j + 1) \subseteq Before(t, n)
  BY <1>1, <1>2 DEF Before
<1>5. Cardinality(Before(t, j + 1)) <= Cardinality(Before(t, n))
  BY <1>3, <1>4, FS_Subset
<1> QED
  BY <1>1, <1>2, <1>3, <1>5

(* A slot is known by the number of entries before it. *)
LEMMA BeforeInjective ==
  ASSUME NEW V, NEW t, IsTableOf(t, V), NEW j \in LiveSlots(t), NEW h \in LiveSlots(t),
         Cardinality(Before(t, j)) = Cardinality(Before(t, h))
  PROVE  j = h
<1>1. t.size \in Nat /\ j \in 0 .. t.size /\ h \in 0 .. t.size
  BY TableFacts
<1>2. ~(j < h)
  <2> SUFFICES ASSUME j < h PROVE FALSE
    OBVIOUS
  <2>1. j \in Before(t, h)
    BY DEF Before
  <2> QED
    BY <1>1, <2>1, BeforeGrows
<1>3. ~(h < j)
  <2> SUFFICES ASSUME h < j PROVE FALSE
    OBVIOUS
  <2>1. h \in Before(t, j)
    BY DEF Before
  <2> QED
    BY <1>1, <2>1, BeforeGrows
<1> QED
  BY <1>1, <1>2, <1>3

(* There is one for each number below that of all entries. *)
LEMMA BeforeSurjective ==
  ASSUME NEW V, NEW t, IsTableOf(t, V), NEW i \in Nat, i < Cardinality(LiveSlots(t))
  PROVE  \E j \in LiveSlots(t) : Cardinality(Before(t, j)) = i
<1> DEFINE B(n) == Cardinality(Before(t, n))
           T == {n \in 0 .. t.size : i < B(n)}
<1>1. t.size \in Nat /\ t.size \in 0 .. t.size /\ 0 \in 0 .. t.size
  BY TableFacts
<1>2. B(t.size) = Cardinality(LiveSlots(t)) /\ B(0) = 0
  BY <1>1, BeforeCount
<1>3. \A n \in 0 .. t.size :
        /\ B(n) \in Nat
        /\ n < t.size => B(n + 1) = IF n \in LiveSlots(t) THEN B(n) + 1 ELSE B(n)
  BY BeforeCount
<1> HIDE DEF B
<1>4. T # {} /\ T \subseteq Nat
  BY <1>1, <1>2
<1>5. PICK n \in T : \A x \in T : n <= x
  BY <1>4, LeastNatural
<1>6. n \in 0 .. t.size /\ i < B(n) /\ n # 0
  BY <1>2
<1>7. n - 1 \in 0 .. t.size /\ n - 1 < t.size /\ (n - 1) + 1 = n /\ ~(n <= n - 1)
  BY <1>1, <1>6
<1>8. ~(i < B(n - 1))
  BY <1>5, <1>7
<1>9. B(n) = IF n - 1 \in LiveSlots(t) THEN B(n - 1) + 1 ELSE B(n - 1)
  BY <1>3, <1>7
<1>10. n - 1 \in LiveSlots(t) /\ B(n - 1) = i
  BY <1>3, <1>6, <1>7, <1>8, <1>9
<1> QED
  BY <1>10 DEF B

LEMMA SetSlotsRegular ==
  ASSUME NEW s, IsTableOf(s, Fields), NEW n \in 0 .. s.size
  PROVE  /\ Concatenated(SetSlots(s))[n] \in Seq(Write)
         /\ Regular(s, Concatenated(SetSlots(s))[n], n)
<1> DEFINE C == Concatenated(SetSlots(s))
           P(m) == Regular(s, C[m], m)
           T == {m \in 0 .. s.size : ~P(m)}
<1>1. s.size \in Nat /\ Len(SetSlots(s)) = s.size /\ Joins(C, SetSlots(s), Write)
  BY SetJoins, TableFacts
<1> HIDE DEF C
<1>2. /\ \A m \in 0 .. s.size : C[m] \in Seq(Write)
      /\ C[0] = <<>>
      /\ \A m \in 0 .. s.size - 1 : Follows(C[m + 1], C[m], SetSlots(s)[m + 1])
  BY <1>1, ConcatenatedNext
<1>3. P(0)
  <2>1. 0 \in 0 .. s.size
    BY <1>1
  <2>2. Cardinality(Before(s, 0)) = 0
    BY <2>1, BeforeCount
  <2>3. Len(C[0]) = 0
    BY <1>2
  <2> QED
    BY <2>2, <2>3 DEF Regular
<1>4. ASSUME NEW m \in 0 .. s.size - 1, P(m) PROVE P(m + 1)
  <2>1. C[m] \in Seq(Write) /\ Follows(C[m + 1], C[m], SetSlots(s)[m + 1])
    BY <1>1, <1>2
  <2> QED
    BY <1>4, <2>1, SlotRegular
<1>5. T = {}
  <2> SUFFICES ASSUME T # {} PROVE FALSE
    OBVIOUS
  <2>1. T \subseteq Nat
    OBVIOUS
  <2>2. PICK m \in T : \A x \in T : m <= x
    BY <2>1, LeastNatural
  <2>3. m \in 0 .. s.size /\ ~P(m)
    OBVIOUS
  <2> HIDE DEF P
  <2>4. m # 0
    BY <1>3, <2>3
  <2>5. m - 1 \in 0 .. s.size - 1 /\ m - 1 \in 0 .. s.size /\ ~(m <= m - 1) /\ (m - 1) + 1 = m
    BY <1>1, <2>3, <2>4
  <2>6. P(m - 1)
    BY <2>2, <2>5
  <2> QED
    BY <1>4, <2>3, <2>5, <2>6
<1> QED
  <2> HIDE DEF P
  <2>1. P(n) /\ C[n] \in Seq(Write)
    BY <1>2, <1>5
  <2> QED
    BY <2>1 DEF P, C


(* What a writer of a set with these entries leaves in its first m writes, *)
(* none of which reads a null pointer.                                     *)
SetWritten(s, w, m) ==
  /\ m >= 1 => w[1].data = s.size
  /\ m >= 2 => w[2].data = s.n_entries
  /\ m <= 2 + 4 * s.n_entries
  /\ m = Len(w) => m = 2 + 4 * s.n_entries
  /\ \A i \in Nat : 4 * i + 4 <= m => w[4 * i + 4].data \in Keys
  /\ \A i \in Nat : 4 * i + 6 <= m => w[4 * i + 6].data \in Values
  /\ \A i, h \in Nat :
       4 * i + 4 <= m /\ 4 * h + 4 <= m /\ w[4 * i + 4].data = w[4 * h + 4].data
       /\ w[4 * i + 4].data # Empty => i = h

LEMMA SetWritesJoined ==
  ASSUME NEW s, IsTableOf(s, Fields)
  PROVE  \E c \in Seq(Write) :
           /\ Regular(s, c, s.size)
           /\ SetWrites(s) = Writes(<<s.size, s.n_entries>>, 2) \o c
<1>1. s.size \in 0 .. s.size
  BY TableFacts
<1>2. SetWrites(s) = Writes(<<s.size, s.n_entries>>, 2) \o Concatenated(SetSlots(s))[s.size]
  BY DEF SetWrites, TableWrites, SetSlots
<1> QED
  BY <1>1, <1>2, SetSlotsRegular

LEMMA MetadataFacts ==
  ASSUME NEW t, NEW V, IsTableOf(t, V)
  PROVE  /\ Writes(<<t.size, t.n_entries>>, 2) \in Seq(Write)
         /\ Len(Writes(<<t.size, t.n_entries>>, 2)) = 2
         /\ Writes(<<t.size, t.n_entries>>, 2)[1].data = t.size
         /\ Writes(<<t.size, t.n_entries>>, 2)[2].data = t.n_entries
<1> DEFINE x == <<t.size, t.n_entries>>
<1>1. t.size \in Nat /\ t.n_entries \in Nat
  BY TableFacts DEF IsTableOf
<1>2. /\ x \in Seq(Datum \cup {NULL}) /\ Len(x) = 2 /\ x[1] = t.size /\ x[2] = t.n_entries
      /\ 1 \in 1 .. 2 /\ 2 \in 1 .. 2
  BY <1>1 DEF Datum
<1>3. x[2] # NULL
  BY <1>1, PointersAssumption
<1> HIDE DEF x
<1>4. /\ Writes(x, 2) \in Seq(Write) /\ Len(Writes(x, 2)) = 2
      /\ Writes(x, 2)[1].data = t.size /\ Writes(x, 2)[2].data = t.n_entries
  BY <1>2, <1>3, WritesFacts
<1> QED
  BY <1>4 DEF x

LEMMA SpotFacts ==
  ASSUME NEW s, IsTableOf(s, Fields), NEW w, NEW p \in Nat, NEW j \in LiveSlots(s), Spot(s, w, p, j)
  PROVE  LET b == Cardinality(Before(s, j))
         IN  /\ b \in Nat /\ p > 4 * b /\ p <= 4 * b + 4
             /\ p = 4 * b + 2 => w[p].data = s.entries[j].key /\ s.entries[j].key \in Keys
             /\ p = 4 * b + 4 => w[p].data \in Values
<1> DEFINE b == Cardinality(Before(s, j))
           e == s.entries[j]
           r == p - 4 * b
<1>1. j \in 0 .. s.size /\ e \in EntriesOf(Fields)
  BY TableFacts DEF IsTableOf, Live, LiveSlots
<1>2. b \in Nat
  BY <1>1, BeforeCount
<1>3. r \in 1 .. Len(FieldWrites(e)) /\ w[p].data = FieldWrites(e)[r].data
  BY DEF Spot
<1>4. e # DELETED
  BY <1>1, PointersAssumption
<1>5. /\ Len(FieldWrites(e)) \in 1 .. 4
      /\ e.ptr_value = NULL => Len(FieldWrites(e)) = 3
      /\ e.ptr_value # NULL => FieldWrites(e)[4].data \in Values
      /\ FieldWrites(e)[2].data = e.key /\ e.key \in Keys
  BY <1>1, <1>4, FieldWritesFacts
<1> HIDE DEF b, e
<1>6. p > 4 * b /\ p <= 4 * b + 4
  <2> DEFINE l == Len(FieldWrites(e))
  <2>1. l \in 1 .. 4 /\ r \in 1 .. l
    BY <1>3, <1>5
  <2> HIDE DEF l
  <2> QED
    BY <1>2, <2>1
<1>7. p = 4 * b + 2 => w[p].data = e.key /\ e.key \in Keys
  <2> SUFFICES ASSUME p = 4 * b + 2 PROVE w[p].data = e.key /\ e.key \in Keys
    OBVIOUS
  <2>1. r = 2
    BY <1>2
  <2> QED
    BY <1>3, <1>5, <2>1, Zenon
<1>8. p = 4 * b + 4 => w[p].data \in Values
  <2> SUFFICES ASSUME p = 4 * b + 4 PROVE w[p].data \in Values
    OBVIOUS
  <2>1. r = 4
    BY <1>2
  <2>2. e.ptr_value # NULL
    BY <1>3, <1>5, <2>1
  <2> QED
    BY <1>3, <1>5, <2>1, <2>2, Zenon
<1> QED
  BY <1>2, <1>6, <1>7, <1>8 DEF b, e

(* What FollowsFacts says of c. *)
Appended(c, a, b) ==
  /\ Begins(c, a) /\ Len(a) \in Nat /\ Len(b) \in Nat
  /\ Len(c) = Len(a) + Len(b)
  /\ \A p \in 1 .. Len(b) : c[Len(a) + p] = b[p]

LEMMA FollowsAppended ==
  ASSUME NEW S, NEW a \in Seq(S), NEW b \in Seq(S), NEW c, Follows(c, a, b)
  PROVE  c \in Seq(S) /\ Appended(c, a, b)
BY FollowsFacts DEF Appended

LEMMA AfterTwo ==
  ASSUME NEW a \in Seq(Write), NEW c \in Seq(Write), NEW w, Follows(w, a, c), Len(a) = 2
  PROVE  /\ w \in Seq(Write) /\ Begins(w, a) /\ Len(c) \in Nat /\ Len(w) = 2 + Len(c)
         /\ \A p \in 1 .. Len(c) : w[2 + p] = c[p]
<1>1. w \in Seq(Write) /\ Appended(w, a, c)
  BY FollowsAppended, Zenon
<1> QED
  BY <1>1 DEF Appended

LEMMA SetWritesFacts ==
  ASSUME NEW s, IsTableOf(s, Fields), Counted(s), UniqueBut(s, {Empty})
  PROVE  /\ SetWrites(s) \in Seq(Write) /\ Len(SetWrites(s)) >= 2
         /\ \A m \in 0 .. Len(SetWrites(s)) :
              CleanTo(SetWrites(s), m) => SetWritten(s, SetWrites(s), m)
<1> DEFINE w == SetWrites(s)
           a == Writes(<<s.size, s.n_entries>>, 2)
           B(j) == Cardinality(Before(s, j))
<1>1. PICK c \in Seq(Write) : Regular(s, c, s.size) /\ w = a \o c
  BY SetWritesJoined
<1>2. a \in Seq(Write) /\ Len(a) = 2 /\ a[1].data = s.size /\ a[2].data = s.n_entries
  BY MetadataFacts
<1>3. Follows(w, a, c)
  BY <1>1 DEF Follows
<1> HIDE DEF w, a
<1>4. /\ w \in Seq(Write) /\ Begins(w, a) /\ Len(c) \in Nat /\ Len(w) = 2 + Len(c)
      /\ \A p \in 1 .. Len(c) : w[2 + p] = c[p]
  BY <1>2, <1>3, AfterTwo
<1>5. w[1].data = s.size /\ w[2].data = s.n_entries
  BY <1>2, <1>4 DEF Begins
<1>6. /\ s.size \in 0 .. s.size /\ s.n_entries \in Nat
      /\ Before(s, s.size) = LiveSlots(s) /\ Cardinality(Before(s, s.size)) = s.n_entries
      /\ \A j \in LiveSlots(s) : j \in 0 .. s.size /\ B(j) \in Nat /\ B(j) < s.n_entries
  <2>1. s.size \in 0 .. s.size /\ s.n_entries \in Nat
        /\ \A j \in LiveSlots(s) : j \in 0 .. s.size
    BY TableFacts
  <2>2. Before(s, s.size) = LiveSlots(s)
    BY <2>1, BeforeCount
  <2>3. s.n_entries = Cardinality(LiveSlots(s))
    BY DEF Counted
  <2>4. \A j \in LiveSlots(s) : B(j) \in Nat /\ B(j) < Cardinality(LiveSlots(s))
    BY <2>1, BeforeCount
  <2> QED
    BY <2>1, <2>2, <2>3, <2>4
<1>7. ASSUME NEW m \in 0 .. Len(w), CleanTo(w, m) PROVE SetWritten(s, w, m)
  <2>1. ASSUME NEW p \in 1 .. Len(c), 2 + p <= m PROVE \E j \in LiveSlots(s) : Spot(s, c, p, j)
    <3>1. CleanTo(c, p)
      BY <1>4, <1>7, <2>1 DEF CleanTo
    <3> QED
      BY <1>1, <1>6, <2>1, <3>1 DEF Regular
  <2>2. m <= 2 + 4 * s.n_entries
    <3>1. CASE m <= 2
      BY <1>6, <3>1
    <3>2. CASE ~(m <= 2)
      <4> DEFINE p == m - 2
      <4>1. p \in 1 .. Len(c) /\ 2 + p <= m /\ p \in Nat
        BY <1>4, <3>2
      <4>2. PICK j \in LiveSlots(s) : Spot(s, c, p, j)
        BY <2>1, <4>1
      <4> HIDE DEF p
      <4>3. p <= 4 * B(j) + 4
        BY <4>1, <4>2, SpotFacts
      <4> QED
        BY <1>6, <4>3 DEF p
    <3> QED
      BY <3>1, <3>2
  <2>3. ASSUME m = Len(w) PROVE m = 2 + 4 * s.n_entries
    <3>1. CleanTo(c, Len(c))
      BY <1>4, <1>7, <2>3 DEF CleanTo
    <3>2. Len(c) = 4 * s.n_entries
      BY <1>1, <1>6, <3>1 DEF Regular
    <3> QED
      BY <1>4, <2>3, <3>2
  <2>4. ASSUME NEW i \in Nat, 4 * i + 4 <= m
        PROVE  \E j \in LiveSlots(s) : B(j) = i /\ w[4 * i + 4].data = s.entries[j].key
                                       /\ s.entries[j].key \in Keys
    <3> DEFINE p == 4 * i + 2
    <3>1. p \in 1 .. Len(c) /\ 2 + p <= m /\ p \in Nat /\ 2 + p = 4 * i + 4
      BY <1>4, <2>4
    <3>2. PICK j \in LiveSlots(s) : Spot(s, c, p, j)
      BY <2>1, <3>1
    <3>3. w[2 + p] = c[p]
      BY <1>4, <3>1
    <3>4. B(j) \in Nat
      BY <1>6
    <3>5. /\ p > 4 * B(j) /\ p <= 4 * B(j) + 4
          /\ p = 4 * B(j) + 2 => c[p].data = s.entries[j].key /\ s.entries[j].key \in Keys
      <4> HIDE DEF p
      <4> QED
        BY <3>1, <3>2, SpotFacts
    <3>6. B(j) = i
      BY <3>4, <3>5
    <3> QED
      BY <3>1, <3>3, <3>5, <3>6
  <2>5. ASSUME NEW i \in Nat, 4 * i + 6 <= m PROVE w[4 * i + 6].data \in Values
    <3> DEFINE p == 4 * i + 4
    <3>1. p \in 1 .. Len(c) /\ 2 + p <= m /\ p \in Nat /\ 2 + p = 4 * i + 6
      BY <1>4, <2>5
    <3>2. PICK j \in LiveSlots(s) : Spot(s, c, p, j)
      BY <2>1, <3>1
    <3>3. w[2 + p] = c[p]
      BY <1>4, <3>1
    <3>4. B(j) \in Nat
      BY <1>6
    <3>5. /\ p > 4 * B(j) /\ p <= 4 * B(j) + 4
          /\ p = 4 * B(j) + 4 => c[p].data \in Values
      <4> HIDE DEF p
      <4> QED
        BY <3>1, <3>2, SpotFacts
    <3>6. B(j) = i
      BY <3>4, <3>5
    <3> QED
      BY <3>1, <3>3, <3>5, <3>6
  <2>6. ASSUME NEW i \in Nat, NEW h \in Nat, 4 * i + 4 <= m, 4 * h + 4 <= m,
               w[4 * i + 4].data = w[4 * h + 4].data, w[4 * i + 4].data # Empty
        PROVE  i = h
    <3>1. PICK j \in LiveSlots(s) : B(j) = i /\ w[4 * i + 4].data = s.entries[j].key
      BY <2>4, <2>6
    <3>2. PICK l \in LiveSlots(s) : B(l) = h /\ w[4 * h + 4].data = s.entries[l].key
      BY <2>4, <2>6
    <3>3. j = l
      BY <2>6, <3>1, <3>2 DEF UniqueBut
    <3> QED
      BY <3>1, <3>2, <3>3
  <2> HIDE DEF B
  <2>7. \A i \in Nat : 4 * i + 4 <= m => w[4 * i + 4].data \in Keys
    BY <2>4
  <2> QED
    BY <1>5, <2>2, <2>3, <2>5, <2>6, <2>7 DEF SetWritten
<1> QED
  <2>1. Len(w) >= 2
    BY <1>4
  <2> QED
    BY <1>4, <1>7, <2>1 DEF w


(* A key is written before its set. *)
LEMMA KeyWritesFacts ==
  ASSUME NEW e, e # DELETED, e.key \in Keys,
         IsTableOf(e.ptr_value, Fields), Counted(e.ptr_value), UniqueBut(e.ptr_value, {Empty})
  PROVE  /\ KeyWrites(e) \in Seq(Write)
         /\ Len(KeyWrites(e)) = 2 + Len(SetWrites(e.ptr_value))
         /\ KeyWrites(e)[2].data = e.key
         /\ \A x \in 1 .. Len(SetWrites(e.ptr_value)) :
              KeyWrites(e)[2 + x] = SetWrites(e.ptr_value)[x]
<1> DEFINE w == SetWrites(e.ptr_value)
           y == <<LENGTH, e.key>>
           a == Writes(y, 0)
           k == KeyWrites(e)
<1>1. y \in Seq(Datum \cup {NULL}) /\ Len(y) = 2 /\ y[2] = e.key /\ 2 \in 1 .. 2
  BY DEF Datum
<1>2. k = a \o w
  BY DEF KeyWrites
<1>3. w \in Seq(Write)
  BY SetWritesFacts
<1> HIDE DEF y, w, k
<1>4. a \in Seq(Write) /\ Len(a) = 2 /\ a[2].data = e.key
  BY <1>1, WritesFacts
<1> HIDE DEF a
<1>5. Follows(k, a, w)
  BY <1>2 DEF Follows
<1>6. /\ k \in Seq(Write) /\ Begins(k, a) /\ Len(w) \in Nat /\ Len(k) = 2 + Len(w)
      /\ \A x \in 1 .. Len(w) : k[2 + x] = w[x]
  BY <1>3, <1>4, <1>5, AfterTwo
<1>7. k[2] = a[2]
  BY <1>4, <1>6 DEF Begins
<1> QED
  BY <1>4, <1>6, <1>7 DEF k, w

LEMMA TombstoneWrites ==
  KeyWrites(DELETED) \in Seq(Write) /\ Len(KeyWrites(DELETED)) = 1
  /\ KeyWrites(DELETED)[1].data = NULL
<1> DEFINE x == <<NULL>>
<1>1. x \in Seq(Datum \cup {NULL}) /\ Len(x) = 1 /\ x[1] = NULL /\ 1 \in 1 .. 1
  OBVIOUS
<1>2. KeyWrites(DELETED) = Writes(x, 0)
  BY DEF KeyWrites
<1> HIDE DEF x
<1> QED
  BY <1>1, <1>2, WritesFacts

(* The object f shows, from q on, the first k of the writes w and no more. *)
Shown(f, q, w, k) ==
  /\ q \in Nat /\ q >= 1 /\ k \in 0 .. Len(w)
  /\ \A x \in 1 .. k : (q + x) - 1 \in 1 .. Len(f) /\ f[(q + x) - 1] = w[x].data
  /\ k < Len(w) => Len(f) < q + k

(* What such an object gives to the reads. *)
LEMMA ShownAt ==
  ASSUME NEW f \in Seq(Datum), NEW q, NEW w \in Seq(Write), NEW k, Shown(f, q, w, k),
         NEW x \in 1 .. Len(w), NEW z
  PROVE  At(f, (q + x) - 1, z) = IF x <= k THEN w[x].data ELSE z
<1>1. DOMAIN f = 1 .. Len(f) /\ Len(f) \in Nat /\ Len(w) \in Nat
  BY LenProperties
<1>2. CASE x <= k
  BY <1>1, <1>2 DEF Shown, At
<1>3. CASE ~(x <= k)
  <2>1. (q + x) - 1 \notin 1 .. Len(f)
    BY <1>1, <1>3 DEF Shown
  <2> QED
    BY <1>1, <1>3, <2>1 DEF At
<1> QED
  BY <1>2, <1>3

LEMMA ShownClean ==
  ASSUME NEW f \in Seq(Datum), NEW q, NEW w \in Seq(Write), NEW k, Shown(f, q, w, k)
  PROVE  CleanTo(w, k)
<1>1. NULL \notin Datum
  BY PointersAssumption, NullAssumption DEF Datum
<1>2. \A x \in 1 .. k : w[x].data \in Datum
  BY DEF Shown
<1> QED
  BY <1>1, <1>2 DEF CleanTo

(* What has been written of a set can be loaded. *)
ShownEntry(e, n) ==
  e # DELETED /\ e.key \in Keys /\ GoodSet(e.ptr_value, n)

LEMMA EntryWrites ==
  ASSUME NEW e, NEW n, ShownEntry(e, n),
         NEW f \in Seq(Datum), NEW q, NEW k, Shown(f, q, KeyWrites(e), k)
  PROVE  /\ KeyWrites(e) \in Seq(Write) /\ Len(KeyWrites(e)) \in Nat /\ Len(KeyWrites(e)) >= 4
         /\ k <= 4 + 4 * e.ptr_value.n_entries
         /\ k = Len(KeyWrites(e)) => k = 4 + 4 * e.ptr_value.n_entries
         /\ k >= 2 => KeyWrites(e)[2].data \in Keys
         /\ k >= 3 => KeyWrites(e)[3].data = e.ptr_value.size
         /\ k >= 4 => KeyWrites(e)[4].data = e.ptr_value.n_entries
         /\ \A i \in Nat : 4 * i + 6 <= k => KeyWrites(e)[4 * i + 6].data \in Keys
         /\ \A i \in Nat : 4 * i + 8 <= k => KeyWrites(e)[4 * i + 8].data \in Values
         /\ \A i, h \in Nat :
              4 * i + 6 <= k /\ 4 * h + 6 <= k
              /\ KeyWrites(e)[4 * i + 6].data = KeyWrites(e)[4 * h + 6].data
              /\ KeyWrites(e)[4 * i + 6].data # Empty => i = h
<1> DEFINE s == e.ptr_value
           w == SetWrites(s)
           g == KeyWrites(e)
           m == k - 2
<1>1. /\ e # DELETED /\ e.key \in Keys
      /\ IsTableOf(s, Fields) /\ Counted(s) /\ UniqueBut(s, {Empty})
  BY DEF ShownEntry, GoodSet, Kept
<1>2. /\ g \in Seq(Write) /\ Len(g) = 2 + Len(w) /\ g[2].data = e.key
      /\ \A x \in 1 .. Len(w) : g[2 + x] = w[x]
  BY <1>1, KeyWritesFacts
<1>3. /\ w \in Seq(Write) /\ Len(w) >= 2
      /\ \A x \in 0 .. Len(w) : CleanTo(w, x) => SetWritten(s, w, x)
  BY <1>1, SetWritesFacts
<1>4. s.n_entries \in Nat
  BY <1>1, TableFacts
<1>5. CleanTo(g, k) /\ k \in 0 .. Len(g)
  BY <1>2, ShownClean DEF Shown
<1> HIDE DEF s, w, g
<1>6. Len(w) \in Nat
  BY <1>3
<1>7. CASE k <= 2
  <2>1. /\ ~(k >= 3) /\ ~(k >= 4) /\ k # Len(g) /\ k <= 4 + 4 * s.n_entries
        /\ \A i \in Nat : ~(4 * i + 6 <= k) /\ ~(4 * i + 8 <= k)
    BY <1>2, <1>3, <1>4, <1>5, <1>6, <1>7
  <2> QED
    BY <1>1, <1>2, <1>3, <1>6, <2>1 DEF s, w, g
<1>8. CASE ~(k <= 2)
  <2>1. m \in 0 .. Len(w) /\ m >= 1 /\ k = 2 + m
    BY <1>2, <1>5, <1>6, <1>8
  <2> HIDE DEF m
  <2>2. CleanTo(w, m)
    <3> SUFFICES ASSUME NEW x \in 1 .. m PROVE w[x].data # NULL
      BY DEF CleanTo
    <3>1. x \in 1 .. Len(w) /\ 2 + x \in 1 .. k
      BY <1>6, <2>1
    <3> QED
      BY <1>2, <1>5, <3>1 DEF CleanTo
  <2>3. SetWritten(s, w, m)
    BY <1>3, <2>1, <2>2
  <2>4. /\ w[1].data = s.size /\ (m >= 2 => w[2].data = s.n_entries)
        /\ m <= 2 + 4 * s.n_entries
        /\ m = Len(w) => m = 2 + 4 * s.n_entries
        /\ \A i \in Nat : 4 * i + 4 <= m => w[4 * i + 4].data \in Keys
        /\ \A i \in Nat : 4 * i + 6 <= m => w[4 * i + 6].data \in Values
        /\ \A i, h \in Nat :
             4 * i + 4 <= m /\ 4 * h + 4 <= m /\ w[4 * i + 4].data = w[4 * h + 4].data
             /\ w[4 * i + 4].data # Empty => i = h
    BY <2>1, <2>3 DEF SetWritten
  <2>5. g[3] = w[1] /\ (k >= 4 => g[4] = w[2])
    BY <1>2, <1>3, <1>6, <2>1
  <2>6. \A i \in Nat : 4 * i + 6 <= k => 4 * i + 4 <= m /\ g[4 * i + 6] = w[4 * i + 4]
    <3> SUFFICES ASSUME NEW i \in Nat, 4 * i + 6 <= k
                 PROVE  4 * i + 4 <= m /\ g[4 * i + 6] = w[4 * i + 4]
      OBVIOUS
    <3>1. 4 * i + 4 <= m /\ 4 * i + 4 \in 1 .. Len(w) /\ 2 + (4 * i + 4) = 4 * i + 6
      BY <1>6, <2>1
    <3> QED
      BY <1>2, <3>1
  <2>7. \A i \in Nat : 4 * i + 8 <= k => 4 * i + 6 <= m /\ g[4 * i + 8] = w[4 * i + 6]
    <3> SUFFICES ASSUME NEW i \in Nat, 4 * i + 8 <= k
                 PROVE  4 * i + 6 <= m /\ g[4 * i + 8] = w[4 * i + 6]
      OBVIOUS
    <3>1. 4 * i + 6 <= m /\ 4 * i + 6 \in 1 .. Len(w) /\ 2 + (4 * i + 6) = 4 * i + 8
      BY <1>6, <2>1
    <3> QED
      BY <1>2, <3>1
  <2>8. Len(g) \in Nat /\ Len(g) >= 4 /\ k <= 4 + 4 * s.n_entries
        /\ (k = Len(g) => k = 4 + 4 * s.n_entries)
    BY <1>2, <1>3, <1>4, <1>6, <2>1, <2>4
  <2>9. k >= 4 => m >= 2
    BY <1>6, <2>1
  <2>10. \A i, h \in Nat :
           4 * i + 6 <= k /\ 4 * h + 6 <= k /\ g[4 * i + 6].data = g[4 * h + 6].data
           /\ g[4 * i + 6].data # Empty => i = h
    BY <2>4, <2>6
  <2>11. /\ \A i \in Nat : 4 * i + 6 <= k => g[4 * i + 6].data \in Keys
         /\ \A i \in Nat : 4 * i + 8 <= k => g[4 * i + 8].data \in Values
    BY <2>4, <2>6, <2>7
  <2>12. g[2].data \in Keys /\ g[3].data = s.size /\ (k >= 4 => g[4].data = s.n_entries)
    BY <1>1, <1>2, <2>4, <2>5, <2>9
  <2> QED
    BY <1>2, <2>8, <2>10, <2>11, <2>12 DEF s, g
<1> QED
  BY <1>7, <1>8


LEMMA SetShown ==
  ASSUME NEW n \in 0 .. MaxStarts, n > 0, NEW e, ShownEntry(e, n),
         NEW f \in Seq(Datum), NEW q, NEW k, Shown(f, q, KeyWrites(e), k)
  PROVE  /\ SetAt(f, q, Cap(n))
         /\ k = Len(KeyWrites(e)) =>
              /\ At(f, q + 3, 0) = e.ptr_value.n_entries
              /\ q + 4 + 4 * At(f, q + 3, 0) = q + k
         /\ k < Len(KeyWrites(e)) => q + 4 + 4 * At(f, q + 3, 0) > Len(f)
<1> DEFINE s == e.ptr_value
           g == KeyWrites(e)
           top == s.n_entries
           size == At(f, q + 2, 0)
           count == At(f, q + 3, 0)
<1>1. /\ g \in Seq(Write) /\ Len(g) \in Nat /\ Len(g) >= 4
      /\ k <= 4 + 4 * top
      /\ k = Len(g) => k = 4 + 4 * top
      /\ k >= 2 => g[2].data \in Keys
      /\ k >= 3 => g[3].data = s.size
      /\ k >= 4 => g[4].data = top
      /\ \A i \in Nat : 4 * i + 6 <= k => g[4 * i + 6].data \in Keys
      /\ \A i \in Nat : 4 * i + 8 <= k => g[4 * i + 8].data \in Values
      /\ \A i, h \in Nat :
           4 * i + 6 <= k /\ 4 * h + 6 <= k /\ g[4 * i + 6].data = g[4 * h + 6].data
           /\ g[4 * i + 6].data # Empty => i = h
  BY EntryWrites
<1>2. IsTableOf(s, Fields) /\ Roomy(s) /\ Kept(s, Fields, {Empty}) /\ Excess(s) <= Cap(n - 1)
  BY DEF ShownEntry, GoodSet, Kept
<1>3. top \in Nat /\ s.size \in Nat \ {0} /\ s.size \in Primes /\ top <= Cap(n) /\ Cap(n) \in Nat
  <2>1. n \in Nat
    BY SizesAssumption
  <2> QED
    BY <1>2, <2>1, TableFacts, NotTooMany, CapFacts
<1>4. q \in Nat /\ q >= 1 /\ k \in 0 .. Len(g) /\ (k < Len(g) => Len(f) < q + k) /\ Len(f) \in Nat
  BY LenProperties DEF Shown
<1>5. ASSUME NEW x \in 1 .. Len(g), NEW z
      PROVE  At(f, (q + x) - 1, z) = IF x <= k THEN g[x].data ELSE z
  BY <1>1, <1>5, ShownAt
<1>6. ASSUME NEW x \in Nat, x > k, k < Len(g), NEW z PROVE At(f, (q + x) - 1, z) = z
  <2>1. DOMAIN f = 1 .. Len(f)
    BY LenProperties
  <2>2. (q + x) - 1 \notin 1 .. Len(f)
    BY <1>1, <1>4, <1>6
  <2> QED
    BY <2>1, <2>2 DEF At
<1> HIDE DEF s, g, top
<1>7. read_string(f, q) \in Keys
  <2>1. 2 \in 1 .. Len(g) /\ (q + 2) - 1 = q + 1
    BY <1>1, <1>4
  <2>2. read_string(f, q) = IF 2 <= k THEN g[2].data ELSE Empty
    BY <1>5, <2>1 DEF read_string
  <2> QED
    BY <1>1, <1>4, <2>2, NamesAssumption
<1>8. size = IF 3 <= k THEN s.size ELSE 0
  <2>1. 3 \in 1 .. Len(g) /\ (q + 3) - 1 = q + 2
    BY <1>1, <1>4
  <2>2. size = IF 3 <= k THEN g[3].data ELSE 0
    BY <1>5, <2>1
  <2> QED
    BY <1>1, <1>4, <2>2
<1>9. count = IF 4 <= k THEN top ELSE 0
  <2>1. 4 \in 1 .. Len(g) /\ (q + 4) - 1 = q + 3
    BY <1>1, <1>4
  <2>2. count = IF 4 <= k THEN g[4].data ELSE 0
    BY <1>5, <2>1
  <2> QED
    BY <1>1, <1>4, <2>2
<1> HIDE DEF size, count
<1>10. ASSUME NEW i \in 0 .. count - 1
       PROVE  /\ i \in Nat
              /\ FieldAt(f, q, i) =
                   [key |-> IF 4 * i + 6 <= k THEN g[4 * i + 6].data ELSE Empty,
                    ptr_value |-> IF 4 * i + 8 <= k THEN g[4 * i + 8].data ELSE Blank]
  <2>1. 4 <= k /\ count = top /\ i \in Nat /\ i < top
    BY <1>3, <1>4, <1>9, <1>10
  <2>2. ASSUME NEW x \in Nat, x >= 1, x <= 4 + 4 * top, NEW z
        PROVE  At(f, (q + x) - 1, z) = IF x <= k THEN g[x].data ELSE z
    <3>1. CASE x <= k
      <4>1. x \in 1 .. Len(g)
        BY <1>1, <1>4, <2>2, <3>1
      <4> QED
        BY <1>5, <4>1
    <3>2. CASE ~(x <= k)
      <4>1. k < Len(g) /\ x > k
        BY <1>1, <1>3, <1>4, <2>2, <3>2
      <4> QED
        BY <1>6, <3>2, <2>2, <4>1
    <3> QED
      BY <3>1, <3>2
  <2>3. /\ 4 * i + 6 \in Nat /\ 4 * i + 6 >= 1 /\ 4 * i + 6 <= 4 + 4 * top
        /\ 4 * i + 8 \in Nat /\ 4 * i + 8 >= 1 /\ 4 * i + 8 <= 4 + 4 * top
    BY <1>3, <2>1
  <2>4. At(f, (q + (4 * i + 6)) - 1, Empty) = IF 4 * i + 6 <= k THEN g[4 * i + 6].data ELSE Empty
    BY <2>2, <2>3
  <2>5. At(f, (q + (4 * i + 8)) - 1, Blank) = IF 4 * i + 8 <= k THEN g[4 * i + 8].data ELSE Blank
    BY <2>2, <2>3
  <2>6. /\ (q + 4 + 4 * i) + 1 = (q + (4 * i + 6)) - 1
        /\ ((q + 4 + 4 * i) + 2) + 1 = (q + (4 * i + 8)) - 1
    BY <1>4, <2>1
  <2>7. FieldAt(f, q, i) = [key |-> At(f, (q + (4 * i + 6)) - 1, Empty),
                            ptr_value |-> At(f, (q + (4 * i + 8)) - 1, Blank)]
    BY <2>6, Zenon DEF FieldAt, read_hashtable_entry, read_string, read_data
  <2> QED
    BY <2>1, <2>4, <2>5, <2>7
<1>11. ASSUME NEW i \in 0 .. count - 1 PROVE FieldAt(f, q, i) \in EntriesOf(Fields)
  <2> DEFINE x == IF 4 * i + 6 <= k THEN g[4 * i + 6].data ELSE Empty
             y == IF 4 * i + 8 <= k THEN g[4 * i + 8].data ELSE Blank
  <2>1. i \in Nat /\ FieldAt(f, q, i) = [key |-> x, ptr_value |-> y]
    BY <1>10, <1>11
  <2>2. x \in Keys
    BY <1>1, <2>1, NamesAssumption
  <2>3. y \in Values
    BY <1>1, <2>1, NamesAssumption
  <2> HIDE DEF x, y
  <2> QED
    BY <2>1, <2>2, <2>3 DEF EntriesOf, Fields
<1>12. ASSUME NEW i \in 0 .. count - 1, NEW h \in 0 .. count - 1,
              FieldAt(f, q, i).key = FieldAt(f, q, h).key, FieldAt(f, q, i).key # Empty
       PROVE  i = h
  <2>1. /\ i \in Nat /\ h \in Nat
        /\ FieldAt(f, q, i).key = IF 4 * i + 6 <= k THEN g[4 * i + 6].data ELSE Empty
        /\ FieldAt(f, q, h).key = IF 4 * h + 6 <= k THEN g[4 * h + 6].data ELSE Empty
    BY <1>10, <1>12
  <2> QED
    BY <1>1, <1>12, <2>1
<1>13. /\ count \in Nat /\ count <= Cap(n)
       /\ size \in Primes \/ (size = 0 /\ count = 0)
       /\ count * 100 < 61 * size + 100
  <2>1. top * 100 < 61 * s.size + 100
    BY <1>2 DEF Roomy, top
  <2>2. CASE 4 <= k
    BY <1>3, <1>4, <1>8, <1>9, <2>1, <2>2
  <2>3. CASE ~(4 <= k)
    BY <1>3, <1>4, <1>8, <1>9, <2>3
  <2> QED
    BY <2>2, <2>3
<1>14. SetAt(f, q, Cap(n))
  BY <1>4, <1>7, <1>11, <1>12, <1>13 DEF SetAt, size, count
<1>15. k = Len(g) => count = top /\ q + 4 + 4 * count = q + k
  <2> SUFFICES ASSUME k = Len(g) PROVE count = top /\ q + 4 + 4 * count = q + k
    OBVIOUS
  <2>1. k = 4 + 4 * top
    BY <1>1
  <2> QED
    BY <1>3, <1>4, <1>9, <2>1
<1>16. k < Len(g) => q + 4 + 4 * count > Len(f)
  BY <1>1, <1>3, <1>4, <1>9
<1> QED
  BY <1>14, <1>15, <1>16 DEF s, g, top, count


(* What is written for each slot of the store. *)
StoreSlots(t) ==
  [j \in 1 .. t.size |-> IF Iterated(t, j - 1) THEN KeyWrites(t.entries[j - 1]) ELSE <<>>]

LEMMA StoreEntry ==
  ASSUME NEW t, NEW n, GoodStore(t, n), NEW j \in LiveSlots(t)
  PROVE  /\ ShownEntry(t.entries[j], n)
         /\ HasFields(t) => t.entries[j].ptr_value.n_entries > 0
<1>1. IsTableOf(t, SetsIn(t)) /\ \A s \in SetsIn(t) : GoodSet(s, n)
  BY DEF GoodStore, Kept
<1>2. /\ t.entries[j].key \in Keys /\ t.entries[j].ptr_value \in SetsIn(t)
      /\ t.entries[j] # DELETED
  BY <1>1, TableFacts DEF LiveSlots, Live
<1> QED
  BY <1>1, <1>2 DEF ShownEntry, HasFields

LEMMA StoreJoins ==
  ASSUME NEW t, NEW n, GoodStore(t, n)
  PROVE  /\ Len(StoreSlots(t)) = t.size
         /\ Joins(Concatenated(StoreSlots(t)), StoreSlots(t), Write)
         /\ \A j \in 0 .. t.size - 1 :
              StoreSlots(t)[j + 1] = IF j \in LiveSlots(t) \/ t.entries[j] = DELETED
                                     THEN KeyWrites(t.entries[j]) ELSE <<>>
<1>1. IsTableOf(t, SetsIn(t))
  BY DEF GoodStore, Kept
<1>2. t.size \in Nat /\ \A j \in 0 .. t.size - 1 : Live(t.entries[j]) <=> j \in LiveSlots(t)
  BY <1>1, TableFacts
<1>3. ASSUME NEW j \in 0 .. t.size - 1
      PROVE  StoreSlots(t)[j + 1] = IF j \in LiveSlots(t) \/ t.entries[j] = DELETED
                                    THEN KeyWrites(t.entries[j]) ELSE <<>>
  <2>1. j + 1 \in 1 .. t.size /\ (j + 1) - 1 = j
    BY <1>2
  <2>2. StoreSlots(t)[j + 1] = IF Iterated(t, j) THEN KeyWrites(t.entries[j]) ELSE <<>>
    BY <2>1 DEF StoreSlots
  <2>3. Iterated(t, j) <=> j \in LiveSlots(t) \/ t.entries[j] = DELETED
    BY <1>2, DeletedAssumption DEF Iterated, Live
  <2> QED
    BY <2>2, <2>3
<1>4. ASSUME NEW j \in 0 .. t.size - 1 PROVE StoreSlots(t)[j + 1] \in Seq(Write)
  <2>1. CASE j \in LiveSlots(t)
    <3>1. ShownEntry(t.entries[j], n)
      BY <2>1, StoreEntry
    <3>2. KeyWrites(t.entries[j]) \in Seq(Write)
      BY <3>1, KeyWritesFacts DEF ShownEntry, GoodSet, Kept
    <3> QED
      BY <1>3, <2>1, <3>2
  <2>2. CASE t.entries[j] = DELETED
    BY <1>3, <2>2, TombstoneWrites
  <2>3. CASE ~(j \in LiveSlots(t) \/ t.entries[j] = DELETED)
    <3>1. StoreSlots(t)[j + 1] = <<>>
      BY <1>3, <2>3, Zenon
    <3> QED
      BY <3>1
  <2> QED
    BY <2>1, <2>2, <2>3
<1>5. ASSUME NEW j \in 1 .. t.size PROVE StoreSlots(t)[j] \in Seq(Write)
  <2>1. j - 1 \in 0 .. t.size - 1 /\ (j - 1) + 1 = j
    BY <1>2
  <2> QED
    BY <1>4, <2>1
<1>6. Len(StoreSlots(t)) = t.size
  <2>1. StoreSlots(t) \in [1 .. t.size -> Seq(Write)]
    BY <1>5 DEF StoreSlots
  <2> QED
    BY <1>2, <2>1
<1> QED
  BY <1>2, <1>3, <1>5, <1>6 DEF Joins

(* The object f holds the counts of the store t and the first of the       *)
(* writes c for its slots.                                                 *)
Cut(t, f, c) ==
  /\ f \in Seq(Datum) /\ c \in Seq(Write)
  /\ Len(f) \in Nat /\ Len(c) \in Nat /\ 2 <= Len(f) /\ Len(f) <= 2 + Len(c)
  /\ At(f, 1, 0) = t.size /\ At(f, 2, 0) = t.n_entries
  /\ \A p \in 1 .. Len(c) : 2 + p <= Len(f) => f[2 + p] = c[p].data

(* The key of the first entry from slot n on begins where the writes for   *)
(* the slots before it end, or past the end.                               *)
Aligned(t, f, C, n) ==
  LET p == Positions(f)[Cardinality(Before(t, n))]
  IN  p \in Nat /\ IF Len(f) >= 2 + Len(C[n]) THEN p = 3 + Len(C[n]) ELSE p > Len(f)

LEMMA StorePrefixes ==
  ASSUME NEW t, NEW m, GoodStore(t, m), NEW C, C = Concatenated(StoreSlots(t)),
         NEW n \in 0 .. t.size - 1
  PROVE  /\ C[n] \in Seq(Write) /\ C[n + 1] \in Seq(Write)
         /\ StoreSlots(t)[n + 1] \in Seq(Write)
         /\ Appended(C[n + 1], C[n], StoreSlots(t)[n + 1])
         /\ Begins(C[t.size], C[n + 1])
         /\ StoreSlots(t)[n + 1] = IF n \in LiveSlots(t) \/ t.entries[n] = DELETED
                                   THEN KeyWrites(t.entries[n]) ELSE <<>>
<1>1. t.size \in Nat
  BY TableFacts DEF GoodStore, Kept
<1>2. /\ Len(StoreSlots(t)) = t.size /\ Joins(C, StoreSlots(t), Write)
      /\ StoreSlots(t)[n + 1] = IF n \in LiveSlots(t) \/ t.entries[n] = DELETED
                                THEN KeyWrites(t.entries[n]) ELSE <<>>
  BY StoreJoins
<1>3. n \in 0 .. t.size /\ n + 1 \in 0 .. t.size /\ t.size \in 0 .. t.size /\ n + 1 \in 0 .. t.size
  BY <1>1
<1>4. /\ C[n] \in Seq(Write) /\ C[n + 1] \in Seq(Write)
      /\ StoreSlots(t)[n + 1] \in Seq(Write) /\ Follows(C[n + 1], C[n], StoreSlots(t)[n + 1])
  BY <1>2, <1>3, ConcatenatedNext
<1>5. Appended(C[n + 1], C[n], StoreSlots(t)[n + 1])
  BY <1>4, FollowsAppended, Zenon
<1>6. Begins(C[t.size], C[n + 1])
  BY <1>2, <1>3, ConcatenatedPrefix
<1> QED
  BY <1>2, <1>4, <1>5, <1>6

LEMMA EntryLength ==
  ASSUME NEW e, NEW n, ShownEntry(e, n)
  PROVE  KeyWrites(e) \in Seq(Write) /\ Len(KeyWrites(e)) \in Nat /\ Len(KeyWrites(e)) >= 2
<1>1. /\ e # DELETED /\ e.key \in Keys
      /\ IsTableOf(e.ptr_value, Fields) /\ Counted(e.ptr_value) /\ UniqueBut(e.ptr_value, {Empty})
  BY DEF ShownEntry, GoodSet, Kept
<1>2. KeyWrites(e) \in Seq(Write) /\ Len(KeyWrites(e)) = 2 + Len(SetWrites(e.ptr_value))
  BY <1>1, KeyWritesFacts
<1>3. SetWrites(e.ptr_value) \in Seq(Write)
  BY <1>1, SetWritesFacts
<1>4. Len(SetWrites(e.ptr_value)) \in Nat
  BY <1>3
<1> QED
  BY <1>2, <1>4

(* What the object shows of a key and its set. *)
LEMMA SlotShown ==
  ASSUME NEW t, NEW m, GoodStore(t, m), NEW C, C = Concatenated(StoreSlots(t)),
         NEW f, Cut(t, f, C[t.size]), NEW n \in 0 .. t.size - 1, n \in LiveSlots(t),
         Aligned(t, f, C, n)
  PROVE  \E k \in Nat :
           /\ Shown(f, Positions(f)[Cardinality(Before(t, n))], KeyWrites(t.entries[n]), k)
           /\ k = Len(KeyWrites(t.entries[n])) <=> Len(f) >= 2 + Len(C[n + 1])
           /\ Len(C[n + 1]) = Len(C[n]) + Len(KeyWrites(t.entries[n]))
<1> DEFINE q == Positions(f)[Cardinality(Before(t, n))]
           g == KeyWrites(t.entries[n])
           c == C[t.size]
           a == C[n]
           b == C[n + 1]
<1>1. /\ Appended(b, a, g) /\ Begins(c, b)
  BY StorePrefixes
<1>2. ShownEntry(t.entries[n], m)
  BY StoreEntry
<1>3. Len(g) \in Nat /\ Len(g) >= 2
  BY <1>2, EntryLength
<1>4. q \in Nat /\ IF Len(f) >= 2 + Len(a) THEN q = 3 + Len(a) ELSE q > Len(f)
  BY DEF Aligned
<1>5. /\ Len(f) \in Nat /\ Len(c) \in Nat /\ Len(f) <= 2 + Len(c) /\ 2 <= Len(f)
      /\ \A p \in 1 .. Len(c) : 2 + p <= Len(f) => f[2 + p] = c[p].data
  BY DEF Cut
<1> HIDE DEF q, g, c, a, b
<1>6. /\ Len(a) \in Nat /\ Len(b) = Len(a) + Len(g)
      /\ \A x \in 1 .. Len(g) : b[Len(a) + x] = g[x]
      /\ Len(b) <= Len(c)
      /\ \A x \in 1 .. Len(b) : c[x] = b[x]
  BY <1>1 DEF Appended, Begins
<1>7. CASE ~(Len(f) >= 2 + Len(a))
  <2>1. Shown(f, q, g, 0)
    BY <1>3, <1>4, <1>5, <1>7 DEF Shown
  <2>2. 0 # Len(g) /\ ~(Len(f) >= 2 + Len(b))
    BY <1>3, <1>5, <1>6, <1>7
  <2> QED
    BY <1>6, <2>1, <2>2 DEF q, g, a, b
<1>8. CASE Len(f) >= 2 + Len(a)
  <2> DEFINE k == IF Len(f) >= 2 + Len(b) THEN Len(g) ELSE Len(f) - (2 + Len(a))
  <2>1. q = 3 + Len(a) /\ q \in Nat /\ q >= 1
    BY <1>4, <1>6, <1>8
  <2>2. k \in 0 .. Len(g) /\ (k = Len(g) <=> Len(f) >= 2 + Len(b))
        /\ 2 + Len(a) + k <= Len(f) /\ (k < Len(g) => Len(f) < q + k)
    <3> DEFINE lf == Len(f)
               la == Len(a)
               lb == Len(b)
               lg == Len(g)
    <3>1. /\ lf \in Nat /\ la \in Nat /\ lg \in Nat /\ lb = la + lg /\ lf >= 2 + la /\ q = 3 + la
      BY <1>3, <1>5, <1>6, <1>8, <2>1
    <3>2. k = IF lf >= 2 + lb THEN lg ELSE lf - (2 + la)
      OBVIOUS
    <3> HIDE DEF k, lf, la, lb, lg
    <3>3. k \in 0 .. lg /\ (k = lg <=> lf >= 2 + lb)
          /\ 2 + la + k <= lf /\ (k < lg => lf < q + k)
      <4>1. CASE lf >= 2 + lb
        BY <3>1, <3>2, <4>1
      <4>2. CASE ~(lf >= 2 + lb)
        BY <3>1, <3>2, <4>2
      <4> QED
        BY <4>1, <4>2
    <3> QED
      BY <3>3 DEF lf, la, lb, lg
  <2> HIDE DEF k
  <2>3. ASSUME NEW x \in 1 .. k PROVE (q + x) - 1 \in 1 .. Len(f) /\ f[(q + x) - 1] = g[x].data
    <3>1. /\ (q + x) - 1 = 2 + (Len(a) + x) /\ x \in 1 .. Len(g)
          /\ Len(a) + x \in 1 .. Len(b) /\ Len(a) + x \in 1 .. Len(c)
          /\ 2 + (Len(a) + x) <= Len(f) /\ 2 + (Len(a) + x) \in 1 .. Len(f)
      BY <1>3, <1>5, <1>6, <2>1, <2>2
    <3>2. c[Len(a) + x] = b[Len(a) + x] /\ b[Len(a) + x] = g[x]
      BY <1>6, <3>1
    <3>3. f[2 + (Len(a) + x)] = c[Len(a) + x].data
      BY <1>5, <3>1
    <3> QED
      BY <3>1, <3>2, <3>3
  <2>4. Shown(f, q, g, k)
    BY <2>1, <2>2, <2>3 DEF Shown
  <2>5. k \in Nat
    BY <1>3, <2>2
  <2> QED
    BY <1>6, <2>2, <2>4, <2>5 DEF q, g, a, b
<1> QED
  BY <1>7, <1>8


LEMMA AlignedNext ==
  ASSUME NEW t, NEW m \in 0 .. MaxStarts, m > 0, GoodStore(t, m),
         NEW C, C = Concatenated(StoreSlots(t)),
         NEW f, Cut(t, f, C[t.size]), NEW n \in 0 .. t.size - 1, Aligned(t, f, C, n)
  PROVE  Aligned(t, f, C, n + 1)
<1> DEFINE b == Cardinality(Before(t, n))
           q == Positions(f)[b]
           w == StoreSlots(t)[n + 1]
           la == Len(C[n])
           lb == Len(C[n + 1])
           lw == Len(w)
           lf == Len(f)
<1>1. IsTableOf(t, SetsIn(t)) /\ t.n_entries = Cardinality(LiveSlots(t))
  BY DEF GoodStore, Kept, Counted
<1>2. t.size \in Nat /\ t.n_entries \in Nat /\ n \in 0 .. t.size /\ n < t.size
  BY <1>1, TableFacts
<1>3. /\ b \in Nat
      /\ Cardinality(Before(t, n + 1)) = IF n \in LiveSlots(t) THEN b + 1 ELSE b
      /\ n \in LiveSlots(t) => b < t.n_entries
  BY <1>1, <1>2, BeforeCount
<1>4. /\ C[n] \in Seq(Write) /\ w \in Seq(Write) /\ Appended(C[n + 1], C[n], w)
      /\ Begins(C[t.size], C[n + 1])
      /\ w = IF n \in LiveSlots(t) \/ t.entries[n] = DELETED
             THEN KeyWrites(t.entries[n]) ELSE <<>>
  BY StorePrefixes
<1>5. la \in Nat /\ lw \in Nat /\ lb = la + lw
  BY <1>4 DEF Appended
<1>6. q \in Nat /\ IF lf >= 2 + la THEN q = 3 + la ELSE q > lf
  BY DEF Aligned
<1>7. lf \in Nat /\ At(f, 2, 0) = t.n_entries /\ f \in Seq(Datum)
  BY DEF Cut
<1>8. CASE n \in LiveSlots(t)
  <2> DEFINE e == t.entries[n]
             v == q + 4 + 4 * At(f, q + 3, 0)
  <2>1. w = KeyWrites(e)
    BY <1>4, <1>8
  <2>2. PICK k \in Nat :
          /\ Shown(f, q, KeyWrites(e), k)
          /\ k = Len(KeyWrites(e)) <=> lf >= 2 + lb
          /\ lb = la + Len(KeyWrites(e))
    BY <1>8, SlotShown
  <2>3. ShownEntry(e, m)
    BY <1>8, StoreEntry
  <2>4. /\ SetAt(f, q, Cap(m))
        /\ k = Len(KeyWrites(e)) => v = q + k
        /\ k < Len(KeyWrites(e)) => v > lf
    BY <1>7, <2>2, <2>3, SetShown
  <2>5. k \in 0 .. lw
    BY <2>1, <2>2 DEF Shown
  <2>6. At(f, q + 3, 0) \in Nat
    BY <2>4 DEF SetAt
  <2>7. Positions(f)[b + 1] = v
    <3>1. b + 1 \in 0 .. At(f, 2, 0) /\ b + 1 # 0 /\ (b + 1) - 1 = b
      BY <1>2, <1>3, <1>7, <1>8
    <3>2. At(f, 2, 0) \in Nat
      BY <1>2, <1>7
    <3>3. Positions(f)[b + 1] =
            Positions(f)[(b + 1) - 1] + 4 + 4 * At(f, Positions(f)[(b + 1) - 1] + 3, 0)
      BY <3>1, <3>2, PositionsDefined
    <3> QED
      BY <3>1, <3>3
  <2>8. k = lw <=> lf >= 2 + lb
    BY <2>1, <2>2
  <2>9. /\ k = lw => v = q + k
        /\ k < lw => v > lf
    BY <2>1, <2>4
  <2>10. v \in Nat
    <3> DEFINE c == At(f, q + 3, 0)
    <3>1. q \in Nat /\ c \in Nat
      BY <1>6, <2>6
    <3>2. v = q + 4 + 4 * c
      OBVIOUS
    <3> HIDE DEF v, q, c
    <3> QED
      BY <3>1, <3>2
  <2> HIDE DEF v
  <2>11. v \in Nat /\ IF lf >= 2 + lb THEN v = 3 + lb ELSE v > lf
    <3> HIDE DEF q, la, lb, lw, lf
    <3>1. CASE lf >= 2 + lb
      BY <1>5, <1>6, <1>7, <2>5, <2>8, <2>9, <2>10, <3>1
    <3>2. CASE ~(lf >= 2 + lb)
      BY <1>5, <1>7, <2>5, <2>8, <2>9, <2>10, <3>2
    <3> QED
      BY <3>1, <3>2
  <2>12. Positions(f)[Cardinality(Before(t, n + 1))] = v
    BY <1>3, <1>8, <2>7
  <2> QED
    BY <2>11, <2>12 DEF Aligned
<1>9. CASE n \notin LiveSlots(t) /\ t.entries[n] = DELETED
  <2>1. w = KeyWrites(DELETED)
    BY <1>4, <1>9
  <2>2. lw = 1 /\ w[1].data = NULL
    BY <2>1, TombstoneWrites
  <2>3. ~(lf >= 2 + lb)
    <3> SUFFICES ASSUME lf >= 2 + lb PROVE FALSE
      OBVIOUS
    <3>1. C[n + 1][la + 1] = w[1]
      BY <1>4, <2>2 DEF Appended
    <3>2. C[t.size][la + 1] = C[n + 1][la + 1] /\ la + 1 \in 1 .. Len(C[t.size])
      <4> DEFINE lc == Len(C[t.size])
                 a == C[t.size]
                 b1 == C[n + 1]
      <4>1. lb \in Nat /\ lc \in Nat /\ lb <= lc /\ \A p \in 1 .. lb : a[p] = b1[p]
        BY <1>4 DEF Begins
      <4>2. la \in Nat /\ lb = la + 1
        BY <1>5, <2>2
      <4> HIDE DEF la, lb, lc, a, b1
      <4>3. a[la + 1] = b1[la + 1] /\ la + 1 \in 1 .. lc
        BY <4>1, <4>2
      <4> QED
        BY <4>3 DEF a, b1, lc
    <3>3. f[2 + (la + 1)] = C[t.size][la + 1].data
      <4>1. 2 + (la + 1) <= lf
        BY <1>5, <2>2
      <4> QED
        BY <3>2, <4>1 DEF Cut
    <3>4. 2 + (la + 1) \in 1 .. Len(f)
      BY <1>5, <1>7, <2>2
    <3>5. f[2 + (la + 1)] \in Datum
      BY <1>7, <3>4
    <3>6. NULL \notin Datum
      BY PointersAssumption, NullAssumption DEF Datum
    <3> QED
      BY <2>2, <3>1, <3>2, <3>3, <3>5, <3>6
  <2>4. q > lf
    <3> HIDE DEF q, la, lb, lw, lf
    <3> QED
      BY <1>5, <1>6, <1>7, <2>2, <2>3
  <2>5. Positions(f)[Cardinality(Before(t, n + 1))] = q
    BY <1>3, <1>9
  <2> QED
    BY <1>6, <2>3, <2>4, <2>5 DEF Aligned
<1>10. CASE ~(n \in LiveSlots(t) \/ t.entries[n] = DELETED)
  <2>1. w = <<>>
    BY <1>4, <1>10, Zenon
  <2>2. lw = 0
    BY <2>1
  <2>3. lb = la
    BY <1>5, <2>2
  <2>4. Positions(f)[Cardinality(Before(t, n + 1))] = q
    BY <1>3, <1>10
  <2> QED
    BY <1>6, <2>3, <2>4 DEF Aligned
<1> QED
  BY <1>8, <1>9, <1>10

LEMMA AlignedAll ==
  ASSUME NEW t, NEW m \in 0 .. MaxStarts, m > 0, GoodStore(t, m),
         NEW C, C = Concatenated(StoreSlots(t)),
         NEW f, Cut(t, f, C[t.size]), NEW n \in 0 .. t.size
  PROVE  Aligned(t, f, C, n)
<1> DEFINE P(i) == Aligned(t, f, C, i)
           T == {i \in 0 .. t.size : ~P(i)}
<1>1. IsTableOf(t, SetsIn(t)) /\ t.size \in Nat /\ t.n_entries \in Nat /\ 0 \in 0 .. t.size
  BY TableFacts DEF GoodStore, Kept
<1>2. P(0)
  <2>1. Cardinality(Before(t, 0)) = 0
    BY <1>1, BeforeCount
  <2>2. C[0] = <<>>
    BY StoreJoins, ConcatenatedNext
  <2>3. Len(C[0]) = 0
    BY <2>2
  <2>4. At(f, 2, 0) = t.n_entries /\ 2 <= Len(f) /\ Len(f) \in Nat
    BY DEF Cut
  <2>5. Positions(f)[0] = 3
    <3>1. At(f, 2, 0) \in Nat /\ 0 \in 0 .. At(f, 2, 0)
      BY <1>1, <2>4
    <3> QED
      BY <3>1, PositionsDefined
  <2>6. Positions(f)[0] \in Nat /\ IF Len(f) >= 2 + Len(C[0]) THEN Positions(f)[0] = 3 + Len(C[0])
                                   ELSE Positions(f)[0] > Len(f)
    BY <2>3, <2>4, <2>5
  <2> QED
    BY <2>1, <2>6 DEF Aligned
<1>3. ASSUME NEW i \in 0 .. t.size - 1, P(i) PROVE P(i + 1)
  BY <1>3, AlignedNext
<1>4. T = {}
  <2> SUFFICES ASSUME T # {} PROVE FALSE
    OBVIOUS
  <2>1. T \subseteq Nat
    OBVIOUS
  <2>2. PICK i \in T : \A x \in T : i <= x
    BY <2>1, LeastNatural
  <2>3. i \in 0 .. t.size /\ ~P(i)
    OBVIOUS
  <2> HIDE DEF P
  <2>4. i # 0
    BY <1>2, <2>3
  <2>5. i - 1 \in 0 .. t.size - 1 /\ i - 1 \in 0 .. t.size /\ ~(i <= i - 1) /\ (i - 1) + 1 = i
    BY <1>1, <2>3, <2>4
  <2>6. P(i - 1)
    BY <2>2, <2>5
  <2> QED
    BY <1>3, <2>3, <2>5, <2>6
<1> QED
  BY <1>4

(* An object cut anywhere after its counts can be loaded. *)
LEMMA CutReadable ==
  ASSUME NEW t, NEW m \in 0 .. MaxStarts, m > 0, GoodStore(t, m),
         NEW C, C = Concatenated(StoreSlots(t)), NEW f, Cut(t, f, C[t.size])
  PROVE  /\ Readable(f, Cap(m))
         /\ Len(f) = 2 + Len(C[t.size]) /\ HasFields(t) => AllFilled(f)
<1> DEFINE top == t.n_entries
           B(n) == Cardinality(Before(t, n))
<1>1. IsTableOf(t, SetsIn(t)) /\ top = Cardinality(LiveSlots(t)) /\ t.size \in Primes
      /\ top \in Nat /\ LiveSlots(t) \subseteq 0 .. t.size - 1 /\ t.size \in Nat
  BY TableFacts DEF GoodStore, Kept, Counted
<1>2. At(f, 1, 0) = t.size /\ At(f, 2, 0) = top /\ f \in Seq(Datum)
  BY DEF Cut
<1>3. ASSUME NEW i \in 0 .. top - 1
      PROVE  /\ SetAt(f, Positions(f)[i], Cap(m))
             /\ Len(f) = 2 + Len(C[t.size]) /\ HasFields(t) =>
                  At(f, Positions(f)[i] + 3, 0) > 0
  <2>1. PICK j \in LiveSlots(t) : B(j) = i
    BY <1>1, BeforeSurjective
  <2>2. j \in 0 .. t.size - 1 /\ j \in 0 .. t.size
    BY <1>1
  <2>3. Aligned(t, f, C, j)
    BY <2>2, AlignedAll
  <2> DEFINE e == t.entries[j]
             g == KeyWrites(e)
             q == Positions(f)[i]
  <2>4. PICK k \in Nat : Shown(f, q, g, k) /\ (k = Len(g) <=> Len(f) >= 2 + Len(C[j + 1]))
    <3>1. \E k \in Nat :
            /\ Shown(f, Positions(f)[B(j)], g, k)
            /\ k = Len(g) <=> Len(f) >= 2 + Len(C[j + 1])
            /\ Len(C[j + 1]) = Len(C[j]) + Len(g)
      BY <2>2, <2>3, SlotShown
    <3> QED
      BY <2>1, <3>1, Zenon
  <2>5. ShownEntry(e, m) /\ (HasFields(t) => e.ptr_value.n_entries > 0)
    BY StoreEntry
  <2>6. /\ SetAt(f, q, Cap(m))
        /\ k = Len(g) => At(f, q + 3, 0) = e.ptr_value.n_entries
    BY <1>2, <2>4, <2>5, SetShown
  <2>7. Len(C[j + 1]) \in Nat /\ Len(C[j + 1]) <= Len(C[t.size]) /\ Len(C[t.size]) \in Nat
    BY <2>2, StorePrefixes DEF Begins
  <2> QED
    BY <2>4, <2>5, <2>6, <2>7
<1> QED
  BY <1>1, <1>2, <1>3 DEF Readable, AllFilled


(* The object f holds the first of the writes w. *)
Partly(f, w) ==
  /\ f \in Seq(Datum) /\ Len(f) \in Nat /\ Len(f) <= Len(w)
  /\ \A p \in 1 .. Len(f) : f[p] = w[p].data

LEMMA StoreWritesJoined ==
  ASSUME NEW t, NEW m, GoodStore(t, m)
  PROVE  /\ StoreWrites(t) \in Seq(Write)
         /\ \E c : /\ c = Concatenated(StoreSlots(t))[t.size] /\ c \in Seq(Write)
                   /\ Len(c) \in Nat /\ Len(StoreWrites(t)) = 2 + Len(c)
                   /\ \A p \in 1 .. Len(c) : StoreWrites(t)[2 + p] = c[p]
                   /\ StoreWrites(t)[1].data = t.size
                   /\ StoreWrites(t)[2].data = t.n_entries
<1> DEFINE w == StoreWrites(t)
           C == Concatenated(StoreSlots(t))
           c == C[t.size]
           a == Writes(<<t.size, t.n_entries>>, 2)
<1>1. IsTableOf(t, SetsIn(t)) /\ t.size \in 0 .. t.size
  BY TableFacts DEF GoodStore, Kept
<1>2. w = a \o c
  BY DEF StoreWrites, TableWrites, StoreSlots
<1>3. a \in Seq(Write) /\ Len(a) = 2 /\ a[1].data = t.size /\ a[2].data = t.n_entries
  BY <1>1, MetadataFacts
<1>4. Len(StoreSlots(t)) = t.size /\ Joins(C, StoreSlots(t), Write)
  BY StoreJoins
<1> HIDE DEF C
<1>5. c \in Seq(Write)
  BY <1>1, <1>4, ConcatenatedNext
<1> HIDE DEF w, a, c
<1>6. Follows(w, a, c)
  BY <1>2 DEF Follows
<1>7. /\ w \in Seq(Write) /\ Begins(w, a) /\ Len(c) \in Nat /\ Len(w) = 2 + Len(c)
      /\ \A p \in 1 .. Len(c) : w[2 + p] = c[p]
  BY <1>3, <1>5, <1>6, AfterTwo
<1>8. w[1].data = t.size /\ w[2].data = t.n_entries
  BY <1>3, <1>7 DEF Begins
<1> QED
  BY <1>5, <1>7, <1>8 DEF w, c, C

LEMMA PartlyReadable ==
  ASSUME NEW t, NEW m \in 0 .. MaxStarts, m > 0, GoodStore(t, m),
         NEW f, Partly(f, StoreWrites(t))
  PROVE  /\ Readable(f, Cap(m))
         /\ Len(f) = Len(StoreWrites(t)) /\ HasFields(t) => AllFilled(f)
<1> DEFINE w == StoreWrites(t)
           C == Concatenated(StoreSlots(t))
<1>1. PICK c : /\ c = C[t.size] /\ c \in Seq(Write)
               /\ Len(c) \in Nat /\ Len(w) = 2 + Len(c)
               /\ \A p \in 1 .. Len(c) : w[2 + p] = c[p]
               /\ w[1].data = t.size /\ w[2].data = t.n_entries
  BY StoreWritesJoined
<1>2. /\ f \in Seq(Datum) /\ Len(f) \in Nat /\ Len(f) <= Len(w)
      /\ \A p \in 1 .. Len(f) : f[p] = w[p].data
      /\ DOMAIN f = 1 .. Len(f)
  BY LenProperties DEF Partly
<1>3. t.size \in Primes /\ t.n_entries \in Nat
  BY TableFacts DEF GoodStore, Kept
<1> HIDE DEF w
<1>4. CASE Len(f) >= 2
  <2>1. At(f, 1, 0) = t.size /\ At(f, 2, 0) = t.n_entries
    BY <1>1, <1>2, <1>4 DEF At
  <2>2. ASSUME NEW p \in 1 .. Len(c), 2 + p <= Len(f) PROVE f[2 + p] = c[p].data
    <3>1. 2 + p \in 1 .. Len(f)
      BY <1>1, <1>2, <2>2
    <3> QED
      BY <1>1, <1>2, <2>2, <3>1
  <2>3. Cut(t, f, c)
    BY <1>1, <1>2, <1>4, <2>1, <2>2 DEF Cut
  <2>4. /\ Readable(f, Cap(m))
        /\ Len(f) = 2 + Len(c) /\ HasFields(t) => AllFilled(f)
    <3>1. Cut(t, f, C[t.size]) /\ c = C[t.size]
      BY <1>1, <2>3
    <3>2. /\ Readable(f, Cap(m))
          /\ Len(f) = 2 + Len(C[t.size]) /\ HasFields(t) => AllFilled(f)
      BY <3>1, CutReadable
    <3> QED
      BY <3>1, <3>2
  <2> QED
    BY <1>1, <2>4 DEF w
<1>5. CASE ~(Len(f) >= 2)
  <2>1. 2 \notin DOMAIN f /\ Len(f) # Len(w)
    <3> DEFINE lf == Len(f)
               lw == Len(w)
               lc == Len(c)
    <3>1. lf \in Nat /\ lc \in Nat /\ lw = 2 + lc /\ DOMAIN f = 1 .. lf /\ ~(lf >= 2)
      BY <1>1, <1>2, <1>5
    <3> HIDE DEF lf, lw, lc
    <3>2. 2 \notin 1 .. lf /\ lf # lw
      BY <3>1
    <3> QED
      BY <3>1, <3>2 DEF lf, lw
  <2>2. At(f, 2, 0) = 0
    BY <2>1 DEF At
  <2>3. At(f, 1, 0) \in Primes \cup {0}
    <3>1. CASE 1 \in DOMAIN f
      <4>1. f[1] = t.size
        BY <1>1, <1>2, <3>1
      <4> QED
        BY <1>3, <3>1, <4>1 DEF At
    <3>2. CASE 1 \notin DOMAIN f
      BY <3>2 DEF At
    <3> QED
      BY <3>1, <3>2
  <2> QED
    BY <2>1, <2>2, <2>3 DEF Readable, w
<1> QED
  BY <1>4, <1>5

LEMMA DataFacts ==
  ASSUME NEW w \in Seq(Write)
  PROVE  /\ Data(w) \in Seq(Datum \cup {NULL})
         /\ Len(Data(w)) = Len(w) /\ Len(w) \in Nat
         /\ \A p \in 1 .. Len(w) : Data(w)[p] = w[p].data
<1>1. Len(w) \in Nat /\ DOMAIN w = 1 .. Len(w) /\ \A p \in 1 .. Len(w) : w[p] \in Write
  BY LenProperties
<1>2. Data(w) = [p \in 1 .. Len(w) |-> w[p].data]
  BY <1>1 DEF Data
<1>3. \A p \in 1 .. Len(w) : w[p].data \in Datum \cup {NULL}
  BY <1>1 DEF Write
<1> DEFINE d == Data(w)
           k == Len(w)
<1>4. k \in Nat /\ d \in [1 .. k -> Datum \cup {NULL}]
  BY <1>1, <1>2, <1>3
<1>5. \A p \in 1 .. k : d[p] = w[p].data
  BY <1>2
<1> HIDE DEF d, k
<1>6. d \in Seq(Datum \cup {NULL}) /\ Len(d) = k
  BY <1>4
<1> QED
  BY <1>4, <1>5, <1>6 DEF d, k

(* A clean beginning of what is written is such an object. *)
LEMMA CleanPart ==
  ASSUME NEW w \in Seq(Write), NEW m \in 0 .. Len(w), Clean(Data(w), m)
  PROVE  Partly(SubSeq(Data(w), 1, m), w) /\ Len(SubSeq(Data(w), 1, m)) = m
<1> DEFINE d == Data(w)
           f == SubSeq(d, 1, m)
<1>1. /\ d \in Seq(Datum \cup {NULL}) /\ Len(w) \in Nat
      /\ Len(d) = Len(w)
      /\ \A p \in 1 .. Len(w) : d[p] = w[p].data
  BY DataFacts
<1> HIDE DEF d
<1>2. m \in Int /\ 1 \in Int /\ m \in Nat /\ m <= Len(w) /\ (m - 1) + 1 = m
  BY <1>1
<1>3. \A i \in 1 .. m : d[i] \in Datum
  <2> SUFFICES ASSUME NEW i \in 1 .. m PROVE d[i] \in Datum
    OBVIOUS
  <2>1. i \in 1 .. Len(d) /\ d[i] # NULL
    BY <1>1, <1>2 DEF Clean, d
  <2> QED
    BY <1>1, <2>1
<1>4. /\ f \in Seq(Datum)
      /\ Len(f) = IF 1 <= m THEN (m - 1) + 1 ELSE 0
      /\ \A i \in 1 .. (m - 1) + 1 : f[i] = d[(1 + i) - 1]
  BY <1>2, <1>3, SubSeqProperties
<1> HIDE DEF f
<1>5. Len(f) = m
  BY <1>2, <1>4
<1>6. \A p \in 1 .. m : f[p] = w[p].data
  <2> SUFFICES ASSUME NEW p \in 1 .. m PROVE f[p] = w[p].data
    OBVIOUS
  <2>1. (1 + p) - 1 = p /\ p \in 1 .. (m - 1) + 1 /\ p \in 1 .. Len(w)
    BY <1>1, <1>2
  <2> QED
    BY <1>1, <1>4, <2>1
<1> QED
  BY <1>2, <1>4, <1>5, <1>6 DEF Partly, f, d

(* TA_DestroyEntryPoint begins to save. *)
LEMMA SaveBegins ==
  ASSUME NEW t, NEW m \in 0 .. MaxStarts, m > 0, GoodStore(t, m)
  PROVE  /\ StoreWrites(t) \in Seq(Write)
         /\ Savable(<<>>, StoreWrites(t), Cap(m))
         /\ HasFields(t) => Filled(<<>>, StoreWrites(t))
<1> DEFINE w == StoreWrites(t)
           d == Data(w)
<1>1. w \in Seq(Write)
  BY StoreWritesJoined
<1>2. /\ d \in Seq(Datum \cup {NULL}) /\ Len(w) \in Nat /\ Len(d) = Len(w)
      /\ <<>> \o d = d
  BY <1>1, DataFacts, ConcatEmptySeq
<1>3. Len(<<>>) = 0
  OBVIOUS
<1>4. ASSUME NEW n \in 0 .. Len(w), Clean(d, n)
      PROVE  /\ Readable(SubSeq(d, 1, n), Cap(m))
             /\ n = Len(w) /\ HasFields(t) => AllFilled(d)
  <2>1. Partly(SubSeq(d, 1, n), w) /\ Len(SubSeq(d, 1, n)) = n
    BY <1>1, <1>4, CleanPart
  <2>2. /\ Readable(SubSeq(d, 1, n), Cap(m))
        /\ Len(SubSeq(d, 1, n)) = Len(w) /\ HasFields(t) => AllFilled(SubSeq(d, 1, n))
    <3> HIDE DEF d
    <3> QED
      BY <2>1, PartlyReadable
  <2>3. SubSeq(d, 1, Len(d)) = d
    BY <1>2, SubSeqFull
  <2> QED
    BY <1>2, <2>1, <2>2, <2>3
<1>5. Savable(<<>>, w, Cap(m))
  <2>1. 0 + Len(w) = Len(w)
    BY <1>2
  <2>2. \A n \in 0 .. Len(w) : Clean(d, n) => Readable(SubSeq(d, 1, n), Cap(m))
    BY <1>4
  <2> QED
    BY <1>2, <1>3, <2>1, <2>2, Zenon DEF Savable
<1>6. HasFields(t) => Filled(<<>>, w)
  <2>1. 0 + Len(w) = Len(w) /\ Len(w) \in 0 .. Len(w)
    BY <1>2
  <2>2. HasFields(t) /\ Clean(d, Len(w)) => AllFilled(d)
    BY <1>4, <2>1
  <2> QED
    BY <1>2, <1>3, <2>1, <2>2, Zenon DEF Filled
<1> QED
  BY <1>1, <1>5, <1>6


(* A write passes from those to make to those made. *)
LEMMA PassedOn ==
  ASSUME NEW f \in Seq(Datum), NEW w \in Seq(Write), w # <<>>, Head(w).data # NULL
  PROVE  LET g == Append(f, Head(w).data)
         IN  /\ g \in Seq(Datum) /\ Tail(w) \in Seq(Write)
             /\ g \o Data(Tail(w)) = f \o Data(w)
             /\ Len(g) = Len(f) + 1 /\ Len(g) + Len(Tail(w)) = Len(f) + Len(w)
<1> DEFINE S == Datum \cup {NULL}
           x == Head(w).data
           v == Tail(w)
           g == Append(f, x)
           d == Data(w)
           e == Data(v)
<1>1. /\ Len(w) \in Nat \ {0} /\ Len(f) \in Nat /\ f \in Seq(S)
      /\ Head(w) = w[1] /\ w[1] \in Write
  BY EmptySeq, LenProperties, SeqMonotonic
<1>2. v \in Seq(Write) /\ Len(v) = Len(w) - 1 /\ \A i \in 1 .. Len(v) : v[i] = w[i + 1]
  BY HeadTailProperties
<1>3. x \in Datum /\ x \in S
  BY <1>1 DEF Write
<1> HIDE DEF v
<1>4. /\ d \in Seq(S) /\ Len(d) = Len(w) /\ \A p \in 1 .. Len(w) : d[p] = w[p].data
      /\ e \in Seq(S) /\ Len(e) = Len(v) /\ \A p \in 1 .. Len(v) : e[p] = v[p].data
  BY <1>2, DataFacts
<1> HIDE DEF x, d, e
<1>5. g \in Seq(Datum) /\ Len(g) = Len(f) + 1
  BY <1>3, AppendProperties
<1>6. <<x>> \in Seq(S) /\ Len(<<x>>) = 1 /\ <<x>>[1] = x
  BY <1>3
<1>7. <<x>> \o e = d
  <2> DEFINE y == <<x>>
             z == y \o e
  <2>1. y \in Seq(S) /\ Len(y) = 1 /\ y[1] = x
    BY <1>6
  <2> HIDE DEF y
  <2>2. z \in Seq(S) /\ Appended(z, y, e)
    <3> HIDE DEF S
    <3>1. Follows(z, y, e)
      BY DEF Follows
    <3> HIDE DEF z
    <3> QED
      BY <1>4, <2>1, <3>1, FollowsAppended, Zenon
  <2> HIDE DEF z
  <2>3. /\ Len(z) = 1 + Len(e) /\ Len(e) \in Nat /\ z[1] = y[1]
        /\ \A p \in 1 .. Len(e) : z[1 + p] = e[p]
    <3>1. /\ Len(z) = Len(y) + Len(e) /\ Len(e) \in Nat
          /\ \A p \in 1 .. Len(e) : z[Len(y) + p] = e[p]
          /\ \A p \in 1 .. Len(y) : z[p] = y[p]
      BY <2>2, Zenon DEF Appended, Begins
    <3>2. 1 \in 1 .. Len(y)
      BY <2>1
    <3> QED
      BY <2>1, <3>1, <3>2, Zenon
  <2>4. Len(z) = Len(d)
    BY <1>1, <1>2, <1>4, <2>3
  <2>5. ASSUME NEW i \in 1 .. Len(z) PROVE z[i] = d[i]
    <3>1. CASE i = 1
      <4>1. i \in 1 .. Len(w)
        BY <1>1, <3>1
      <4>2. z[i] = x /\ d[i] = w[1].data
        BY <1>4, <2>1, <2>3, <3>1, <4>1
      <4> QED
        BY <1>1, <4>2 DEF x
    <3>2. CASE i # 1
      <4>1. /\ i \in 1 .. Len(w) /\ i - 1 \in 1 .. Len(v) /\ i - 1 \in 1 .. Len(e)
            /\ (i - 1) + 1 = i /\ 1 + (i - 1) = i
        BY <1>1, <1>2, <1>4, <2>3, <3>2
      <4>2. z[i] = e[i - 1] /\ e[i - 1] = v[i - 1].data /\ v[i - 1] = w[(i - 1) + 1]
            /\ d[i] = w[i].data
        BY <1>2, <1>4, <2>3, <4>1
      <4> QED
        BY <4>1, <4>2
    <3> QED
      BY <3>1, <3>2
  <2> QED
    <3>1. z = d
      BY <1>4, <2>2, <2>4, <2>5, SeqEqual
    <3> QED
      BY <3>1 DEF z, y
<1>8. g = f \o <<x>>
  BY <1>3, AppendIsConcat
<1>9. (f \o <<x>>) \o e = f \o (<<x>> \o e)
  BY <1>1, <1>4, <1>6, ConcatAssociative
<1>10. g \o e = f \o d
  BY <1>7, <1>8, <1>9
<1>11. Len(g) + Len(v) = Len(f) + Len(w)
  BY <1>1, <1>2, <1>5
<1> QED
  BY <1>2, <1>5, <1>10, <1>11 DEF x, v, d, e

LEMMA SaveStep ==
  ASSUME NEW f \in Seq(Datum), NEW w \in Seq(Write), w # <<>>, Head(w).data # NULL, NEW most
  PROVE  /\ Append(f, Head(w).data) \in Seq(Datum) /\ Tail(w) \in Seq(Write)
         /\ Savable(f, w, most) => Savable(Append(f, Head(w).data), Tail(w), most)
         /\ Filled(f, w) => Filled(Append(f, Head(w).data), Tail(w))
<1> DEFINE g == Append(f, Head(w).data)
           v == Tail(w)
           d == f \o Data(w)
           top == Len(f) + Len(w)
<1>1. /\ g \in Seq(Datum) /\ v \in Seq(Write)
      /\ g \o Data(v) = d
      /\ Len(g) = Len(f) + 1 /\ Len(g) + Len(v) = top
  BY PassedOn
<1>2. Len(f) \in Nat /\ Len(w) \in Nat
  BY LenProperties
<1> HIDE DEF g, v
<1>3. Savable(f, w, most) => Savable(g, v, most)
  <2> SUFFICES ASSUME Savable(f, w, most) PROVE Savable(g, v, most)
    OBVIOUS
  <2>1. \A m \in Len(f) .. top : Clean(d, m) => Readable(SubSeq(d, 1, m), most)
    BY DEF Savable
  <2> HIDE DEF d
  <2>2. \A m \in Len(f) + 1 .. top : m \in Len(f) .. top
    BY <1>2
  <2> QED
    BY <1>1, <2>1, <2>2 DEF Savable
<1>4. Filled(f, w) => Filled(g, v)
  BY <1>1, Zenon DEF Filled
<1> QED
  BY <1>1, <1>3, <1>4 DEF g, v

(* What the save has written can be loaded, should it stop here. *)
LEMMA SaveStopped ==
  ASSUME NEW f \in Seq(Datum), NEW w \in Seq(Write), NEW most, Savable(f, w, most)
  PROVE  Readable(f, most)
<1> DEFINE S == Datum \cup {NULL}
           e == Data(w)
           d == f \o e
           g == SubSeq(d, 1, Len(f))
<1>1. Len(f) \in Nat /\ Len(w) \in Nat /\ f \in Seq(S)
  BY LenProperties, SeqMonotonic
<1>2. e \in Seq(S) /\ Len(e) \in Nat
  BY <1>1, DataFacts
<1> HIDE DEF e
<1>3. \A i \in 1 .. Len(f) : d[i] = f[i]
  <2>1. \A i \in 1 .. Len(f) + Len(e) : d[i] = IF i <= Len(f) THEN f[i] ELSE e[i - Len(f)]
    BY <1>1, <1>2, ConcatProperties
  <2> SUFFICES ASSUME NEW i \in 1 .. Len(f) PROVE d[i] = f[i]
    OBVIOUS
  <2> HIDE DEF d
  <2>2. i \in 1 .. Len(f) + Len(e) /\ i <= Len(f)
    BY <1>1, <1>2
  <2> QED
    BY <2>1, <2>2
<1> HIDE DEF d
<1>4. \A i \in 1 .. Len(f) : f[i] \in Datum
  BY <1>1
<1>5. Clean(d, Len(f))
  <2>1. NULL \notin Datum
    BY PointersAssumption, NullAssumption DEF Datum
  <2> QED
    BY <1>3, <1>4, <2>1 DEF Clean
<1>6. Readable(g, most)
  <2>1. Len(f) \in Len(f) .. Len(f) + Len(w)
    BY <1>1
  <2> QED
    BY <1>5, <2>1, Zenon DEF Savable, d, e
<1>7. g = f
  <2>1. 1 \in Int /\ Len(f) \in Int /\ (Len(f) - 1) + 1 = Len(f) /\ \A i \in 1 .. Len(f) : d[i] \in S
    BY <1>1, <1>3, <1>4
  <2>2. /\ g \in Seq(S)
        /\ Len(g) = IF 1 <= Len(f) THEN (Len(f) - 1) + 1 ELSE 0
        /\ \A i \in 1 .. (Len(f) - 1) + 1 : g[i] = d[(1 + i) - 1]
    BY <2>1, SubSeqProperties
  <2> HIDE DEF g
  <2>3. Len(g) = Len(f)
    BY <1>1, <2>2
  <2>4. \A i \in 1 .. Len(g) : g[i] = f[i]
    <3> SUFFICES ASSUME NEW i \in 1 .. Len(g) PROVE g[i] = f[i]
      OBVIOUS
    <3>1. i \in 1 .. (Len(f) - 1) + 1 /\ (1 + i) - 1 = i /\ i \in 1 .. Len(f)
      BY <1>1, <2>3
    <3> QED
      BY <1>3, <2>2, <3>1
  <2> QED
    BY <1>1, <2>2, <2>3, <2>4, SeqEqual
<1> QED
  BY <1>6, <1>7

LEMMA SaveEnded ==
  ASSUME NEW f \in Seq(Datum), Filled(f, <<>>)
  PROVE  AllFilled(f)
<1> DEFINE S == Datum \cup {NULL}
<1>1. Len(f) \in Nat /\ f \in Seq(S) /\ \A i \in 1 .. Len(f) : f[i] \in Datum
  BY LenProperties, SeqMonotonic
<1>2. Data(<<>>) = <<>>
  BY DEF Data
<1>3. f \o Data(<<>>) = f
  BY <1>1, <1>2, ConcatEmptySeq
<1>4. Len(f) + Len(<<>>) = Len(f)
  BY <1>1
<1>5. Clean(f, Len(f))
  <2>1. NULL \notin Datum
    BY PointersAssumption, NullAssumption DEF Datum
  <2> QED
    BY <1>1, <2>1 DEF Clean
<1> QED
  BY <1>3, <1>4, <1>5, Zenon DEF Filled

LEMMA ReadableLater ==
  ASSUME NEW f, NEW n \in Nat, Readable(f, Cap(n))
  PROVE  Readable(f, Cap(n + 1))
<1>1. Cap(n) \in Nat /\ Cap(n + 1) \in Nat /\ Cap(n) <= Cap(n + 1)
  <2>1. n + 1 \in Nat /\ n <= n + 1
    OBVIOUS
  <2> QED
    BY <2>1, CapFacts, CapGrows
<1>2. ASSUME NEW q, SetAt(f, q, Cap(n)) PROVE SetAt(f, q, Cap(n + 1))
  BY <1>1, <1>2 DEF SetAt
<1> QED
  BY <1>2 DEF Readable


-----------------------------------------------------------------------------
(* The inductive invariant.                                                *)

LEMMA TablesTyped ==
  ASSUME NEW t, NEW n, GoodStore(t, n)
  PROVE  IsTableOf(t, SetsIn(t)) /\ \A s \in SetsIn(t) : IsTableOf(s, Fields)
BY DEF GoodStore, GoodSet, Kept

LEMMA ClientsKeys ==
  /\ \A k \in ClientKeys : k \in Keys
  /\ \A f \in ClientFields : f \in Keys
  /\ \A v \in ClientValues : v \in Values
  /\ Zeros \in Keys /\ Zeros \in Values
BY NamesAssumption

LEMMA InitIInv ==
  ASSUME Init
  PROVE  IInv
<1>1. /\ ta = "down" /\ sessions = {} /\ store = NULL
      /\ file = NULL /\ todo = <<>> /\ starts = 0 /\ torn = FALSE /\ reply = NULL
  BY DEF Init
<1>2. TypeOK
  BY <1>1 DEF TypeOK
<1>3. HungExplained /\ ObjectGood /\ NoneEmpty
  BY <1>1 DEF HungExplained, ObjectGood, NoneEmpty
<1>4. starts \in 0 .. MaxStarts
  BY <1>1, SizesAssumption
<1> QED
  BY <1>1, <1>2, <1>3, <1>4 DEF IInv

(* A command that is answered. *)
LEMMA Answered ==
  ASSUME IInv, ta = "up", ta' = "up", GoodStore(store', starts),
         ~NoMemory /\ HasFields(store) => HasFields(store'),
         reply' \in Reply \cup {NULL}, UNCHANGED <<sessions, file, todo, starts, torn>>
  PROVE  IInv'
<1>1. TypeOK'
  BY TablesTyped DEF IInv, TypeOK
<1>2. ObjectGood'
  BY DEF IInv, ObjectGood
<1>3. ~NoMemory /\ ~torn' => NoneEmpty'
  BY DEF IInv, NoneEmpty
<1>4. HungExplained'
  BY DEF HungExplained
<1> QED
  BY <1>1, <1>2, <1>3, <1>4 DEF IInv

(* The object when the instance stops, whatever it was doing. *)
LEMMA ObjectStopped ==
  ASSUME IInv
  PROVE  /\ file # NULL => file \in Seq(Datum) /\ Readable(file, Cap(starts))
         /\ ~NoMemory /\ ~torn /\ todo = <<>> => (file # NULL => AllFilled(file))
<1>1. CASE ta = "saving"
  <2>1. file \in Seq(Datum) /\ todo \in Seq(Write) /\ Savable(file, todo, Cap(starts))
    BY <1>1 DEF IInv, ObjectGood
  <2>2. Readable(file, Cap(starts))
    BY <2>1, SaveStopped
  <2>3. ~NoMemory /\ ~torn => Filled(file, todo)
    BY <1>1 DEF IInv, NoneEmpty
  <2> QED
    BY <2>1, <2>2, <2>3, SaveEnded
<1>2. CASE ta # "saving"
  BY <1>2 DEF IInv, ObjectGood, NoneEmpty
<1> QED
  BY <1>1, <1>2

(* The instance is gone. *)
LEMMA Down ==
  ASSUME IInv, ta' = "down", sessions' = {}, store' = NULL, todo' = <<>>, starts' = starts,
         torn' \in BOOLEAN, reply' \in Reply \cup {NULL},
         file' # NULL => file' \in Seq(Datum) /\ Readable(file', Cap(starts)),
         ~NoMemory /\ ~torn' => (file' # NULL => AllFilled(file'))
  PROVE  IInv'
<1>1. TypeOK'
  BY DEF TypeOK
<1>2. ObjectGood' /\ HungExplained'
  BY DEF ObjectGood, HungExplained
<1>3. ~NoMemory /\ ~torn' => NoneEmpty'
  BY DEF NoneEmpty
<1> QED
  BY <1>1, <1>2, <1>3 DEF IInv

LEMMA FirstOpenKept ==
  ASSUME IInv, NEW c \in Clients, FirstOpen(c)
  PROVE  IInv'
<1>1. /\ ta = "down" /\ starts < MaxStarts
      /\ ta' = "up" /\ sessions' = {c} /\ starts' = starts + 1
      /\ store' = Loaded(file) \/ store' = Loaded(NULL)
      /\ reply' = NULL
      /\ UNCHANGED <<file, todo, torn>>
  BY DEF FirstOpen, Loaded
<1>2. /\ starts \in Nat /\ starts' \in 0 .. MaxStarts /\ starts' > 0 /\ starts' - 1 = starts
  BY <1>1, SizesAssumption DEF IInv
<1>3. todo = <<>> /\ (file # NULL => file \in Seq(Datum) /\ Readable(file, Cap(starts)))
  BY <1>1 DEF IInv, ObjectGood
<1>4. /\ GoodStore(store', starts')
      /\ (file # NULL => AllFilled(file)) => HasFields(store')
  <2>1. CASE store' = Loaded(file)
    BY <2>1, <1>1, <1>2, <1>3, StoreLoaded
  <2>2. CASE store' = Loaded(NULL)
    BY <2>2, <1>1, <1>2, StoreLoaded
  <2> QED
    BY <1>1, <2>1, <2>2
<1>5. TypeOK'
  BY <1>1, <1>3, <1>4, TablesTyped DEF TypeOK, IInv
<1>6. ObjectGood'
  BY <1>1, <1>2, <1>3, ReadableLater DEF ObjectGood
<1>7. ~NoMemory /\ ~torn' => NoneEmpty'
  BY <1>1, <1>4 DEF IInv, NoneEmpty
<1>8. HungExplained'
  BY <1>1 DEF HungExplained
<1> QED
  BY <1>1, <1>2, <1>4, <1>5, <1>6, <1>7, <1>8 DEF IInv

LEMMA LastCloseKept ==
  ASSUME IInv, NEW c \in Clients, LastClose(c)
  PROVE  IInv'
<1>1. /\ ta = "up" /\ ta' = "saving" /\ sessions' = {}
      /\ file' = <<>> /\ todo' = StoreWrites(store) /\ reply' = NULL
      /\ UNCHANGED <<store, starts, torn>>
  BY DEF LastClose
<1>2. starts \in 0 .. MaxStarts /\ starts > 0 /\ GoodStore(store, starts)
  BY <1>1 DEF IInv
<1>3. /\ StoreWrites(store) \in Seq(Write)
      /\ Savable(<<>>, StoreWrites(store), Cap(starts))
      /\ HasFields(store) => Filled(<<>>, StoreWrites(store))
  BY <1>2, SaveBegins
<1>4. TypeOK'
  BY <1>1, <1>2, TablesTyped DEF TypeOK, IInv
<1>5. ObjectGood'
  BY <1>1, <1>3 DEF ObjectGood
<1>6. ~NoMemory /\ ~torn' => NoneEmpty'
  BY <1>1, <1>3 DEF IInv, NoneEmpty
<1>7. HungExplained'
  BY <1>1 DEF HungExplained
<1> QED
  BY <1>1, <1>2, <1>4, <1>5, <1>6, <1>7 DEF IInv

LEMMA SaveWritesKept ==
  ASSUME IInv, SaveWrites
  PROVE  IInv'
<1>1. /\ ta = "saving" /\ todo # <<>> /\ Head(todo).data # NULL
      /\ file' = Append(file, Head(todo).data) /\ todo' = Tail(todo)
      /\ UNCHANGED <<ta, sessions, store, starts, torn, reply>>
  BY DEF SaveWrites
<1>2. file \in Seq(Datum) /\ todo \in Seq(Write) /\ Savable(file, todo, Cap(starts))
  BY <1>1 DEF IInv, ObjectGood
<1>3. /\ file' \in Seq(Datum) /\ todo' \in Seq(Write)
      /\ Savable(file', todo', Cap(starts))
      /\ Filled(file, todo) => Filled(file', todo')
  BY <1>1, <1>2, SaveStep
<1>4. TypeOK'
  BY <1>1 DEF IInv, TypeOK
<1>5. ObjectGood'
  BY <1>1, <1>3 DEF ObjectGood
<1>6. ~NoMemory /\ ~torn' => NoneEmpty'
  BY <1>1, <1>3 DEF IInv, NoneEmpty
<1>7. HungExplained'
  BY <1>1 DEF HungExplained
<1> QED
  BY <1>1, <1>4, <1>5, <1>6, <1>7 DEF IInv


LEMMA DiesKept ==
  ASSUME IInv, Dies, file' = file
  PROVE  IInv'
<1>1. /\ ta' = "down" /\ sessions' = {} /\ store' = NULL /\ todo' = <<>>
      /\ torn' = (torn \/ todo # <<>>) /\ reply' = NULL /\ starts' = starts
  BY DEF Dies
<1>2. torn \in BOOLEAN
  BY DEF IInv, TypeOK
<1>3. ~torn' => ~torn /\ todo = <<>>
  BY <1>1
<1> QED
  BY <1>1, <1>2, <1>3, ObjectStopped, Down

LEMMA SavePanicsKept ==
  ASSUME IInv, SavePanics
  PROVE  IInv'
<1>1. /\ ta = "saving" /\ todo # <<>> /\ Dies
      /\ \/ Head(todo).data = NULL /\ file' = file
         \/ Head(todo).iterator /\ file' = Append(file, Head(todo).data)
  BY DEF SavePanics
<1>2. CASE file' = file
  BY <1>1, <1>2, DiesKept
<1>3. CASE Head(todo).iterator /\ file' = Append(file, Head(todo).data)
  <2>1. file \in Seq(Datum) /\ todo \in Seq(Write) /\ Savable(file, todo, Cap(starts))
    BY <1>1 DEF IInv, ObjectGood
  <2>2. Head(todo) \in Write
    BY <1>1, <2>1, HeadTailProperties
  <2>3. Head(todo).data # NULL
    BY <1>3, <2>2 DEF Write
  <2>4. /\ file' \in Seq(Datum) /\ Tail(todo) \in Seq(Write)
        /\ Savable(file', Tail(todo), Cap(starts))
    BY <1>1, <1>3, <2>1, <2>3, SaveStep
  <2>5. Readable(file', Cap(starts))
    BY <2>4, SaveStopped
  <2>6. /\ ta' = "down" /\ sessions' = {} /\ store' = NULL /\ todo' = <<>>
        /\ torn' = (torn \/ todo # <<>>) /\ reply' = NULL /\ starts' = starts
    BY <1>1 DEF Dies
  <2>7. torn' = TRUE
    BY <1>1, <2>6
  <2> QED
    BY <2>4, <2>5, <2>6, <2>7, Down
<1> QED
  BY <1>1, <1>2, <1>3

LEMMA SaveDoneKept ==
  ASSUME IInv, SaveDone
  PROVE  IInv'
<1>1. /\ ta = "saving" /\ todo = <<>> /\ ta' = "down" /\ store' = NULL
      /\ UNCHANGED <<sessions, file, todo, starts, torn, reply>>
  BY DEF SaveDone
<1>2. sessions = {} /\ torn \in BOOLEAN /\ reply \in Reply \cup {NULL}
  BY <1>1 DEF IInv, TypeOK
<1> QED
  BY <1>1, <1>2, ObjectStopped, Down

LEMMA LastCloseFailsKept ==
  ASSUME IInv, NEW c \in Clients, LastCloseFails(c)
  PROVE  IInv'
<1>1. /\ ta = "up" /\ ta' = "down" /\ sessions' = {} /\ store' = NULL /\ reply' = NULL
      /\ UNCHANGED <<file, todo, starts, torn>>
  BY DEF LastCloseFails
<1>2. torn \in BOOLEAN /\ todo = <<>>
  BY <1>1 DEF IInv, TypeOK
<1> QED
  BY <1>1, <1>2, ObjectStopped, Down

(* The object cannot be followed, and nothing is claimed of it. *)
LEMMA GoesAstrayKept ==
  ASSUME IInv, GoesAstray
  PROVE  IInv'
<1>1. /\ ta' = "astray" /\ sessions' = {} /\ store' = NULL /\ file' = NULL
      /\ todo' = <<>> /\ torn' = TRUE /\ reply' = NULL /\ starts' = starts
  BY DEF GoesAstray
<1>2. TypeOK'
  BY <1>1 DEF TypeOK
<1>3. ObjectGood' /\ HungExplained'
  BY <1>1 DEF ObjectGood, HungExplained
<1> QED
  BY <1>1, <1>2, <1>3 DEF IInv

LEMMA OpensAndCloses ==
  ASSUME IInv, OpenFails \/ \E c \in Clients : Open(c) \/ Close(c)
  PROVE  IInv'
<1>1. /\ UNCHANGED <<ta, store, file, todo, starts, torn>> /\ reply' = NULL
      /\ \/ sessions' = sessions
         \/ ta = "up" /\ sessions' \subseteq Clients /\ sessions' # {}
  <2>1. sessions \subseteq Clients
    BY DEF IInv, TypeOK
  <2> QED
    BY <2>1 DEF OpenFails, Open, Close, Instance
<1>2. TypeOK'
  BY <1>1 DEF IInv, TypeOK
<1>3. /\ HungExplained' /\ ObjectGood'
      /\ ~NoMemory /\ ~torn' => NoneEmpty'
  BY <1>1 DEF IInv, HungExplained, ObjectGood, NoneEmpty
<1> QED
  BY <1>1, <1>2, <1>3 DEF IInv

LEMMA HangsKept ==
  ASSUME IInv, NEW k \in ClientKeys, NEW f \in ClientFields, CommandHangs(k, f)
  PROVE  IInv'
<1>1. /\ ta = "up" /\ ta' = "hung" /\ reply' = NULL
      /\ UNCHANGED <<sessions, store, file, todo, starts, torn>>
  BY DEF CommandHangs, Serving
<1>2. starts \in 0 .. MaxStarts /\ starts > 0 /\ GoodStore(store, starts)
  BY <1>1 DEF IInv
<1>3. HungExplained'
  <2>1. Crowded(store) \/ \E s \in SetsIn(store) : Crowded(s)
    BY <1>2, ClientsKeys, HangsExplained
  <2> QED
    BY <1>1, <2>1 DEF HungExplained
<1>4. TypeOK'
  BY <1>1 DEF IInv, TypeOK
<1>5. /\ ObjectGood'
      /\ ~NoMemory /\ ~torn' => NoneEmpty'
  BY <1>1 DEF IInv, ObjectGood, NoneEmpty
<1> QED
  BY <1>1, <1>2, <1>3, <1>4, <1>5 DEF IInv

(* What a reading command answers with. *)
LEMMA DataFound ==
  ASSUME NEW t, NEW n, GoodStore(t, n), NEW k \in Keys, NEW f \in Keys
  PROVE  DataAt(t, k, f) \in Values \cup {NULL}
<1>1. CASE Set(t, k) = NULL
  BY <1>1 DEF DataAt
<1>2. CASE Set(t, k) # NULL
  <2> DEFINE s == Set(t, k)
  <2>1. IsTableOf(s, Fields)
    BY <1>2, SetFacts
  <2>2. Got(s, f) \in Values \cup {NULL}
    <3> HIDE DEF s
    <3>1. CASE Found(s, f)
      <4>1. IndexOf(s, f) \in LiveSlots(s)
        BY <2>1, <3>1, FoundHasKey
      <4>2. s.entries[IndexOf(s, f)].ptr_value \in Fields
        BY <2>1, <4>1, TableFacts
      <4> QED
        BY <3>1, <4>2 DEF Got, Fields
    <3>2. CASE ~Found(s, f)
      BY <3>2 DEF Got
    <3> QED
      BY <3>1, <3>2
  <2> QED
    BY <1>2, <2>2 DEF DataAt
<1> QED
  BY <1>1, <1>2


(* The answers. *)
Results == {"TEE_SUCCESS", "TEE_ERROR_ITEM_NOT_FOUND", "TEE_ERROR_SHORT_BUFFER",
            "TEE_ERROR_OUT_OF_MEMORY"}

LEMMA AnswerTyped ==
  ASSUME IInv,
         NEW cmd \in {"contains_key", "contains_field", "get", "insert", "delete_field", "delete_key"},
         Serving(cmd),
         NEW k \in ClientKeys, NEW f \in ClientFields \cup {NULL}, NEW v \in Values \cup {NULL},
         NEW result \in Results, Answer(cmd, k, f, v, result)
  PROVE  /\ reply' \in Reply \cup {NULL} /\ ta = "up" /\ ta' = "up"
         /\ UNCHANGED <<sessions, file, todo, starts, torn>>
<1>1. reply' = [cmd |-> cmd, key |-> k, field |-> f, value |-> v, result |-> result]
  BY DEF Answer
<1>2. reply' \in Reply
  BY <1>1 DEF Reply, Results
<1> QED
  BY <1>2 DEF Answer, Serving

LEMMA Up ==
  ASSUME IInv, ta = "up"
  PROVE  starts \in 0 .. MaxStarts /\ starts > 0 /\ GoodStore(store, starts)
BY DEF IInv

LEMMA ReadKept ==
  ASSUME IInv, NEW cmd \in {"contains_key", "contains_field", "get"}, Serving(cmd),
         NEW k \in ClientKeys, NEW f \in ClientFields \cup {NULL}, NEW v \in Values \cup {NULL},
         NEW result \in Results, Answer(cmd, k, f, v, result), store' = store
  PROVE  IInv'
<1>1. /\ reply' \in Reply \cup {NULL} /\ ta = "up" /\ ta' = "up"
      /\ UNCHANGED <<sessions, file, todo, starts, torn>>
  BY AnswerTyped
<1> QED
  BY <1>1, Up, Answered

LEMMA KeyReadsKept ==
  ASSUME IInv, NEW k \in ClientKeys, tds_contains_key(k)
  PROVE  IInv'
<1>1. PICK result \in Results : Answer("contains_key", k, NULL, NULL, result)
  BY DEF tds_contains_key, Results
<1>2. Serving("contains_key") /\ store' = store
  BY DEF tds_contains_key
<1>3. NULL \in ClientFields \cup {NULL} /\ NULL \in Values \cup {NULL}
  OBVIOUS
<1> QED
  BY <1>1, <1>2, <1>3, ReadKept

LEMMA FieldReadsKept ==
  ASSUME IInv, NEW k \in ClientKeys, NEW f \in ClientFields,
         tds_contains_field(k, f) \/ \E room \in BOOLEAN : tds_get(k, f, room)
  PROVE  IInv'
<1>1. NULL \in Values \cup {NULL} /\ f \in ClientFields \cup {NULL} /\ k \in Keys /\ f \in Keys
  BY ClientsKeys
<1>2. CASE tds_contains_field(k, f)
  <2>1. PICK result \in Results : Answer("contains_field", k, f, NULL, result)
    BY <1>2 DEF tds_contains_field, Results
  <2>2. Serving("contains_field") /\ store' = store
    BY <1>2 DEF tds_contains_field
  <2> QED
    BY <1>1, <2>1, <2>2, ReadKept
<1>3. CASE \E room \in BOOLEAN : tds_get(k, f, room)
  <2>1. Serving("get") /\ store' = store /\ ta = "up"
    BY <1>3 DEF tds_get, Serving
  <2>2. DataAt(store, k, f) \in Values \cup {NULL}
    BY <1>1, <2>1, Up, DataFound
  <2>3. \E v \in Values \cup {NULL}, result \in Results : Answer("get", k, f, v, result)
    BY <1>1, <1>3, <2>2 DEF tds_get, Results
  <2> QED
    BY <1>1, <2>1, <2>3, ReadKept
<1> QED
  BY <1>2, <1>3

LEMMA tds_insertKept ==
  ASSUME IInv, NEW k \in ClientKeys, NEW f \in ClientFields, NEW v \in ClientValues,
         tds_insert(k, f, v)
  PROVE  IInv'
<1>1. PICK o \in data_store_insert(store, k, f, v) :
        /\ store' = o.table
        /\ Answer("insert", k, f, v, IF o.ok THEN "TEE_SUCCESS" ELSE "TEE_ERROR_OUT_OF_MEMORY")
  BY DEF tds_insert
<1>2. Serving("insert") /\ ta = "up"
  BY DEF tds_insert, Serving
<1>3. k \in Keys /\ f \in Keys /\ v \in Values
  BY ClientsKeys
<1>4. starts \in 0 .. MaxStarts /\ starts > 0 /\ GoodStore(store, starts)
  BY <1>2, Up
<1>5. /\ GoodStore(store', starts)
      /\ ~NoMemory /\ HasFields(store) => HasFields(store')
  BY <1>1, <1>3, <1>4, data_store_insertGood
<1>6. /\ reply' \in Reply \cup {NULL} /\ ta' = "up"
      /\ UNCHANGED <<sessions, file, todo, starts, torn>>
  <2>1. PICK result \in Results : Answer("insert", k, f, v, result)
    BY <1>1 DEF Results
  <2>2. f \in ClientFields \cup {NULL} /\ v \in Values \cup {NULL}
    BY <1>3
  <2> QED
    BY <1>2, <2>1, <2>2, AnswerTyped
<1> QED
  BY <1>2, <1>5, <1>6, Answered

LEMMA tds_delete_fieldKept ==
  ASSUME IInv, NEW k \in ClientKeys, NEW f \in ClientFields, tds_delete_field(k, f)
  PROVE  IInv'
<1>1. PICK i \in data_store_insert(store, Zeros, Zeros, Zeros) :
        \E o \in data_store_delete_field(i.table, Zeros, Zeros) :
          /\ store' = o.table
          /\ Answer("delete_field", k, f, NULL,
                    IF o.ok THEN "TEE_SUCCESS" ELSE "TEE_ERROR_ITEM_NOT_FOUND")
  BY DEF tds_delete_field
<1>2. PICK o \in data_store_delete_field(i.table, Zeros, Zeros) :
        /\ store' = o.table
        /\ Answer("delete_field", k, f, NULL,
                  IF o.ok THEN "TEE_SUCCESS" ELSE "TEE_ERROR_ITEM_NOT_FOUND")
  BY <1>1
<1>3. Serving("delete_field") /\ ta = "up"
  BY DEF tds_delete_field, Serving
<1>4. starts \in 0 .. MaxStarts /\ starts > 0 /\ GoodStore(store, starts)
  BY <1>3, Up
<1>5. /\ GoodStore(i.table, starts)
      /\ ~NoMemory /\ HasFields(store) => HasFields(i.table)
  BY <1>4, ClientsKeys, data_store_insertGood
<1>6. /\ GoodStore(store', starts)
      /\ ~NoMemory /\ HasFields(i.table) => HasFields(store')
  BY <1>2, <1>4, <1>5, ClientsKeys, data_store_delete_fieldGood
<1>7. /\ reply' \in Reply \cup {NULL} /\ ta' = "up"
      /\ UNCHANGED <<sessions, file, todo, starts, torn>>
  <2>1. PICK result \in Results : Answer("delete_field", k, f, NULL, result)
    BY <1>2 DEF Results
  <2>2. f \in ClientFields \cup {NULL} /\ NULL \in Values \cup {NULL}
    OBVIOUS
  <2> QED
    BY <1>3, <2>1, <2>2, AnswerTyped
<1> QED
  BY <1>3, <1>5, <1>6, <1>7, Answered

LEMMA tds_delete_keyKept ==
  ASSUME IInv, NEW k \in ClientKeys, tds_delete_key(k)
  PROVE  IInv'
<1>1. PICK o \in DeleteOutcomes(store, k, NoMemory) :
        /\ store' = o.table
        /\ Answer("delete_key", k, NULL, NULL, "TEE_ERROR_ITEM_NOT_FOUND")
  BY DEF tds_delete_key
<1>2. Serving("delete_key") /\ ta = "up" /\ k \in Keys
  BY ClientsKeys DEF tds_delete_key, Serving
<1>3. starts \in 0 .. MaxStarts /\ starts > 0 /\ GoodStore(store, starts)
  BY <1>2, Up
<1>4. GoodStore(store', starts) /\ Held(store') \subseteq Held(store)
  BY <1>1, <1>2, <1>3, StoreDeleted
<1>5. HasFields(store) => HasFields(store')
  BY <1>4 DEF HasFields, SetsIn
<1>6. /\ reply' \in Reply \cup {NULL} /\ ta' = "up"
      /\ UNCHANGED <<sessions, file, todo, starts, torn>>
  <2>1. NULL \in ClientFields \cup {NULL} /\ NULL \in Values \cup {NULL}
        /\ "TEE_ERROR_ITEM_NOT_FOUND" \in Results
    BY DEF Results
  <2> QED
    BY <1>1, <1>2, <2>1, AnswerTyped
<1> QED
  BY <1>2, <1>4, <1>5, <1>6, Answered

LEMMA IInvStays ==
  ASSUME IInv, UNCHANGED vars
  PROVE  IInv'
<1>1. UNCHANGED <<ta, sessions, store, file, todo, starts, torn, reply>>
  BY DEF vars
<1>2. TypeOK'
  BY <1>1 DEF IInv, TypeOK
<1>3. /\ HungExplained' /\ ObjectGood'
      /\ ~NoMemory /\ ~torn' => NoneEmpty'
  BY <1>1 DEF IInv, HungExplained, ObjectGood, NoneEmpty
<1> QED
  BY <1>1, <1>2, <1>3 DEF IInv

LEMMA NextIInv ==
  ASSUME IInv, [Next]_vars
  PROVE  IInv'
<1>1. CASE \E c \in Clients :
             FirstOpen(c) \/ Open(c) \/ Close(c) \/ LastClose(c) \/ LastCloseFails(c)
  BY <1>1, FirstOpenKept, OpensAndCloses, LastCloseKept, LastCloseFailsKept
<1>2. CASE OpenFails
  BY <1>2, OpensAndCloses
<1>3. CASE Save
  BY <1>3, SaveWritesKept, SaveDoneKept, SavePanicsKept, DiesKept DEF Save, SaveFails
<1>4. CASE PowerCut \/ GoesAstray
  BY <1>4, DiesKept, GoesAstrayKept DEF PowerCut
<1>5. CASE \E k \in ClientKeys :
             \/ tds_contains_key(k) \/ tds_delete_key(k)
             \/ \E f \in ClientFields :
                  \/ tds_contains_field(k, f) \/ tds_delete_field(k, f)
                  \/ \E room \in BOOLEAN : tds_get(k, f, room)
                  \/ \E v \in ClientValues : tds_insert(k, f, v)
                  \/ CommandPanics(k, f) \/ CommandHangs(k, f)
  <2>1. PICK k \in ClientKeys :
             \/ tds_contains_key(k) \/ tds_delete_key(k)
             \/ \E f \in ClientFields :
                  \/ tds_contains_field(k, f) \/ tds_delete_field(k, f)
                  \/ \E room \in BOOLEAN : tds_get(k, f, room)
                  \/ \E v \in ClientValues : tds_insert(k, f, v)
                  \/ CommandPanics(k, f) \/ CommandHangs(k, f)
    BY <1>5
  <2>2. CASE tds_contains_key(k)
    BY <2>2, KeyReadsKept
  <2>3. CASE tds_delete_key(k)
    BY <2>3, tds_delete_keyKept
  <2>4. CASE \E f \in ClientFields :
               \/ tds_contains_field(k, f) \/ tds_delete_field(k, f)
               \/ \E room \in BOOLEAN : tds_get(k, f, room)
               \/ \E v \in ClientValues : tds_insert(k, f, v)
               \/ CommandPanics(k, f) \/ CommandHangs(k, f)
    <3>1. PICK f \in ClientFields :
               \/ tds_contains_field(k, f) \/ tds_delete_field(k, f)
               \/ \E room \in BOOLEAN : tds_get(k, f, room)
               \/ \E v \in ClientValues : tds_insert(k, f, v)
               \/ CommandPanics(k, f) \/ CommandHangs(k, f)
      BY <2>4
    <3>2. CASE tds_contains_field(k, f) \/ \E room \in BOOLEAN : tds_get(k, f, room)
      BY <3>2, FieldReadsKept
    <3>3. CASE tds_delete_field(k, f)
      BY <3>3, tds_delete_fieldKept
    <3>4. CASE \E v \in ClientValues : tds_insert(k, f, v)
      BY <3>4, tds_insertKept
    <3>5. CASE CommandPanics(k, f)
      BY <3>5, DiesKept DEF CommandPanics
    <3>6. CASE CommandHangs(k, f)
      BY <3>6, HangsKept
    <3> QED
      BY <3>1, <3>2, <3>3, <3>4, <3>5, <3>6
  <2> QED
    BY <2>1, <2>2, <2>3, <2>4
<1>6. CASE UNCHANGED vars
  BY <1>6, IInvStays
<1> QED
  BY <1>1, <1>2, <1>3, <1>4, <1>5, <1>6 DEF Next


(* IInv is an invariant. *)
THEOREM StoreInvariant == Spec => []IInv
<1>1. Init => IInv
  BY InitIInv
<1>2. IInv /\ [Next]_vars => IInv'
  BY NextIInv
<1> QED
  BY <1>1, <1>2, PTL DEF Spec

(* The types of all variables: whatever is loaded, served, saved or cut    *)
(* short, the store is a table of tables (data_store.c, tds_storage.c).    *)
THEOREM StoreTyped == Spec => []TypeOK
<1>1. IInv => TypeOK
  BY DEF IInv
<1> QED
  BY <1>1, StoreInvariant, PTL

LEMMA KeptIsSound ==
  ASSUME NEW t, NEW V, NEW D, D \subseteq {Empty}, Kept(t, V, D)
  PROVE  Sound(t)
<1>1. t.n_entries = Cardinality(LiveSlots(t))
  BY DEF Kept, Counted
<1>2. ASSUME NEW j \in LiveSlots(t), t.entries[j].key # Empty
      PROVE  Found(t, t.entries[j].key) /\ IndexOf(t, t.entries[j].key) = j
  BY <1>2, StoredIsFound
<1> QED
  BY <1>1, <1>2 DEF Sound

(* The store and its sets can be searched while the instance serves or     *)
(* saves: every key is found at its slot, and the counters are exact.      *)
THEOREM StoreSearchable == Spec => []TablesSound
<1>1. IInv => TablesSound
  <2> SUFFICES ASSUME IInv, ta \in {"up", "saving"}
               PROVE  Sound(store) /\ \A s \in SetsIn(store) : Sound(s)
    BY DEF TablesSound
  <2>1. /\ Kept(store, SetsIn(store), {})
        /\ \A s \in SetsIn(store) : Kept(s, Fields, {Empty})
    BY DEF IInv, GoodStore, GoodSet
  <2>2. {} \subseteq {Empty} /\ {Empty} \subseteq {Empty}
    OBVIOUS
  <2> QED
    BY <2>1, <2>2, KeptIsSound
<1> QED
  BY <1>1, StoreInvariant, PTL

(* Wherever a save ends, what it has written of the object can be loaded.  *)
THEOREM ObjectLoadable == Spec => []ObjectGood
<1>1. IInv => ObjectGood
  BY DEF IInv
<1> QED
  BY <1>1, StoreInvariant, PTL

(* A search of hashtable_get_entry_index that does not end has met a table *)
(* of two slots or one with a tombstone.                                   *)
THEOREM HangsTakeCrowding == Spec => []HungExplained
<1>1. IInv => HungExplained
  BY DEF IInv
<1> QED
  BY <1>1, StoreInvariant, PTL

(* While memory suffices and no save is cut short, data_store_insert and   *)
(* data_store_delete_field leave no set without fields, over any number of *)
(* saves and loads.                                                        *)
THEOREM NoKeyWithoutFields ==
  ASSUME "alloc" \notin Faults
  PROVE  Spec => []KeysHaveFields
<1>1. IInv => KeysHaveFields
  BY DEF IInv, KeysHaveFields, NoneEmpty, HasFields, NoMemory
<1> QED
  BY <1>1, StoreInvariant, PTL

=============================================================================
