--------------------------- MODULE HashtableCalls ---------------------------
(***************************************************************************)
(* The operations of hashtable.c as whole calls, for the components that   *)
(* use tables and do not look inside a call.  Each operator gives what the *)
(* loops of Hashtable.tla arrive at, or says that they do not end.         *)
(***************************************************************************)
EXTENDS HashtableOps, FiniteSetsExt

Attempts(t) == 0 .. t.size - 1

Probed(t, k, a) == t.entries[hashtable_hash(k, t.size, a)]

(* The probes at which hashtable_get_entry_index comes to an end. *)
Stops(t, k) ==
  {a \in Attempts(t) : \/ Probed(t, k, a) = NULL
                       \/ Live(Probed(t, k, a)) /\ Probed(t, k, a).key = k}

(* The search for k never ends. *)
Endless(t, k) == t.n_entries > 0 /\ Stops(t, k) = {}

IndexOf(t, k) == hashtable_hash(k, t.size, Min(Stops(t, k)))

Found(t, k) ==
  t.n_entries > 0 /\ Stops(t, k) # {} /\ Live(t.entries[IndexOf(t, k)])

(* hashtable_get, for a search that ends. *)
Got(t, k) == IF Found(t, k) THEN t.entries[IndexOf(t, k)].ptr_value ELSE NULL

\* Wrong variant: the entry goes to the slot of its hash.
InsertedNewEntryHome(t, e) == WithEntry(t, hashtable_hash(e.key, t.size, 0), e)

(* hashtable_insert_new_entry: the first free slot of the probe sequence.  *)
InsertedNewEntry(t, e) ==
  WithEntry(t, hashtable_hash(e.key, t.size, Min({a \in Attempts(t) : ~Live(Probed(t, e.key, a))})), e)

NextPrime(n) == CHOOSE p \in Primes : IsNextPrime(n, p)

NewTable(size) == EmptyTable(NextPrime(size))

(* The new table of hashtable_resize after the first n slots of the old:   *)
(* the live entries are entered in the order of the slots.                 *)
Copies(t, size) ==
  LET copy[n \in 0 .. t.size] ==
        IF n = 0 THEN NewTable(size)
        ELSE IF Live(t.entries[n - 1]) THEN InsertedNewEntry(copy[n - 1], t.entries[n - 1])
        ELSE copy[n - 1]
  IN  copy

Resized(t, size) == Copies(t, size)[t.size]

\* Wrong variant: the table is grown when it is full.
GrownLate(t) == IF Load(t) >= 100 THEN Resized(t, t.size * RESIZE_FACTOR) ELSE t

Grown(t) ==
  IF Load(t) > MAX_LOAD THEN Resized(t, t.size * RESIZE_FACTOR) ELSE t
Shrunk(t) ==
  IF Load(t) < MIN_LOAD THEN Resized(t, t.size \div RESIZE_FACTOR) ELSE t

Outcome(t, ok) == [table |-> t, ok |-> ok]

\* Wrong variant: an entry that finds no memory is counted.
InsertOutcomesCounted(t, k, v, mayFail) ==
  LET g == Grown(t)
      stored == IF Found(g, k) THEN WithValue(g, IndexOf(g, k), v)
                ELSE InsertedNewEntry(g, [key |-> k, ptr_value |-> v])
  IN  {Outcome(stored, TRUE)}
      \cup {Outcome([x EXCEPT !.n_entries = @ + 1], FALSE) : x \in {y \in {g} : mayFail /\ ~Found(g, k)}}

(* hashtable_insert: the table left behind and the answer.  A failed       *)
(* allocation leaves the table as it was, or grown.  No outcome: no return. *)
InsertOutcomes(t, k, v, mayFail) ==
  LET g == Grown(t)
      stored == IF Found(g, k) THEN WithValue(g, IndexOf(g, k), v)
                ELSE InsertedNewEntry(g, [key |-> k, ptr_value |-> v])
  IN  (IF Endless(g, k) THEN {} ELSE {Outcome(stored, TRUE)})
      \cup {Outcome(x, FALSE) : x \in {y \in {t} : mayFail /\ Load(t) > MAX_LOAD}}
      \cup {Outcome(x, FALSE) : x \in {y \in {g} : mayFail /\ ~Endless(g, k) /\ ~Found(g, k)}}

(* Wrong variant: the table is not shrunk first. *)
DeleteOutcomesUnshrunk(t, k, mayFail) ==
  {IF Found(t, k) THEN Outcome(WithoutEntry(t, IndexOf(t, k)), TRUE) ELSE Outcome(t, FALSE)}

(* hashtable_delete. *)
DeleteOutcomes(t, k, mayFail) ==
  LET s == Shrunk(t)
      done == IF Found(s, k) THEN Outcome(WithoutEntry(s, IndexOf(s, k)), TRUE)
              ELSE Outcome(s, FALSE)
  IN  (IF Endless(s, k) THEN {} ELSE {done})
      \cup {Outcome(x, FALSE) : x \in {y \in {t} : mayFail /\ Load(t) < MIN_LOAD}}

(* The outcomes of a call as the step machine sees them. *)
CallOutcomes(t, call, mayFail) ==
  CASE call.op = "insert" -> InsertOutcomes(t, call.key, call.ptr_value, mayFail)
    [] call.op = "delete" -> DeleteOutcomes(t, call.key, mayFail)
    [] call.op = "get" -> IF Endless(t, call.key) THEN {}
                          ELSE {Outcome(t, Found(t, call.key))}

=============================================================================
