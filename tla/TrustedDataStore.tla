-------------------------- MODULE TrustedDataStore --------------------------
(***************************************************************************)
(* The trusted data store: a single-instance trusted application keeping a *)
(* table of keys whose values are tables of fields (data_store.c), loaded  *)
(* from one persistent object when the first session opens and written     *)
(* back when the last one closes (tds_storage.c).                          *)
(*                                                                         *)
(* The TEE runs one entry of the instance at a time, so a command is one   *)
(* step, over the whole-call operations of HashtableCalls.  Saving is a    *)
(* step for each write to the persistent object: each is atomic, the power *)
(* may go between two of them.                                             *)
(***************************************************************************)
EXTENDS HashtableCalls, Sequences

CONSTANTS
  Clients,       \* programs and TAs that open sessions
  ClientKeys,    \* keys, fields and values they use
  ClientFields,
  ClientValues,
  Zeros,         \* the string of 32 zeros wired into tds_delete_field
  Empty,         \* the empty string, the key read past the end of the object
  Blank,         \* a value of zero bytes, or of none, read past the end
  LENGTH,        \* a write of a length; the bytes follow
  INITIAL_SIZE,  \* 15 in the code
  Commands,      \* the commands clients use
  Faults,        \* what may fail: "alloc", any allocation; "storage", opening,
                 \* creating, reading and writing the object; "power"
  MaxStarts      \* bound: how often the instance is created

ASSUME NamesAssumption ==
  /\ ClientKeys \cup ClientFields \cup {Zeros, Empty} \subseteq Keys
  /\ ClientValues \cup {Zeros, Blank} \subseteq Values
  /\ Zeros \notin ClientKeys /\ Empty \notin ClientKeys \cup ClientFields
  /\ Blank \notin ClientValues

(* next_prime stays within primes[].  A field for each key is not enough:  *)
(* each load after a torn save may fill the sets with as many fields named *)
(* by the empty string as they had fields, and leave room for all others.  *)
ASSUME SizesAssumption ==
  /\ IsFiniteSet(Keys) /\ MaxStarts \in Nat
  /\ 1 \notin Primes
  /\ \E p \in Primes : IsNextPrime(INITIAL_SIZE, p)
  /\ \E p \in Primes : MaxStarts * Cardinality(Keys) * RESIZE_FACTOR * 100 <= MAX_LOAD * p

(* Sets of fields: their data may be missing (a null pointer). *)
Fields == Values \cup {NULL}
Sets ==
  [size : Primes, n_entries : Nat,
   entries : UNION {[0 .. p - 1 -> EntriesOf(Fields) \cup {NULL, DELETED}] : p \in Primes}]

ASSUME PointersAssumption ==
  /\ NULL \notin EntriesOf(Fields) \cup EntriesOf(Sets) \cup Sets
  /\ DELETED \notin EntriesOf(Fields) \cup EntriesOf(Sets)
  /\ NULL \notin Nat \cup Keys \cup {LENGTH}
ASSUME FaultsAssumption == Faults \subseteq {"alloc", "storage", "power"}

VARIABLES
  ta,        \* "down", "up", "saving" in TA_DestroyEntryPoint, "hung" in a search,
             \* "astray" when the object is read out of step
  sessions,  \* the clients with an open session
  store      \* data_store.store while the instance lives, NULL otherwise

VARIABLES
  file,      \* the persistent object: NULL, or the sequence of writes to it
  todo,      \* the writes the running save has still to make
  starts,    \* how often the instance was created
  torn,      \* history: whether a save was ever cut short
  reply      \* the last command and its answer, NULL after anything else

vars == <<ta, sessions, store, file, todo, starts, torn, reply>>

NoMemory == "alloc" \in Faults

(* Opening and creating the object fails for lack of memory, too; reading  *)
(* and writing it does not.                                                *)
StorageFails == Faults \cap {"alloc", "storage"} # {}

Init ==
  /\ ta = "down" /\ sessions = {} /\ store = NULL
  /\ file = NULL /\ todo = <<>> /\ starts = 0 /\ torn = FALSE
  /\ reply = NULL

-----------------------------------------------------------------------------
(* save_data_store: what it writes, in the order of its calls.  NULL marks *)
(* a write that reads through a null pointer: the key of a tombstone,      *)
(* which the iterator takes for an entry because it knows another DELETED  *)
(* than the table's, or the data of a field stored without memory for it.  *)
(* After the second write of a table its iterator is allocated.            *)

Writes(seq, n) == [j \in DOMAIN seq |-> [data |-> seq[j], iterator |-> j = n]]

\* Wrong variant: the iterator stops at the first free slot.
IteratedToGap(t, j) == \A n \in 0 .. j : t.entries[n] # NULL

Iterated(t, j) == t.entries[j] # NULL

(* The first n of the sequences, one after the other. *)
Concatenated(seqs) ==
  LET upTo[n \in 0 .. Len(seqs)] == IF n = 0 THEN <<>> ELSE upTo[n - 1] \o seqs[n]
  IN  upTo

TableWrites(t, slotWrites) ==
  Writes(<<t.size, t.n_entries>>, 2) \o Concatenated(slotWrites)[t.size]

FieldWrites(e) ==
  Writes(IF e = DELETED THEN <<NULL>>
         ELSE IF e.ptr_value = NULL THEN <<LENGTH, e.key, NULL>>
         ELSE <<LENGTH, e.key, LENGTH, e.ptr_value>>, 0)

SetWrites(t) ==
  TableWrites(t, [j \in 1 .. t.size |->
                    IF Iterated(t, j - 1) THEN FieldWrites(t.entries[j - 1]) ELSE <<>>])

KeyWrites(e) ==
  IF e = DELETED THEN Writes(<<NULL>>, 0)
  ELSE Writes(<<LENGTH, e.key>>, 0) \o SetWrites(e.ptr_value)

StoreWrites(t) ==
  TableWrites(t, [j \in 1 .. t.size |->
                    IF Iterated(t, j - 1) THEN KeyWrites(t.entries[j - 1]) ELSE <<>>])

-----------------------------------------------------------------------------
(* load_data_store.  Reads past the end leave the zeros they were given:   *)
(* no entries, a table of the smallest size, empty strings, blank values.  *)

At(f, p, otherwise) == IF p \in DOMAIN f THEN f[p] ELSE otherwise

read_string(f, p) == At(f, p + 1, Empty)
read_data(f, p) == At(f, p + 1, Blank)

\* Wrong variant: the key is read again for the data.
read_hashtable_entryTwice(f, p) == [key |-> read_string(f, p), ptr_value |-> read_data(f, p)]

read_hashtable_entry(f, p) == [key |-> read_string(f, p), ptr_value |-> read_data(f, p + 2)]

(* The table of the set written at p, as its fields are read. *)
Filling(f, p) ==
  LET filled[j \in 0 .. At(f, p + 1, 0)] ==
        IF j = 0 THEN NewTable(At(f, p, 0))
        ELSE InsertedNewEntry(filled[j - 1], read_hashtable_entry(f, p + 2 + 4 * (j - 1)))
  IN  filled

read_hashtable(f, p) == Filling(f, p)[At(f, p + 1, 0)]

(* Where the keys begin, each with its set: a key takes two writes, the    *)
(* set's metadata two and each of its fields four.                         *)
Positions(f) ==
  LET pos[j \in 0 .. At(f, 2, 0)] ==
        IF j = 0 THEN 3 ELSE pos[j - 1] + 4 + 4 * At(f, pos[j - 1] + 3, 0)
  IN  pos

(* The table of the store, as its sets are read. *)
Loading(f) ==
  LET read[j \in 0 .. At(f, 2, 0)] ==
        IF j = 0 THEN NewTable(At(f, 1, 0))
        ELSE LET p == Positions(f)[j - 1]
             IN  (CHOOSE o \in InsertOutcomes(read[j - 1], read_string(f, p),
                                              read_hashtable(f, p + 2), FALSE) : TRUE).table
  IN  read

Loaded(f) == IF f = NULL THEN NewTable(INITIAL_SIZE) ELSE Loading(f)[At(f, 2, 0)]

-----------------------------------------------------------------------------
(* The life of the instance.                                               *)

Instance == <<ta, sessions, store, todo>>

(* When the object cannot be opened, for whatever reason, the store is a   *)
(* new one, and the session opens (tds_storage.c, 119-124).                *)
FirstOpen(c) ==
  /\ ta = "down" /\ starts < MaxStarts
  /\ ta' = "up" /\ sessions' = {c} /\ starts' = starts + 1
  /\ store' = Loaded(file) \/ (StorageFails /\ store' = NewTable(INITIAL_SIZE))
  /\ reply' = NULL
  /\ UNCHANGED <<file, todo, torn>>

(* TA_CreateEntryPoint runs out of memory for the store or what it reads   *)
(* into it, or out of luck with a null pointer where the code does not     *)
(* test for it: there is no session.                                       *)
OpenFails ==
  /\ ta = "down" /\ NoMemory
  /\ reply' = NULL
  /\ UNCHANGED <<Instance, file, starts, torn>>

Open(c) ==
  /\ ta = "up" /\ c \notin sessions
  /\ sessions' = sessions \cup {c}
  /\ reply' = NULL
  /\ UNCHANGED <<ta, store, file, todo, starts, torn>>

Close(c) ==
  /\ ta = "up" /\ c \in sessions /\ sessions # {c}
  /\ sessions' = sessions \ {c}
  /\ reply' = NULL
  /\ UNCHANGED <<ta, store, file, todo, starts, torn>>

(* TEE_CreatePersistentObject with the overwrite flag empties the object.  *)
LastClose(c) ==
  /\ ta = "up" /\ sessions = {c}
  /\ ta' = "saving" /\ sessions' = {}
  /\ file' = <<>> /\ todo' = StoreWrites(store)
  /\ reply' = NULL
  /\ UNCHANGED <<store, starts, torn>>

(* It may fail; TA_DestroyEntryPoint does not look, and the memory goes.   *)
LastCloseFails(c) ==
  /\ ta = "up" /\ sessions = {c} /\ StorageFails
  /\ ta' = "down" /\ sessions' = {} /\ store' = NULL
  /\ reply' = NULL
  /\ UNCHANGED <<file, todo, starts, torn>>

SaveWrites ==
  /\ ta = "saving" /\ todo # <<>> /\ Head(todo).data # NULL
  /\ file' = Append(file, Head(todo).data)
  /\ todo' = Tail(todo)
  /\ UNCHANGED <<ta, sessions, store, starts, torn, reply>>

\* Wrong variant: the store is not given up.
SaveDoneKeeps ==
  /\ ta = "saving" /\ todo = <<>>
  /\ ta' = "down"
  /\ UNCHANGED <<sessions, store, file, todo, starts, torn, reply>>

SaveDone ==
  /\ ta = "saving" /\ todo = <<>>
  /\ ta' = "down" /\ store' = NULL
  /\ UNCHANGED <<sessions, file, todo, starts, torn, reply>>

(* The instance is gone with its memory; its sessions answer no more.      *)
Dies ==
  /\ ta' = "down" /\ sessions' = {} /\ store' = NULL /\ todo' = <<>>
  /\ torn' = (torn \/ todo # <<>>)
  /\ reply' = NULL
  /\ UNCHANGED starts

SavePanics ==
  /\ ta = "saving" /\ todo # <<>>
  /\ \/ Head(todo).data = NULL /\ UNCHANGED file
     \/ Head(todo).iterator /\ NoMemory /\ file' = Append(file, Head(todo).data)
  /\ Dies

(* From some write on none succeeds; save_data_store does not look. *)
SaveFails ==
  /\ ta = "saving" /\ todo # <<>> /\ Head(todo).data # NULL /\ "storage" \in Faults
  /\ Dies
  /\ UNCHANGED file

(* One fails and a later one succeeds, and the object is short in the      *)
(* middle; or it is whole, and a read fails among others.  What is then    *)
(* read as a length or a count is anything: the store is not followed any  *)
(* further.                                                                *)
GoesAstray ==
  /\ "storage" \in Faults
  /\ \/ ta = "saving" /\ todo # <<>> /\ Head(todo).data # NULL /\ Tail(todo) # <<>>
     \/ ta = "down" /\ starts < MaxStarts /\ file # NULL
  /\ ta' = "astray" /\ sessions' = {} /\ store' = NULL
  /\ file' = NULL /\ todo' = <<>> /\ torn' = TRUE
  /\ reply' = NULL
  /\ UNCHANGED starts

PowerCut ==
  /\ ta \notin {"down", "astray"} /\ "power" \in Faults
  /\ Dies
  /\ UNCHANGED file

-----------------------------------------------------------------------------
(* Commands.                                                               *)

Serving(cmd) == ta = "up" /\ cmd \in Commands

Answer(cmd, k, f, v, result) ==
  /\ reply' = [cmd |-> cmd, key |-> k, field |-> f, value |-> v, result |-> result]
  /\ UNCHANGED <<ta, sessions, file, todo, starts, torn>>

Set(t, k) == Got(t, k)

(* data_store_get on a set that may be missing. *)
DataAt(t, k, f) == IF Set(t, k) = NULL THEN NULL ELSE Got(Set(t, k), f)

WithSet(t, k, s) == WithValue(t, IndexOf(t, k), s)

FieldSearchEnds(t, k, f) ==
  ~Endless(t, k) /\ (Set(t, k) # NULL => ~Endless(Set(t, k), f))

tds_contains_key(k) ==
  /\ Serving("contains_key") /\ ~Endless(store, k)
  /\ Answer("contains_key", k, NULL, NULL,
            IF Set(store, k) # NULL THEN "TEE_SUCCESS" ELSE "TEE_ERROR_ITEM_NOT_FOUND")
  /\ UNCHANGED store

tds_contains_field(k, f) ==
  /\ Serving("contains_field") /\ FieldSearchEnds(store, k, f)
  /\ Answer("contains_field", k, f, NULL,
            IF DataAt(store, k, f) # NULL THEN "TEE_SUCCESS" ELSE "TEE_ERROR_ITEM_NOT_FOUND")
  /\ UNCHANGED store

(* room: whether the client's buffer is as large as the data. *)
tds_get(k, f, room) ==
  /\ Serving("get") /\ FieldSearchEnds(store, k, f)
  /\ LET d == DataAt(store, k, f)
     IN  IF d = NULL THEN Answer("get", k, f, NULL, "TEE_ERROR_ITEM_NOT_FOUND")
         ELSE IF room THEN Answer("get", k, f, d, "TEE_SUCCESS")
         ELSE Answer("get", k, f, NULL, "TEE_ERROR_SHORT_BUFFER")
  /\ UNCHANGED store

\* Wrong variants: every insert makes a new set; a field that finds no
\* memory takes its set with it.
SetOutcomesAlways(t, k) ==
  IF Endless(t, k) THEN {} ELSE InsertOutcomes(t, k, NewTable(INITIAL_SIZE), NoMemory)
FieldOutcomesDropSet(t, k, f, v) ==
  {Outcome(IF o.ok THEN WithSet(t, k, o.table) ELSE WithoutEntry(t, IndexOf(t, k)), o.ok) :
     o \in InsertOutcomes(Set(t, k), f, v, NoMemory)}

(* data_store_insert: a new key first gets an empty set.  The set stays    *)
(* when its field finds no memory.  Data that finds no memory is stored as *)
(* a null pointer, with success.                                           *)
SetOutcomes(t, k) ==
  IF Endless(t, k) THEN {}
  ELSE IF Set(t, k) # NULL THEN {Outcome(t, TRUE)}
  ELSE InsertOutcomes(t, k, NewTable(INITIAL_SIZE), NoMemory)

FieldOutcomes(t, k, f, v) ==
  UNION {{Outcome(WithSet(t, k, o.table), o.ok) :
            o \in {x \in InsertOutcomes(Set(t, k), f, d, NoMemory) : x.ok \/ d # NULL}} :
         d \in {v} \cup (IF NoMemory THEN {NULL} ELSE {})}

data_store_insert(t, k, f, v) ==
  UNION {IF o.ok THEN FieldOutcomes(o.table, k, f, v) ELSE {o} : o \in SetOutcomes(t, k)}

(* No memory for the set, or neither for the data nor for its entry: the   *)
(* code goes on with the null pointer.                                     *)
InsertPanics(t, k, f) ==
  /\ NoMemory /\ ~Endless(t, k)
  /\ Set(t, k) # NULL => \E o \in InsertOutcomes(Set(t, k), f, NULL, TRUE) : ~o.ok

tds_insert(k, f, v) ==
  /\ Serving("insert")
  /\ \E o \in data_store_insert(store, k, f, v) :
       /\ store' = o.table
       /\ Answer("insert", k, f, v, IF o.ok THEN "TEE_SUCCESS" ELSE "TEE_ERROR_OUT_OF_MEMORY")

\* Wrong variant: the empty set stays.
data_store_delete_fieldKeepsSet(t, k, f) ==
  IF Set(t, k) = NULL THEN {Outcome(t, FALSE)}
  ELSE {Outcome(WithSet(t, k, o.table), o.ok) : o \in DeleteOutcomes(Set(t, k), f, NoMemory)}

(* data_store_delete_field: a set left without fields goes too. *)
data_store_delete_field(t, k, f) ==
  IF Set(t, k) = NULL THEN {Outcome(t, FALSE)}
  ELSE UNION {LET u == WithSet(t, k, o.table)
              IN  IF o.table.n_entries # 0 THEN {Outcome(u, o.ok)}
                  ELSE {Outcome(e.table, o.ok) : e \in DeleteOutcomes(u, k, NoMemory)} :
              o \in DeleteOutcomes(Set(t, k), f, NoMemory)}

(* tds_delete_field does not use its parameters: it inserts and deletes a  *)
(* field of its own.                                                       *)
tds_delete_field(k, f) ==
  /\ Serving("delete_field")
  /\ \E i \in data_store_insert(store, Zeros, Zeros, Zeros) :
       \E o \in data_store_delete_field(i.table, Zeros, Zeros) :
         /\ store' = o.table
         /\ Answer("delete_field", k, f, NULL,
                   IF o.ok THEN "TEE_SUCCESS" ELSE "TEE_ERROR_ITEM_NOT_FOUND")

(* tds_delete_key, unless it removes the key. *)
tds_delete_key(k) ==
  /\ Serving("delete_key")
  /\ \E o \in DeleteOutcomes(store, k, NoMemory) :
       /\ ~o.ok
       /\ store' = o.table
       /\ Answer("delete_key", k, NULL, NULL, "TEE_ERROR_ITEM_NOT_FOUND")

(* data_store_delete_key takes the set it removed for an entry and follows *)
(* the set's counter as a pointer.                                         *)
CommandPanics(k, f) ==
  /\ \/ Serving("insert") /\ InsertPanics(store, k, f)
     \/ Serving("delete_field") /\ InsertPanics(store, Zeros, Zeros)
     \/ Serving("delete_key") /\ \E o \in DeleteOutcomes(store, k, NoMemory) : o.ok
  /\ Dies
  /\ UNCHANGED file

(* A search that does not end: the instance answers nobody any more. *)
CommandHangs(k, f) ==
  /\ \/ Serving("contains_key") /\ Endless(store, k)
     \/ Serving("contains_field") /\ ~FieldSearchEnds(store, k, f)
     \/ Serving("get") /\ ~FieldSearchEnds(store, k, f)
     \/ Serving("insert") /\ (\/ Endless(store, k)
                              \/ Set(store, k) # NULL /\ Endless(Grown(Set(store, k)), f))
     \/ Serving("delete_field") /\ Endless(store, Zeros)
     \/ Serving("delete_key") /\ Endless(Shrunk(store), k)
  /\ ta' = "hung"
  /\ reply' = NULL
  /\ UNCHANGED <<sessions, store, file, todo, starts, torn>>

-----------------------------------------------------------------------------
Save == SaveWrites \/ SaveDone \/ SavePanics \/ SaveFails

Next ==
  \/ \E c \in Clients :
       FirstOpen(c) \/ Open(c) \/ Close(c) \/ LastClose(c) \/ LastCloseFails(c)
  \/ OpenFails \/ Save \/ GoesAstray \/ PowerCut
  \/ \E k \in ClientKeys :
       \/ tds_contains_key(k) \/ tds_delete_key(k)
       \/ \E f \in ClientFields :
            \/ tds_contains_field(k, f) \/ tds_delete_field(k, f)
            \/ \E room \in BOOLEAN : tds_get(k, f, room)
            \/ \E v \in ClientValues : tds_insert(k, f, v)
            \/ CommandPanics(k, f) \/ CommandHangs(k, f)

Spec == Init /\ [][Next]_vars

=============================================================================
