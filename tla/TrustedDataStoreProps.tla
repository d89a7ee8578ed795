----------------------- MODULE TrustedDataStoreProps ------------------------
(***************************************************************************)
(* What must be true of the trusted data store.                            *)
(***************************************************************************)
EXTENDS TrustedDataStore

SetsIn(t) == {e.ptr_value : e \in Held(t)}

Reply ==
  [cmd : {"contains_key", "contains_field", "get", "insert", "delete_field", "delete_key"},
   key : ClientKeys, field : ClientFields \cup {NULL}, value : Values \cup {NULL},
   result : {"TEE_SUCCESS", "TEE_ERROR_ITEM_NOT_FOUND", "TEE_ERROR_SHORT_BUFFER",
             "TEE_ERROR_OUT_OF_MEMORY"}]

(* Types of all variables, and what the instance has in each state. *)
TypeOK ==
  /\ ta \in {"down", "up", "saving", "hung", "astray"}
  /\ sessions \subseteq Clients
  /\ sessions # {} <=> ta \in {"up", "hung"}
  /\ IF ta \in {"down", "astray"} THEN store = NULL
     ELSE /\ IsTableOf(store, SetsIn(store))
          /\ \A s \in SetsIn(store) : IsTableOf(s, Fields)
  /\ todo # <<>> => ta = "saving"
  /\ torn \in BOOLEAN
  /\ reply \in Reply \cup {NULL}

(* Whatever fails, the store and every set in it remain tables the search  *)
(* can use: no key twice, none hidden behind a free slot, the counter that *)
(* decides when a set is empty exact, and after a load too.  (A load past   *)
(* the end of the object enters the empty string several times.)           *)
Sound(t) ==
  /\ t.n_entries = Cardinality(LiveSlots(t))
  /\ \A j \in {n \in LiveSlots(t) : t.entries[n].key # Empty} :
       Found(t, t.entries[j].key) /\ IndexOf(t, t.entries[j].key) = j

TablesSound ==
  ta \in {"up", "saving"} => Sound(store) /\ \A s \in SetsIn(store) : Sound(s)

(* A set without fields is taken out of the store, so that a key is        *)
(* contained exactly when one of its fields is (until a save is cut short). *)
KeysHaveFields ==
  ta = "up" /\ ~torn => \A s \in SetsIn(store) : s.n_entries > 0

(* A search that never ends takes a table with a tombstone, or of the two  *)
(* slots that only a delete's shrinking or a torn object leaves: from      *)
(* three slots on the load check before an insert keeps one free.          *)
Crowded(t) == t.size = 2 \/ \E j \in DOMAIN t.entries : t.entries[j] = DELETED

HungExplained ==
  ta = "hung" => Crowded(store) \/ \E s \in SetsIn(store) : Crowded(s)

-----------------------------------------------------------------------------
(* Why: what the instance keeps true of its tables, of the object and of   *)
(* the writes a save has still to make.                                    *)

(* n instances have been created, and each may have added to a set as many *)
(* fields named by the empty string as there are keys.                     *)
Cap(n) == n * Cardinality(Keys)

GoodSet(s, n) == Kept(s, Fields, {Empty}) /\ Roomy(s) /\ Excess(s) <= Cap(n - 1)

GoodStore(t, n) ==
  /\ Kept(t, SetsIn(t), {}) /\ Roomy(t)
  /\ \A s \in SetsIn(t) : GoodSet(s, n)

HasFields(t) == \A s \in SetsIn(t) : s.n_entries > 0

(* What the loading of a set whose key was written at q relies on: room    *)
(* for its fields, and no field but the empty string twice.  All reads may *)
(* be past the end.                                                        *)
FieldAt(f, q, i) == read_hashtable_entry(f, q + 4 + 4 * i)

SetAt(f, q, most) ==
  LET size == At(f, q + 2, 0)
      count == At(f, q + 3, 0)
  IN  /\ q \in Nat /\ read_string(f, q) \in Keys
      /\ count \in Nat /\ count <= most
      /\ size \in Primes \/ (size = 0 /\ count = 0)
      /\ count * 100 < 61 * size + 100
      /\ \A i \in 0 .. count - 1 : FieldAt(f, q, i) \in EntriesOf(Fields)
      /\ \A i, j \in 0 .. count - 1 :
           FieldAt(f, q, i).key = FieldAt(f, q, j).key /\ FieldAt(f, q, i).key # Empty => i = j

(* An object that can be loaded, with at most that many fields in a set.   *)
Readable(f, most) ==
  /\ At(f, 1, 0) \in Primes \cup {0}
  /\ At(f, 2, 0) \in Nat
  /\ \A j \in 0 .. At(f, 2, 0) - 1 : SetAt(f, Positions(f)[j], most)

(* It has no set without fields. *)
AllFilled(f) == \A j \in 0 .. At(f, 2, 0) - 1 : At(f, Positions(f)[j] + 3, 0) > 0

Data(w) == [n \in DOMAIN w |-> w[n].data]

Clean(f, m) == \A n \in 1 .. m : f[n] # NULL

Datum == Nat \cup Keys \cup Values \cup {LENGTH}
Write == {w \in [data : Datum \cup {NULL}, iterator : BOOLEAN] : w.iterator => w.data # NULL}

(* Wherever the save stops, what it has written by then can be loaded.     *)
Savable(f, w, most) ==
  \A m \in Len(f) .. Len(f) + Len(w) :
    Clean(f \o Data(w), m) => Readable(SubSeq(f \o Data(w), 1, m), most)

Filled(f, w) == Clean(f \o Data(w), Len(f) + Len(w)) => AllFilled(f \o Data(w))

(* Whenever the instance comes to its end, by a power cut, a panic, writes *)
(* that fail from some point on or with the save complete, load_data_store *)
(* can read what is in the object (a write that fails before one that does *)
(* not is the exception, and leads astray):                                *)
(* tables with sizes and counts, each with room for its fields, and no     *)
(* field of a set twice.  While a save is under way this holds of all that *)
(* it may still come to write (tds_storage.c, 173-214).                    *)
ObjectGood ==
  IF ta = "saving"
  THEN file \in Seq(Datum) /\ todo \in Seq(Write) /\ Savable(file, todo, Cap(starts))
  ELSE todo = <<>> /\ (file # NULL => file \in Seq(Datum) /\ Readable(file, Cap(starts)))

NoneEmpty ==
  /\ ta = "up" => HasFields(store)
  /\ IF ta = "saving" THEN Filled(file, todo) ELSE file # NULL => AllFilled(file)

IInv ==
  /\ TypeOK /\ HungExplained
  /\ starts \in 0 .. MaxStarts
  /\ ta \in {"up", "saving", "hung"} => starts > 0 /\ GoodStore(store, starts)
  /\ ObjectGood
  /\ ~NoMemory /\ ~torn => NoneEmpty

-----------------------------------------------------------------------------
(* What a store holds, read off the slots. *)
FieldData(t, k, f) ==
  UNION {{e.ptr_value : e \in {x \in {s.ptr_value.entries[n] : n \in LiveSlots(s.ptr_value)} :
                                 x.key = f}} :
         s \in {x \in {t.entries[j] : j \in LiveSlots(t)} : x.key = k}}

Records(t) ==
  [k \in ClientKeys |->
     [f \in ClientFields |->
        LET d == FieldData(t, k, f) IN IF d = {} THEN NULL ELSE CHOOSE x \in d : TRUE]]

Nothing == [k \in ClientKeys |-> [f \in ClientFields |-> NULL]]

(* What the object o will hold when those of the writes w are made that    *)
(* come before a null pointer: looked at when a save begins and again when *)
(* it ends.                                                                *)
Reached(w) ==
  LET nulls == {n \in DOMAIN w : w[n].data = NULL}
  IN [n \in 1 .. IF nulls = {} THEN Len(w) ELSE Min(nulls) - 1 |-> w[n].data]

Recorded(o, w) == Records(Loaded(o \o Reached(w)))

(* The specification with the records kept as history variables. *)
VARIABLES
  mem,      \* the records in the store
  disk      \* the records in the persistent object, once saved

hvars == <<vars, mem, disk>>

HInit == Init /\ mem = Nothing /\ disk = Nothing

HNext ==
  /\ Next
  /\ mem' = IF ta' \in {"up", "hung"} THEN Records(store') ELSE Nothing
  /\ disk' = IF ta' = "astray" THEN Nothing
             ELSE IF (ta = "saving") # (ta' = "saving") THEN Recorded(file', todo')
             ELSE disk

HSpec == HInit /\ [][HNext]_hvars

(* Loading, serving and saving the tables is keeping the records of        *)
(* RecordStore: a session finds what the sessions before it left, over any *)
(* number of restarts and resizes, or, when the object cannot be opened,   *)
(* nothing; and no command panics.  A save that ends early loses or blanks *)
(* fields and never mixes them up.                                         *)
R == INSTANCE RecordStore WITH
       Keys <- ClientKeys, Fields <- ClientFields, Values <- ClientValues,
       state <- IF ta = "saving" THEN "closing" ELSE ta,
       damaged <- torn

ImplementsRecordStore == R!RecordSpec

(* The iterator takes tombstones for entries, so that most saves after a   *)
(* delete end the instance.  One that comes to its end has all the same    *)
(* written exactly the records of the store: none is left out or repeated  *)
(* for the slots that deletes have freed and inserts filled again.         *)
SavesExact == [][SaveDone => Records(Loaded(file)) = Records(store)]_hvars

-----------------------------------------------------------------------------
(* A claim of the tests. *)

(* "host/test_tds (old).c", 142-156: a field deleted with success is gone  *)
(* (the test deletes it again and expects an error).                       *)
DeletesFields ==
  [][reply' # NULL /\ reply' # reply /\ reply'.cmd = "delete_field"
     /\ reply'.result = "TEE_SUCCESS" =>
       mem'[reply'.key][reply'.field] = NULL]_hvars

=============================================================================
