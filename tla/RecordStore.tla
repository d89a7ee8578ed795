----------------------------- MODULE RecordStore -----------------------------
(***************************************************************************)
(* What the trusted data store promises: a memory of fields shared by all  *)
(* open sessions, kept on disk from the last close to the next open.  Only *)
(* a save that ends early may damage the disk, and then fields may be gone *)
(* or blank; they never hold what was not stored in them.  When the disk   *)
(* cannot be read it promises less: an open finds nothing, and the next    *)
(* last close puts that on disk.                                           *)
(***************************************************************************)
CONSTANTS Clients, Keys, Fields, Values, NULL,
  Blank,     \* a damaged value
  Commands,  \* the commands in use
  Faults     \* "storage": the disk may fail; "power": it may go;
             \* "alloc": memory may run out

VARIABLES
  mem,       \* [Keys -> [Fields -> value or NULL]]
  disk,
  sessions,
  state,     \* "down", "up", "closing", "hung", "astray"
  damaged,   \* whether a save ever ended early
  reply      \* the last command and its answer

rvars == <<mem, disk, sessions, state, damaged, reply>>

Nothing == [k \in Keys |-> [f \in Fields |-> NULL]]

StorageFails == Faults \cap {"alloc", "storage"} # {}

RecordInit ==
  /\ mem = Nothing /\ disk = Nothing /\ sessions = {} /\ state = "down"
  /\ damaged = FALSE /\ reply = NULL

OpenFirst(c) ==
  /\ state = "down"
  /\ state' = "up" /\ sessions' = {c} /\ reply' = NULL
  /\ mem' = disk \/ (StorageFails /\ mem' = Nothing)
  /\ UNCHANGED <<disk, damaged>>

OpenNext(c) ==
  /\ state = "up" /\ c \notin sessions
  /\ sessions' = sessions \cup {c} /\ reply' = NULL
  /\ UNCHANGED <<mem, disk, state, damaged>>

CloseOne(c) ==
  /\ state = "up" /\ c \in sessions /\ sessions # {c}
  /\ sessions' = sessions \ {c} /\ reply' = NULL
  /\ UNCHANGED <<mem, disk, state, damaged>>

DamagedFrom(d, old) ==
  \A k \in Keys, f \in Fields :
    d[k][f] \in {old[k][f], NULL} \/ (old[k][f] # NULL /\ d[k][f] = Blank)

(* Commands for which there was no memory, and those that delete, may end  *)
(* the instance or leave it with something that ends it when it saves.     *)
Deleting == {"delete_field", "delete_key"} \cap Commands # {}
Fragile == "alloc" \in Faults \/ Deleting

SpoiledFrom(d, old) ==
  \A k \in Keys, f \in Fields :
    d[k][f] \in {old[k][f], NULL} \cup (IF old[k][f] = NULL /\ "alloc" \notin Faults
                                      THEN {} ELSE {Blank})

(* The last close puts everything on disk, or nothing. *)
CloseLast(c) ==
  /\ state = "up" /\ sessions = {c}
  /\ sessions' = {} /\ mem' = Nothing /\ reply' = NULL
  /\ \/ state' = "closing" /\ (disk' = mem \/ (Fragile /\ SpoiledFrom(disk', mem)))
     \/ state' = "down" /\ disk' = disk /\ StorageFails
  /\ UNCHANGED damaged

Saved ==
  /\ state = "closing"
  /\ state' = "down"
  /\ UNCHANGED <<mem, disk, sessions, damaged, reply>>

EndsEarly ==
  /\ state \notin {"down", "astray"}
  /\ "power" \in Faults \/ Fragile \/ (state = "closing" /\ "storage" \in Faults)
  /\ state' = "down" /\ sessions' = {} /\ mem' = Nothing /\ reply' = NULL
  /\ IF state = "closing" THEN damaged' \in {damaged, TRUE} ELSE damaged' = damaged
  /\ IF damaged' /\ state = "closing" THEN DamagedFrom(disk', disk) ELSE disk' = disk

(* A write that fails among others, or a read, makes something else of the *)
(* disk: the promise ends.                                                 *)
Strays ==
  /\ state \in {"down", "closing"} /\ "storage" \in Faults
  /\ state' = "astray" /\ damaged' = TRUE
  /\ mem' = Nothing /\ disk' = Nothing /\ sessions' = {} /\ reply' = NULL

Answered(cmd, k, f, v, result) ==
  /\ state = "up" /\ cmd \in Commands
  /\ reply' = [cmd |-> cmd, key |-> k, field |-> f, value |-> v, result |-> result]
  /\ UNCHANGED <<disk, sessions, state, damaged>>

Success(p) == IF p THEN "TEE_SUCCESS" ELSE "TEE_ERROR_ITEM_NOT_FOUND"

(* A damaged disk may know a key and none of its fields, and so may a key  *)
(* whose first field found no memory.                                      *)
ContainsKey(k) ==
  \E p \in BOOLEAN :
    /\ (\E f \in Fields : mem[k][f] # NULL) => p
    /\ p => damaged \/ "alloc" \in Faults \/ \E f \in Fields : mem[k][f] # NULL
    /\ Answered("contains_key", k, NULL, NULL, Success(p))
    /\ UNCHANGED mem

ContainsField(k, f) ==
  /\ Answered("contains_field", k, f, NULL, Success(mem[k][f] # NULL))
  /\ UNCHANGED mem

Get(k, f) ==
  /\ \/ Answered("get", k, f, mem[k][f], Success(mem[k][f] # NULL))
     \/ mem[k][f] # NULL /\ Answered("get", k, f, NULL, "TEE_ERROR_SHORT_BUFFER")
  /\ UNCHANGED mem

(* Without memory an insert is refused and changes nothing, or reports     *)
(* success with nothing in the field.                                      *)
Insert(k, f, v) ==
  \/ /\ mem' = [mem EXCEPT ![k][f] = v]
     /\ Answered("insert", k, f, v, "TEE_SUCCESS")
  \/ /\ "alloc" \in Faults
     /\ \/ mem' = [mem EXCEPT ![k][f] = NULL] /\ Answered("insert", k, f, v, "TEE_SUCCESS")
        \/ UNCHANGED mem /\ Answered("insert", k, f, v, "TEE_ERROR_OUT_OF_MEMORY")

(* As tds_delete_field works on a field of its own, it changes none of the *)
(* clients'.                                                               *)
DeleteField(k, f) ==
  /\ \E p \in BOOLEAN : Answered("delete_field", k, f, NULL, Success(p))
  /\ UNCHANGED mem

(* delete_key only returns when there is no such key. *)
DeleteKey(k) ==
  /\ Answered("delete_key", k, NULL, NULL, Success(FALSE))
  /\ UNCHANGED mem

(* Only a damaged store, or one that deletes, may stop answering. *)
Hang ==
  /\ state = "up" /\ (damaged \/ Deleting)
  /\ state' = "hung" /\ reply' = NULL
  /\ UNCHANGED <<mem, disk, sessions, damaged>>

RecordNext ==
  \/ \E c \in Clients : OpenFirst(c) \/ OpenNext(c) \/ CloseOne(c) \/ CloseLast(c)
  \/ Saved \/ EndsEarly \/ Strays \/ Hang
  \/ \E k \in Keys :
       \/ ContainsKey(k) \/ DeleteKey(k)
       \/ \E f \in Fields :
            \/ ContainsField(k, f) \/ Get(k, f) \/ DeleteField(k, f)
            \/ \E v \in Values : Insert(k, f, v)

RecordSpec == RecordInit /\ [][RecordNext]_rvars

=============================================================================
