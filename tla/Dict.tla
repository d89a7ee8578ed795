-------------------------------- MODULE Dict --------------------------------
(***************************************************************************)
(* What hashtable.h promises its callers: a finite map from keys to        *)
(* pointers.  A caller invokes one operation at a time; the operation      *)
(* takes effect at the step that answers it.                               *)
(***************************************************************************)
CONSTANTS
  Keys, Values,
  NULL,      \* "no value": what get returns and insert reports for a new key
  Calls,     \* the operations the client uses
  MayFail    \* whether an operation may give up for want of memory

VARIABLES
  dict,      \* [Keys -> Values or NULL]
  call,      \* the invocation in progress, NULL between calls
  result     \* what the last operation returned

dvars == <<dict, call, result>>

DictInit ==
  /\ dict = [k \in Keys |-> NULL]
  /\ call = NULL
  /\ result = [ok |-> FALSE, ret |-> NULL]

Invoke(op, k, v) ==
  /\ call = NULL
  /\ v # NULL <=> op = "insert"
  /\ call' = [op |-> op, key |-> k, ptr_value |-> v]
  /\ UNCHANGED <<dict, result>>

Answer(ok, ret) ==
  /\ call' = NULL
  /\ result' = [ok |-> ok, ret |-> ret]

(* get answers with the stored pointer, or NULL. *)
Get ==
  /\ call # NULL /\ call.op = "get"
  /\ Answer(dict[call.key] # NULL, dict[call.key])
  /\ UNCHANGED dict

(* insert stores the pointer and reports the one it replaced. *)
Insert ==
  /\ call # NULL /\ call.op = "insert"
  /\ dict' = [dict EXCEPT ![call.key] = call.ptr_value]
  /\ Answer(TRUE, dict[call.key])

(* delete removes the key and reports its pointer, or fails when absent. *)
Delete ==
  /\ call # NULL /\ call.op = "delete"
  /\ dict' = [dict EXCEPT ![call.key] = NULL]
  /\ Answer(dict[call.key] # NULL, dict[call.key])

(* No memory: the operation fails and nothing is stored or removed. *)
Fail ==
  /\ MayFail
  /\ call # NULL /\ call.op \in {"insert", "delete"}
  /\ Answer(FALSE, NULL)
  /\ UNCHANGED dict

DictNext ==
  \/ \E op \in Calls, k \in Keys, v \in Values \cup {NULL} : Invoke(op, k, v)
  \/ Get \/ Insert \/ Delete \/ Fail

DictSpec == DictInit /\ [][DictNext]_dvars

=============================================================================
