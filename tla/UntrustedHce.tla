---------------------------- MODULE UntrustedHce ----------------------------
(***************************************************************************)
(* The baseline of the measurements: evaluate_uhce_client.c keeps its cards *)
(* in a data store of its own memory and a plain file, and talks to        *)
(* hce_server.c by bare NFC messages.  It runs every operation on the      *)
(* cards 0, 1, 2, ...: N_RUNS purchases, then as many of each other kind.  *)
(*                                                                         *)
(* Nothing tells which request a response answers: after a transceive that *)
(* failed, its late response may be what the next transceive returns.      *)
(***************************************************************************)
EXTENDS HceServer, Sequences, FiniteSets

CONSTANTS
  CARD_VALUE,   \* value of the purchased cards (125)
  UhceFaults    \* timeout, loss, kill, storage (an insert, fopen, fwrite)

ASSUME CardValueAssumption == CARD_VALUE \in Value
ASSUME UhceFaultsAssumption == UhceFaults \subseteq {"timeout", "loss", "storage", "kill"}

Kinds == <<"PURCHASE", "VALIDATE", "USE", "RECHARGE">>
N_RUNS == MaxCards

(* A card's key in the data store, with the fields that are ever read. *)
FieldsOf(card) == [expiration_date |-> card.expiration_date, value |-> card.value]
NoCard == [expiration_date |-> NULL, value |-> NULL]

(* The card bytes of a buffer that was cleared. *)
Zeros == [id |-> 0, expiration_date |-> 0, value |-> 0]

(* The plain file: how many keys its header announces, the cards written,  *)
(* and whether the file was closed with all of them in it.                 *)
OldFile == [n_entries |-> 0, cards |-> [id \in {} |-> NoCard], whole |-> TRUE]
NoFile == [OldFile EXCEPT !.whole = FALSE]

VARIABLES
  cPc,       \* connecting, looping, waiting, closing, saving, saved, ended
  kind,      \* which of Kinds is being evaluated
  i,         \* the card's number in the loop of evaluate_operation
  recv_buf,  \* the card bytes of the receive buffer
  store,     \* the data store
  file,      \* the plain file
  failures,  \* history: the failures the client printed
  granted,   \* history: what the server last made of each card
  mistaken   \* history: the cards of responses taken for another answer

cvars == <<cPc, kind, i, recv_buf, store, file>>
history == <<failures, granted, mistaken>>
vars == <<link, svars, cvars, history>>

Init ==
  /\ LinkInit /\ ServerInit
  /\ cPc = "connecting" /\ kind = 1 /\ i = 0 /\ recv_buf = Zeros
  /\ store = [id \in Ids |-> NoCard]
  /\ file \in {OldFile, NoFile}
  /\ failures = 0 /\ mistaken = {}
  /\ granted = store

-----------------------------------------------------------------------------
(* main, up to the first evaluation.                                       *)

(* nfc_init or nfc_open fails. *)
NoDevice ==
  /\ cPc = "connecting"
  /\ cPc' = "ended"
  /\ UNCHANGED <<link, svars, kind, i, recv_buf, store, file, history>>

(* nfc_initiator_init or the selection fails: at ERROR save_data_store is  *)
(* given no store.  It empties the file and ends with a null pointer.      *)
SelectFails ==
  /\ cPc = "connecting"
  /\ cPc' = "ended"
  /\ file' = NoFile
  /\ UNCHANGED <<link, svars, kind, i, recv_buf, store, history>>

(* The old file is removed, so load_data_store creates an empty store. *)
Select ==
  /\ cPc = "connecting"
  /\ ServerStarted \/ ServerStartFails
  /\ cPc' = "looping"
  /\ file' = NoFile
  /\ UNCHANGED <<kind, i, recv_buf, store, history>>

-----------------------------------------------------------------------------
(* evaluate_operation.                                                     *)

Op == Kinds[kind]

(* res is 0: the evaluation of this kind ends, and main clears the buffer. *)
EndKind ==
  /\ recv_buf' = Zeros
  /\ i' = 0
  /\ IF kind < Len(Kinds) THEN kind' = kind + 1 /\ cPc' = "looping"
                          ELSE UNCHANGED kind /\ cPc' = "closing"

(* res is not 0: the loop goes on with the next card. *)
NextCard(buf) ==
  IF i + 1 < N_RUNS
  THEN i' = i + 1 /\ cPc' = "looping" /\ recv_buf' = buf /\ UNCHANGED kind
  ELSE EndKind

\* Wrong variant: a request that failed is made again.
AfterFailedTransceiveRetry ==
  \/ cPc' = "looping" /\ UNCHANGED <<kind, i, recv_buf>>
  \/ EndKind

(* A negative result lets the loop go on, an empty response ends it. *)
AfterFailedTransceive == NextCard(recv_buf) \/ EndKind

(* read_data_store_hce_card finds both fields. *)
Readable(id) == store[id].expiration_date # NULL /\ store[id].value # NULL

create_request ==
  /\ cPc = "looping"
  /\ Op = "PURCHASE" \/ Readable(i)
  /\ \E v \in IF Op = "PURCHASE" THEN {CARD_VALUE} ELSE Amounts :
       req' = [op |-> Op, value |-> v, issuer |-> server,
               card |-> IF Op = "PURCHASE" THEN NULL
                        ELSE [id |-> i, expiration_date |-> store[i].expiration_date,
                              value |-> store[i].value]]
  /\ cPc' = "waiting"
  /\ UNCHANGED <<resp, svars, kind, i, recv_buf, store, file, history>>

RequestFails ==
  /\ cPc = "looping"
  /\ Op # "PURCHASE" /\ ~Readable(i)
  /\ EndKind
  /\ UNCHANGED <<link, svars, store, file, history>>

TransceiveFailed ==
  /\ cPc = "waiting"
  /\ failures' = failures + 1
  /\ AfterFailedTransceive
  /\ UNCHANGED <<svars, store, file, granted, mistaken>>

(* A request or response under way may be lost, or still arrive. *)
TransceiveFails ==
  /\ TransceiveFailed
  /\ \/ "timeout" \in UhceFaults /\ UNCHANGED link
     \/ "loss" \in UhceFaults /\ req' = NULL /\ resp' = NULL

(* The terminal's program has ended, and left no response. *)
ServerGone ==
  /\ TransceiveFailed
  /\ sPc = "exited" /\ resp = NULL
  /\ UNCHANGED link

-----------------------------------------------------------------------------
(* process_response.  A response overwrites as much of the buffer as it is *)
(* long: when no card follows the code, the card of the response before it *)
(* is still there.                                                         *)

Received == IF resp.card = NULL THEN recv_buf ELSE resp.card

Answered(code, ops) ==
  /\ cPc = "waiting" /\ resp # NULL
  /\ resp.code = code /\ Op \in ops
  /\ resp' = NULL

Refused ==
  /\ Answered(0, {"PURCHASE", "VALIDATE", "USE", "RECHARGE"})
  /\ EndKind
  /\ UNCHANGED <<req, svars, store, file, history>>

Validated ==
  /\ Answered(1, {"VALIDATE"})
  /\ NextCard(Received)
  /\ mistaken' = mistaken \cup (IF resp.card = NULL THEN {} ELSE {resp.card.id})
  /\ UNCHANGED <<req, svars, store, file, failures, granted>>

(* write_data_store_hce_card got as far as n of these fields. *)
WithFields(old, card, n) ==
  [expiration_date |-> IF n >= 1 THEN card.expiration_date ELSE old.expiration_date,
   value           |-> IF n = 2 THEN card.value ELSE old.value]

\* Wrong variant: a failed insert is reported as a success.
InsertReturnsAlways(ok) == NextCard(Received) /\ UNCHANGED failures

InsertReturns(ok) ==
  IF ok THEN NextCard(Received) /\ UNCHANGED failures
        ELSE EndKind /\ failures' = failures + 1

StoreCard ==
  /\ Answered(1, {"PURCHASE"})
  /\ \E n \in IF "storage" \in UhceFaults THEN 0 .. 2 ELSE {2} :
       /\ store' = [store EXCEPT ![Received.id] = WithFields(@, Received, n)]
       /\ InsertReturns(n = 2)
  /\ UNCHANGED <<req, svars, file, granted, mistaken>>

(* Not the response to a use or recharge of a stored card: the buffer was  *)
(* cleared, or the card is new.                                            *)
OtherAnswer ==
  Received = Zeros \/ Received.expiration_date # store[Received.id].expiration_date

StoreValue ==
  /\ Answered(1, {"USE", "RECHARGE"})
  /\ \/ /\ store' = [store EXCEPT ![Received.id].value = Received.value]
        /\ mistaken' = mistaken \cup (IF OtherAnswer THEN {Received.id} ELSE {})
        /\ InsertReturns(TRUE)
     \/ /\ "storage" \in UhceFaults
        /\ InsertReturns(FALSE)
        /\ UNCHANGED <<store, mistaken>>
  /\ UNCHANGED <<req, svars, file, granted>>

-----------------------------------------------------------------------------
(* The end of main: the link is closed, the store written to the file.     *)

Stored == {id \in Ids : store[id] # NoCard}

Close ==
  /\ cPc = "closing"
  /\ cPc' = "saving"
  /\ file' = [n_entries |-> Cardinality(Stored),
              cards |-> [id \in {} |-> NoCard], whole |-> FALSE]
  /\ UNCHANGED <<link, svars, kind, i, recv_buf, store, history>>

Written == DOMAIN file.cards

SaveCard ==
  /\ cPc = "saving"
  /\ \E id \in Stored \ Written :
       file' = [file EXCEPT !.cards = [c \in Written \cup {id} |-> store[c]]]
  /\ UNCHANGED <<link, svars, cPc, kind, i, recv_buf, store, history>>

(* fwrite and fclose may have failed: nobody looks. *)
SaveEnds ==
  /\ cPc = "saving" /\ Stored = Written
  /\ cPc' = "saved"
  /\ \E whole \in {TRUE} \cup (IF "storage" \in UhceFaults THEN {FALSE} ELSE {}) :
       file' = [file EXCEPT !.whole = whole]
  /\ UNCHANGED <<link, svars, kind, i, recv_buf, store, history>>

(* fopen fails, and the first fwrite ends the program. *)
CannotSave ==
  /\ "storage" \in UhceFaults
  /\ cPc = "closing"
  /\ cPc' = "ended"
  /\ UNCHANGED <<link, svars, kind, i, recv_buf, store, file, history>>

(* Somebody ends the program: what it has written of the file remains. *)
Killed ==
  /\ "kill" \in UhceFaults
  /\ cPc \notin {"saved", "ended"}
  /\ cPc' = "ended"
  /\ UNCHANGED <<link, svars, kind, i, recv_buf, store, file, history>>

-----------------------------------------------------------------------------
(* Client and terminal together.                                           *)

ServerGrants ==
  /\ process_purchase \/ Perform
  /\ granted' = [granted EXCEPT ![reply'.card.id] = FieldsOf(reply'.card)]
  /\ UNCHANGED <<failures, mistaken>>

ServerWorks ==
  /\ \/ ServerGrants
     \/ /\ ServerReceive \/ process_validate \/ Decline \/ ServerSend
        /\ UNCHANGED history
  /\ UNCHANGED cvars

ServerStops == (ServerReceiveFails \/ ServerSendFails) /\ UNCHANGED <<cvars, history>>

Ticks == Tick /\ UNCHANGED <<cvars, history>>

ClientWorks ==
  \/ create_request \/ RequestFails \/ ServerGone
  \/ Refused \/ Validated \/ StoreCard \/ StoreValue
  \/ Close \/ SaveCard \/ SaveEnds

ClientFails == NoDevice \/ SelectFails \/ TransceiveFails \/ CannotSave \/ Killed

Next == Select \/ ClientWorks \/ ServerWorks \/ ClientFails \/ ServerStops \/ Ticks

(* As long as client or terminal can take its next step, one of them does; *)
(* a transceive ends when there is a response or nobody left to send one.  *)
(* No fault is obliged to happen.                                          *)
Spec == Init /\ [][Next]_vars /\ WF_vars(ClientWorks \/ ServerWorks)

-----------------------------------------------------------------------------
Fields == [expiration_date : Nat \cup {NULL}, value : Value \cup {NULL}]

(* Types of all variables. *)
TypeOK ==
  /\ req \in Request \cup {NULL} /\ resp \in Response \cup {NULL}
  /\ sPc \in {"starting", "receiving", "processing", "checked", "sending", "exited"}
  /\ new_card_id \in 0 .. MaxCards /\ server = 1 /\ now \in 0 .. MaxTime
  /\ work \in Request \cup {NULL} /\ reply \in Response \cup {NULL}
  /\ cPc \in {"connecting", "looping", "waiting", "closing", "saving", "saved", "ended"}
  /\ kind \in DOMAIN Kinds /\ i \in 0 .. N_RUNS - 1
  /\ recv_buf \in hce_card /\ store \in [Ids -> Fields]
  /\ file.n_entries \in Nat /\ file.whole \in BOOLEAN
  /\ Written \subseteq Ids /\ \A id \in Written : file.cards[id] \in Fields
  /\ failures \in Nat /\ mistaken \subseteq Ids
  /\ granted \in [Ids -> Fields]

(* However responses are lost, late, or taken for the answers to other     *)
(* requests, each card that is not stored as the terminal last made it     *)
(* stands for a failure the client printed or for the request being made;  *)
(* unless its response was taken for an answer that stores less of it, or  *)
(* a cleared buffer for its own.                                           *)
Differing == {id \in Ids \ mistaken : store[id] # granted[id]}

InProgress == IF cPc \in {"waiting", "ended"} THEN 1 ELSE 0

DifferencesCounted == Cardinality(Differing) <= failures + InProgress

(* The evaluation ends, with every card of the store written to the file   *)
(* and, where no write of a file can fail, in it; unless the program ends  *)
(* early.  The terminal's end in the middle, which makes every transceive  *)
(* after it fail, does not keep the client in its loops.                   *)
EvaluationEnds ==
  cPc = "looping" ~>
    \/ cPc = "ended"
    \/ /\ cPc = "saved" /\ file.cards = [id \in Stored |-> store[id]]
       /\ file.whole \/ "storage" \in UhceFaults

=============================================================================
