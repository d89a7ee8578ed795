----------------------------- MODULE HceClient ------------------------------
(***************************************************************************)
(* The payer's device: trusted_hce_client.c runs one operation and exits,  *)
(* evaluate_thce_client.c goes on in the same session while all is well.   *)
(* The trusted application trusted_hce/ta/trusted_hce.c builds the request *)
(* from a card in the trusted data store and applies the response to it.   *)
(* The data store is a map from card numbers to the stored fields, loaded  *)
(* when the run opens its session and saved when the run ends, with the    *)
(* failures of both that TrustedDataStore has.                             *)
(***************************************************************************)
EXTENDS HceCards

CONSTANTS
  ClientFaults,  \* memory: it may run out; storage: the data store's object
                 \* may not be opened or written; gaps: a read or a write of it
                 \* may fail among others; power: the device may go off
  BLANK,         \* a stored field of no bytes, or of bytes that are no value
  StrayDates,    \* bound on the dates found where no date is
  ManyPerRun,    \* whether a run may go on to another operation
  MaxJobs        \* bound on the operations of all runs

ASSUME ClientFaultsAssumption == ClientFaults \subseteq {"memory", "storage", "gaps", "power"}
ASSUME BlankAssumption == BLANK \notin Nat \cup {NULL} /\ StrayDates \subseteq Nat
ASSUME JobsAssumption == ManyPerRun \in BOOLEAN /\ MaxJobs \in Nat

StorageFails == ClientFaults \cap {"memory", "storage"} # {}

(* The fields of a card's key in the data store, each there or not, and    *)
(* (not stored) the server run whose card the value is.                    *)
NoCard == [expiration_date |-> NULL, value |-> NULL, issuer |-> NO_ISSUER]

VARIABLES
  cPc,      \* off, connecting, connected, waiting, closing
  job,      \* operation and arguments in progress
  jobs,     \* operations so far
  wallet,   \* the data store in the trusted application's memory, and
            \* between runs what is on disk
  saved,    \* the data store on disk
  outcome   \* what the last call reported: none, ok, error

cvars == <<cPc, job, jobs, wallet, saved, outcome>>

ClientInit ==
  /\ cPc = "off" /\ job = NULL /\ jobs = 0 /\ outcome = "none"
  /\ wallet = [id \in Ids |-> NoCard]
  /\ saved = wallet

NewJob ==
  /\ jobs < MaxJobs
  /\ jobs' = jobs + 1
  /\ \E op \in Ops, id \in Ids, v \in Amounts :
       job' = [op |-> op, card_id |-> id, value |-> v]
  /\ outcome' = "none"

(* What is left of a card: each of its fields, nothing, or other bytes. *)
Fates == {"kept", "gone", "blank"}

Left(field, fate) ==
  IF fate = "kept" THEN field ELSE IF fate = "blank" THEN BLANK ELSE NULL

CardLeft(card, date, value) ==
  [expiration_date |-> Left(card.expiration_date, date),
   value           |-> Left(card.value, value),
   issuer          |-> IF value = "kept" THEN card.issuer ELSE NO_ISSUER]

(* The data store is loaded.  When its object cannot be opened it is an    *)
(* empty one (tds_storage.c, 119-124); when a read fails among others, or  *)
(* a write did in the save before, what follows is taken for something     *)
(* else.                                                                   *)
Loads ==
  {wallet}
    \cup (IF StorageFails THEN {[id \in Ids |-> NoCard]} ELSE {})
    \cup (IF "gaps" \in ClientFaults
          THEN {[id \in Ids |-> CardLeft(wallet[id], date[id], value[id])] :
                  date \in [Ids -> Fates], value \in [Ids -> Fates]}
          ELSE {})

ClientStart ==
  /\ cPc = "off"
  /\ NewJob
  /\ cPc' = "connecting"
  /\ wallet' \in Loads
  /\ UNCHANGED <<saved, link>>

ClientContinues ==
  /\ ManyPerRun
  /\ cPc = "closing" /\ outcome = "ok"
  /\ NewJob
  /\ cPc' = "connected"
  /\ UNCHANGED <<wallet, saved, link>>

ClientConnect ==
  /\ cPc = "connecting"
  /\ cPc' = "connected"
  /\ UNCHANGED <<job, jobs, wallet, saved, outcome, link>>

GiveUp == cPc' = "closing" /\ outcome' = "error"

ClientConnectFails ==
  /\ cPc = "connecting"
  /\ GiveUp
  /\ UNCHANGED <<job, jobs, wallet, saved, link>>

(* read_tds_hce_card finds both fields. *)
Readable(id) == wallet[id].expiration_date # NULL /\ wallet[id].value # NULL

(* tds_get copies a blank field's other bytes, or none of them: the        *)
(* variable, which is not initialized, then keeps what it holds.           *)
Copied(field, stray) == IF field = BLANK THEN stray ELSE {field}

\* Wrong variant: the number of the card is not filled in.
CardsOfUnnumbered(id) ==
  [id : {0}, expiration_date : Copied(wallet[id].expiration_date, StrayDates),
   value : Copied(wallet[id].value, Value)]

CardsOf(id) ==
  [id : {id}, expiration_date : Copied(wallet[id].expiration_date, StrayDates),
   value : Copied(wallet[id].value, Value)]

(* create_request, and the transceive that sends its packet. *)
create_request ==
  /\ cPc = "connected"
  /\ job.op = "PURCHASE" \/ Readable(job.card_id)
  /\ IF job.op = "PURCHASE"
     THEN req' = [op |-> job.op, card |-> NULL, value |-> job.value, issuer |-> NO_ISSUER]
     ELSE \E card \in CardsOf(job.card_id) :
            req' = [op |-> job.op, card |-> card, value |-> job.value,
                    issuer |-> wallet[job.card_id].issuer]
  /\ cPc' = "waiting"
  /\ UNCHANGED <<job, jobs, wallet, saved, outcome, resp>>

RequestFails ==
  /\ cPc = "connected"
  /\ job.op # "PURCHASE" /\ ~Readable(job.card_id)
  /\ GiveUp
  /\ UNCHANGED <<job, jobs, wallet, saved, link>>

(* The transceive times out, or the response does not decrypt. *)
TransceiveFails ==
  /\ cPc = "waiting"
  /\ GiveUp
  /\ req' = NULL /\ resp' = NULL
  /\ UNCHANGED <<job, jobs, wallet, saved>>

-----------------------------------------------------------------------------
(* process_response.                                                       *)

Report(result) == cPc' = "closing" /\ outcome' = result

(* The card read behind the response code; when none was sent the buffer   *)
(* is zero there.                                                          *)
ReceivedCard ==
  IF resp.card = NULL THEN [id |-> 0, expiration_date |-> 0, value |-> 0] ELSE resp.card

(* A refusal, and the answer to VALIDATE: nothing is stored, and the       *)
(* result is that of process_snfc_packet.                                  *)
NothingToStore ==
  /\ cPc = "waiting" /\ resp # NULL
  /\ resp.code = 0 \/ job.op = "VALIDATE"
  /\ Report("ok")
  /\ resp' = NULL
  /\ UNCHANGED <<job, jobs, wallet, saved, req>>

(* An insert that finds no memory fails and stores nothing, or reports     *)
(* success with no data in the field (data_store.c, 72-76).                *)
InsertFails == "memory" \in ClientFaults

Inserted(v) == IF InsertFails THEN {v, NULL} ELSE {v}

(* write_tds_hce_card: the insert of the id stores nothing that is ever    *)
(* read; after it come the expiration date and the value.                  *)
StoredFields == IF InsertFails THEN 0 .. 2 ELSE {2}

CardWith(old, date, value, n, issuer) ==
  [expiration_date |-> IF n >= 1 THEN date ELSE old.expiration_date,
   value           |-> IF n = 2 THEN value ELSE old.value,
   issuer          |-> IF n = 0 THEN old.issuer
                       ELSE IF n = 2 /\ value # NULL THEN issuer ELSE NO_ISSUER]

StoreCard ==
  /\ cPc = "waiting" /\ resp # NULL
  /\ resp.code = 1 /\ job.op = "PURCHASE"
  /\ \E n \in StoredFields, date \in Inserted(ReceivedCard.expiration_date),
        value \in Inserted(ReceivedCard.value) :
       /\ wallet' = [wallet EXCEPT ![ReceivedCard.id] =
                       CardWith(@, date, value, n, resp.issuer)]
       /\ Report(IF n = 2 THEN "ok" ELSE "error")
  /\ resp' = NULL
  /\ UNCHANGED <<job, jobs, saved, req>>

(* USE and RECHARGE: the value goes to the card the response names. *)
WithValue(card, value) ==
  [card EXCEPT !.value = value, !.issuer = IF value = NULL THEN NO_ISSUER ELSE @]

StoreValue ==
  /\ cPc = "waiting" /\ resp # NULL
  /\ resp.code = 1 /\ job.op \in {"USE", "RECHARGE"}
  /\ \/ \E value \in Inserted(ReceivedCard.value) :
          /\ wallet' = [wallet EXCEPT ![ReceivedCard.id] = WithValue(@, value)]
          /\ Report("ok")
     \/ /\ InsertFails
        /\ Report("error")
        /\ UNCHANGED wallet
  /\ resp' = NULL
  /\ UNCHANGED <<job, jobs, saved, req>>

(* An insert that goes on with a null pointer ends the data store: what    *)
(* was not saved is gone, and when the run ends nothing is.                *)
InsertPanics ==
  /\ InsertFails
  /\ cPc = "waiting" /\ resp # NULL
  /\ resp.code = 1 /\ job.op # "VALIDATE"
  /\ wallet' = saved
  /\ cPc' = "off" /\ outcome' = "error"
  /\ resp' = NULL
  /\ UNCHANGED <<job, jobs, saved, req>>

-----------------------------------------------------------------------------
(* The run ends: closing the last session saves the data store.            *)
ClientClose ==
  /\ cPc = "closing"
  /\ saved' = wallet
  /\ cPc' = "off"
  /\ UNCHANGED <<job, jobs, wallet, outcome, link>>

(* The object cannot be created: the run is lost, and nobody is told.      *)
SaveRefused ==
  /\ cPc = "closing" /\ StorageFails
  /\ wallet' = saved
  /\ cPc' = "off"
  /\ UNCHANGED <<job, jobs, saved, outcome, link>>

(* The save has emptied the object when it is cut short, by the power, by  *)
(* writes that fail, or by data that is missing: cards are whole or gone,  *)
(* but for one.  What was saved before is gone.                            *)
SaveCut ==
  /\ cPc = "closing" /\ ClientFaults # {}
  /\ \E cut \in Ids : \E whole \in SUBSET (Ids \ {cut}), date, value \in Fates :
       wallet' = [id \in Ids |-> IF id = cut THEN CardLeft(wallet[id], date, value)
                                 ELSE IF id \in whole THEN wallet[id] ELSE NoCard]
  /\ saved' = wallet'
  /\ cPc' = "off"
  /\ UNCHANGED <<job, jobs, outcome, link>>

(* The device loses power, and not during the save: what was not saved is  *)
(* gone.                                                                   *)
ClientCrash ==
  /\ "power" \in ClientFaults
  /\ cPc # "off"
  /\ wallet' = saved
  /\ cPc' = "off"
  /\ outcome' = "error"
  /\ req' = NULL /\ resp' = NULL
  /\ UNCHANGED <<job, jobs, saved>>

=============================================================================
