-------------------------------- MODULE Hce ---------------------------------
(***************************************************************************)
(* Client and server together, and a ledger of what they did to each card. *)
(* The ledger is no part of the program: it remembers what the server      *)
(* granted, so that what the client's store holds can be compared with it. *)
(***************************************************************************)
EXTENDS HceServer, HceClient

VARIABLES
  ledger,   \* per issued card: net value granted, what failed or was undone
  zeroed    \* whether a response without its card was stored

vars == <<link, svars, cvars, ledger, zeroed>>

(* A card is known by its number and by the server run that issued it.     *)
Cards == (1 .. MaxServers) \X Ids

NoEntry ==
  [balance |-> 0, failedUses |-> 0, failedCredit |-> 0, unsavedUses |-> 0, unsavedCredit |-> 0]

Init ==
  /\ LinkInit /\ ServerInit /\ ClientInit
  /\ ledger = [c \in Cards |-> NoEntry]
  /\ zeroed = FALSE

-----------------------------------------------------------------------------
(* Bookkeeping.                                                            *)

Credit(c, v) ==
  ledger' = IF c \in Cards THEN [ledger EXCEPT ![c].balance = @ + v] ELSE ledger

(* The stored card the operation in progress is about.  When the operation *)
(* fails the client cannot know whether the server performed it.           *)
JobCard == <<wallet[job.card_id].issuer, job.card_id>>

Uses == IF job.op = "USE" THEN 1 ELSE 0
Credits == IF job.op = "RECHARGE" THEN job.value ELSE 0

Doubted(l) ==
  IF JobCard \in Cards
  THEN [l EXCEPT ![JobCard].failedUses = @ + Uses, ![JobCard].failedCredit = @ + Credits]
  ELSE l

Unsaved(l) ==
  IF JobCard \in Cards
  THEN [l EXCEPT ![JobCard].unsavedUses = @ + Uses, ![JobCard].unsavedCredit = @ + Credits]
  ELSE l

Saved(l) ==
  [c \in Cards |-> [l[c] EXCEPT !.unsavedUses = 0, !.unsavedCredit = 0]]

(* What was not saved is undone, and so joins the failures. *)
Undone(l) ==
  [c \in Cards |->
     [l[c] EXCEPT !.failedUses = @ + l[c].unsavedUses, !.unsavedUses = 0,
                  !.failedCredit = @ + l[c].unsavedCredit, !.unsavedCredit = 0]]

-----------------------------------------------------------------------------
(* The handshake starts a session on both sides, or fails on either.       *)
Handshake ==
  /\ ClientConnect \/ ClientConnectFails
  /\ ServerStarted \/ ServerStartFails
  /\ UNCHANGED <<ledger, zeroed>>

NobodyThere ==
  /\ ClientConnectFails
  /\ UNCHANGED <<svars, ledger, zeroed>>

ServerPurchase ==
  /\ process_purchase
  /\ Credit(<<server, new_card_id>>, work.value)
  /\ UNCHANGED <<cvars, zeroed>>

ServerPerform ==
  /\ Perform
  /\ Credit(<<work.issuer, work.card.id>>, IF work.op = "USE" THEN -PRICE ELSE work.value)
  /\ UNCHANGED <<cvars, zeroed>>

(* The response goes out while the client waits for it. *)
ServerAnswers ==
  /\ cPc = "waiting"
  /\ ServerSend
  /\ UNCHANGED <<cvars, ledger, zeroed>>

ServerOther ==
  /\ \/ ServerReceive \/ ServerReceiveFails \/ process_validate \/ Decline
     \/ ServerSendFails \/ ServerRestart \/ Tick
  /\ UNCHANGED <<cvars, ledger, zeroed>>

ClientOther ==
  /\ \/ ClientStart \/ ClientContinues \/ create_request \/ RequestFails
     \/ NothingToStore \/ StoreCard
  /\ UNCHANGED <<svars, ledger, zeroed>>

ClientStoreValue ==
  /\ StoreValue
  /\ ledger' = IF outcome' = "error" THEN Doubted(ledger) ELSE Unsaved(ledger)
  /\ zeroed' = (zeroed \/ (outcome' = "ok" /\ resp.card = NULL))
  /\ UNCHANGED svars

ClientTransceiveFails ==
  /\ TransceiveFails
  /\ ledger' = Doubted(ledger)
  /\ UNCHANGED <<svars, zeroed>>

ClientSaves ==
  /\ ClientClose \/ SaveCut
  /\ ledger' = Saved(ledger)
  /\ UNCHANGED <<svars, zeroed>>

ClientLosesRun ==
  /\ SaveRefused
  /\ ledger' = Undone(ledger)
  /\ UNCHANGED <<svars, zeroed>>

ClientStoreDies ==
  /\ InsertPanics
  /\ ledger' = Undone(Doubted(ledger))
  /\ UNCHANGED <<svars, zeroed>>

ClientPowerLoss ==
  /\ ClientCrash
  /\ ledger' = Undone(IF cPc = "waiting" THEN Doubted(ledger) ELSE ledger)
  /\ UNCHANGED <<svars, zeroed>>

Next ==
  \/ Handshake \/ NobodyThere
  \/ ServerPurchase \/ ServerPerform \/ ServerAnswers \/ ServerOther
  \/ ClientOther \/ ClientStoreValue \/ ClientTransceiveFails \/ ClientStoreDies
  \/ ClientSaves \/ ClientLosesRun \/ ClientPowerLoss

Spec == Init /\ [][Next]_vars

-----------------------------------------------------------------------------
StoredCard ==
  [expiration_date : Nat \cup {NULL, BLANK}, value : Value \cup {NULL, BLANK}, issuer : Issuer]

(* Types of all variables. *)
TypeOK ==
  /\ req \in Request \cup {NULL} /\ resp \in Response \cup {NULL}
  /\ sPc \in {"starting", "receiving", "processing", "checked", "sending", "exited"}
  /\ new_card_id \in 0 .. MaxCards /\ server \in 1 .. MaxServers
  /\ work \in Request \cup {NULL} /\ reply \in Response \cup {NULL}
  /\ now \in 0 .. MaxTime
  /\ cPc \in {"off", "connecting", "connected", "waiting", "closing"}
  /\ job \in [op : Ops, card_id : Ids, value : Amounts] \cup {NULL}
  /\ jobs \in 0 .. MaxJobs
  /\ wallet \in [Ids -> StoredCard] /\ saved \in [Ids -> StoredCard]
  /\ outcome \in {"none", "ok", "error"}
  /\ ledger \in [Cards -> [balance : Int, failedUses : Nat, failedCredit : Nat,
                        unsavedUses : Nat, unsavedCredit : Nat]]
  /\ zeroed \in BOOLEAN

(* Whenever no request is under way, a value that the client has is what   *)
(* the terminals granted the card, up to the operations that the client    *)
(* saw fail and those of runs whose cards did not reach the disk (a save   *)
(* refused, a power cut, a data store that ended): at most one unspent     *)
(* price for each of those uses, at most the amounts of those recharges    *)
(* missing.  Lost messages, failed loads, inserts and saves and terminal   *)
(* restarts lose whole values and blank them, and never put any other in   *)
(* their place.  (All modulo the range of the value: a recharge may wrap.  *)
(* A field of other bytes holds no granted value any more.  Card 0 is      *)
(* exempt once a response without a card was stored.)                      *)
Explained(id) ==
  LET l == ledger[<<wallet[id].issuer, id>>]
  IN  \E d \in -l.failedCredit .. l.failedUses * PRICE :
        wallet[id].value = (l.balance + d) % ValueRange

DifferencesExplained ==
  cPc \in {"off", "connecting", "connected"} =>
    \A id \in Ids :
      wallet[id].issuer # NO_ISSUER /\ (id = 0 => ~zeroed) => Explained(id)

(* A purchase never writes over a card that the same run of the server     *)
(* issued (after a restart the numbers begin again, and it may).           *)
PurchaseKeepsCards ==
  [][StoreCard /\ wallet' # wallet => wallet[ReceivedCard.id].issuer # resp.issuer]_vars

(* A use or recharge changes the stored value of the card it was made for  *)
(* and of no other, except that a card which expires between the server's  *)
(* two looks at the clock makes the client write card 0.                   *)
OnlyJobCardChanges ==
  [][StoreValue =>
       \A id \in Ids \ {job.card_id} :
         wallet'[id] # wallet[id] => id = 0 /\ resp.card = NULL]_vars

=============================================================================
