----------------------------- MODULE HceProofs ------------------------------
(***************************************************************************)
(* That a client applies a response to the card its request was for, and   *)
(* that a purchase never writes over a card of the same server run, for    *)
(* every number of cards, server runs and operations.                      *)
(*                                                                         *)
(* Neither follows from the types.  A response is for the job in progress  *)
(* because a request, the work made of it and the answer exist one at a    *)
(* time while the client waits (LinkInv), each made from the one before    *)
(* (ForJob, Answers); and a purchased card is new because every card       *)
(* anywhere was numbered before the counter's value (Issued).              *)
(* The last part shows that every difference between the value of a card   *)
(* as the client holds it and as the terminals granted it is explained.    *)
(***************************************************************************)
EXTENDS Hce, TLAPS

Job == [op : Ops, card_id : Ids, value : Amounts]

Idle == {"starting", "receiving", "exited"}
Waiting == cPc = "waiting"

(* The server run and counter have passed this card. *)
Issued(issuer, id) ==
  issuer <= server /\ (issuer = server => id < new_card_id)

(* What a request is, the client's or the server's copy of it.             *)
WellFormed(r) ==
  /\ r \in Request
  /\ r.op # "PURCHASE" => r.card \in hce_card /\ Issued(r.issuer, r.card.id)

(* A request made for the job in progress. *)
ForJob(r) ==
  /\ r.op = job.op /\ r.value = job.value
  /\ job.op # "PURCHASE" => /\ r.card \in CardsOf(job.card_id)
                            /\ r.issuer = wallet[job.card_id].issuer

(* A response to the job in progress. *)
Answers(r) ==
  /\ job.op = "PURCHASE" =>
       /\ r.code = 1 /\ r.card \in hce_card
       /\ r.issuer # NO_ISSUER /\ Issued(r.issuer, r.card.id)
       /\ wallet[r.card.id].issuer # r.issuer
  /\ job.op = "VALIDATE" => r.card = NULL
  /\ job.op \in {"USE", "RECHARGE"} /\ r.card # NULL =>
       r.code = 1 /\ r.card.id = job.card_id

LinkInv ==
  /\ sPc \in Idle => work = NULL /\ reply = NULL
  /\ sPc \notin Idle => WellFormed(work)
  /\ sPc \in {"checked", "sending"} => reply \in Response
  /\ sPc = "checked" => work.op \in {"USE", "RECHARGE"} /\ reply.card = NULL
  /\ cPc # "off" => job \in Job
  /\ req # NULL => Waiting /\ sPc \in Idle /\ resp = NULL /\ WellFormed(req) /\ ForJob(req)
  /\ Waiting /\ sPc \notin Idle => ForJob(work)
  /\ Waiting /\ sPc = "sending" => Answers(reply)
  /\ resp # NULL => Waiting /\ sPc \in Idle /\ Answers(resp)
  /\ cPc = "connected" \/ (cPc = "closing" /\ outcome = "ok") => sPc \in Idle

(* The terminal's clock only goes forward: what was refused stays refused. *)
RefusedInv ==
  sPc \in {"checked", "sending"} /\ work.op # "PURCHASE" /\ reply.code = 0
    => ~Valid(work.card)

(* A stored card was numbered before the counter's value, and one that     *)
(* still counts as granted by a server run has its value.                  *)
Sound(card, id) ==
  Issued(card.issuer, id) /\ (card.issuer # NO_ISSUER => card.value \in Value)

CounterInv ==
  \A id \in Ids : Sound(wallet[id], id) /\ Sound(saved[id], id)

CardsInv == TypeOK /\ LinkInv /\ RefusedInv /\ CounterInv
-----------------------------------------------------------------------------
USE ValueRangeAssumption, AmountsAssumption, CardBoundsAssumption, NullMessageAssumption,
    TimeAssumption, ClientFaultsAssumption, BlankAssumption, JobsAssumption

(* What the server makes of a card is a card, of the same number. *)
LEMMA ServedCard ==
  ASSUME NEW card \in hce_card, NEW v \in Value
  PROVE  /\ Used(card) \in hce_card /\ Used(card).id = card.id
         /\ Recharged(card, v) \in hce_card /\ Recharged(card, v).id = card.id
BY DEF Used, Recharged, Updated, hce_card, Value, PRICE

(* What an insert leaves of a field. *)
LEMMA InsertedField ==
  ASSUME NEW v, NEW x \in Inserted(v)
  PROVE  x = v \/ x = NULL
BY DEF Inserted

LEMMA RevaluedCard ==
  ASSUME NEW card \in StoredCard, NEW value
  PROVE  /\ WithValue(card, value).value = value
         /\ WithValue(card, value).issuer = IF value = NULL THEN NO_ISSUER ELSE card.issuer
         /\ value \in Value \cup {NULL} => WithValue(card, value) \in StoredCard
<1> DEFINE i == IF value = NULL THEN NO_ISSUER ELSE card.issuer
<1>1. i \in Issuer
  BY DEF StoredCard, Issuer, NO_ISSUER
<1>2. WithValue(card, value) = [card EXCEPT !.value = value, !.issuer = i]
  BY DEF WithValue, StoredCard
<1> HIDE DEF i
<1>3. /\ [card EXCEPT !.value = value, !.issuer = i].value = value
      /\ [card EXCEPT !.value = value, !.issuer = i].issuer = i
  BY DEF StoredCard
<1>4. ASSUME value \in Value \cup {NULL}
      PROVE  [card EXCEPT !.value = value, !.issuer = i] \in StoredCard
  BY <1>1, <1>4 DEF StoredCard
<1> QED
  BY <1>2, <1>3, <1>4 DEF i

(* The card read from the store is whole, and has the number it was asked  *)
(* for.                                                                    *)
LEMMA CardRead ==
  ASSUME TypeOK, NEW id \in Ids, Readable(id), NEW card \in CardsOf(id)
  PROVE  card \in hce_card /\ card.id = id
<1>1. wallet[id] \in StoredCard
  BY DEF TypeOK
<1>2. /\ Copied(wallet[id].expiration_date, StrayDates) \subseteq Nat
      /\ Copied(wallet[id].value, Value) \subseteq Value
  BY <1>1 DEF Copied, Readable, StoredCard
<1> QED
  BY <1>2 DEF CardsOf, hce_card

(* So is the card read from a response, whether or not one was sent. *)
LEMMA CardReceived ==
  ASSUME TypeOK, resp # NULL
  PROVE  /\ ReceivedCard \in hce_card
         /\ resp.card # NULL => ReceivedCard = resp.card
         /\ resp.card = NULL => ReceivedCard.id = 0
BY DEF ReceivedCard, hce_card, TypeOK, Response, Ids, Value

Entry == [balance : Int, failedUses : Nat, failedCredit : Nat,
          unsavedUses : Nat, unsavedCredit : Nat]

(* The bookkeeping of failures. *)
LEMMA JobAmounts ==
  ASSUME job \in Job
  PROVE  Uses \in Nat /\ Credits \in Nat
<1>1. job.value \in Amounts
  BY DEF Job
<1>2. job.value \in Nat
  <2>1. ASSUME NEW a \in Amounts PROVE a \in Nat
    OBVIOUS
  <2> QED
    BY <1>1, <2>1
<1> QED
  BY <1>2 DEF Uses, Credits

LEMMA EntryChanged ==
  ASSUME NEW e \in Entry, NEW a \in Nat, NEW b \in Nat
  PROVE  /\ [e EXCEPT !.failedUses = a, !.failedCredit = b] \in Entry
         /\ [e EXCEPT !.unsavedUses = a, !.unsavedCredit = b] \in Entry
         /\ [e EXCEPT !.failedUses = a, !.unsavedUses = 0,
                      !.failedCredit = b, !.unsavedCredit = 0] \in Entry
BY DEF Entry

LEMMA LedgerKept ==
  ASSUME NEW l \in [Cards -> Entry], job \in Job
  PROVE  Doubted(l) \in [Cards -> Entry] /\ Unsaved(l) \in [Cards -> Entry]
<1>1. Uses \in Nat /\ Credits \in Nat
  BY JobAmounts
<1>2. ASSUME JobCard \in Cards
      PROVE  Doubted(l) \in [Cards -> Entry] /\ Unsaved(l) \in [Cards -> Entry]
  <2> DEFINE e == l[JobCard]
  <2>1. e \in Entry
    BY <1>2
  <2>2. /\ e.failedUses + Uses \in Nat /\ e.failedCredit + Credits \in Nat
        /\ e.unsavedUses + Uses \in Nat /\ e.unsavedCredit + Credits \in Nat
    BY <1>1, <2>1 DEF Entry
  <2>3. /\ [e EXCEPT !.failedUses = @ + Uses, !.failedCredit = @ + Credits] \in Entry
        /\ [e EXCEPT !.unsavedUses = @ + Uses, !.unsavedCredit = @ + Credits] \in Entry
    BY <2>1, <2>2, EntryChanged
  <2> QED
    BY <1>2, <2>3 DEF Doubted, Unsaved
<1> QED
  BY <1>2 DEF Doubted, Unsaved

LEMMA LedgerClosed ==
  ASSUME NEW l \in [Cards -> Entry]
  PROVE  Saved(l) \in [Cards -> Entry] /\ Undone(l) \in [Cards -> Entry]
<1>1. ASSUME NEW c \in Cards
      PROVE  /\ [l[c] EXCEPT !.unsavedUses = 0, !.unsavedCredit = 0] \in Entry
             /\ [l[c] EXCEPT !.failedUses = @ + l[c].unsavedUses, !.unsavedUses = 0,
                             !.failedCredit = @ + l[c].unsavedCredit, !.unsavedCredit = 0]
                  \in Entry
  <2>1. l[c] \in Entry
    OBVIOUS
  <2>2. /\ l[c].failedUses + l[c].unsavedUses \in Nat
        /\ l[c].failedCredit + l[c].unsavedCredit \in Nat
    BY <2>1 DEF Entry
  <2>3. [l[c] EXCEPT !.unsavedUses = 0, !.unsavedCredit = 0] \in Entry
    BY <2>1, EntryChanged
  <2> QED
    BY <2>1, <2>2, <2>3, EntryChanged
<1> QED
  BY <1>1 DEF Saved, Undone

LEMMA LedgerCredited ==
  ASSUME ledger \in [Cards -> Entry], NEW c, NEW v \in Int, Credit(c, v)
  PROVE  ledger' \in [Cards -> Entry]
<1>1. ASSUME c \in Cards PROVE [ledger[c] EXCEPT !.balance = @ + v] \in Entry
  BY <1>1 DEF Entry
<1> QED
  BY <1>1 DEF Credit

-----------------------------------------------------------------------------
(* The handshake, on either side. *)
LEMMA HandshakeSteps ==
  ASSUME CardsInv, Handshake \/ NobodyThere
  PROVE  CardsInv'
<1> USE DEF svars, cvars, link, Idle, Waiting, GiveUp
<1>1. CASE ClientConnect /\ ServerStarted /\ UNCHANGED <<ledger, zeroed>>
  <2>1. TypeOK'
    BY <1>1 DEF CardsInv, TypeOK, ClientConnect, ServerStarted
  <2>2. LinkInv'
    BY <1>1 DEF CardsInv, TypeOK, LinkInv, ClientConnect, ServerStarted, Issued, WellFormed, ForJob, Answers, CardsOf
  <2>3. RefusedInv'
    BY <1>1 DEF CardsInv, TypeOK, LinkInv, RefusedInv, ClientConnect, ServerStarted, Valid
  <2>4. CounterInv'
    BY <1>1 DEF CardsInv, TypeOK, CounterInv, ClientConnect, ServerStarted, Sound, Issued
  <2> QED
    BY <2>1, <2>2, <2>3, <2>4 DEF CardsInv
<1>2. CASE ClientConnect /\ ServerStartFails /\ UNCHANGED <<ledger, zeroed>>
  <2>1. TypeOK'
    BY <1>2 DEF CardsInv, TypeOK, ClientConnect, ServerStartFails
  <2>2. LinkInv'
    BY <1>2 DEF CardsInv, TypeOK, LinkInv, ClientConnect, ServerStartFails, Issued, WellFormed, ForJob, Answers, CardsOf
  <2>3. RefusedInv'
    BY <1>2 DEF CardsInv, TypeOK, LinkInv, RefusedInv, ClientConnect, ServerStartFails, Valid
  <2>4. CounterInv'
    BY <1>2 DEF CardsInv, TypeOK, CounterInv, ClientConnect, ServerStartFails, Sound, Issued
  <2> QED
    BY <2>1, <2>2, <2>3, <2>4 DEF CardsInv
<1>3. CASE ClientConnectFails /\ ServerStarted /\ UNCHANGED <<ledger, zeroed>>
  <2>1. TypeOK'
    BY <1>3 DEF CardsInv, TypeOK, ClientConnectFails, ServerStarted
  <2>2. LinkInv'
    BY <1>3 DEF CardsInv, TypeOK, LinkInv, ClientConnectFails, ServerStarted, Issued, WellFormed, ForJob, Answers, CardsOf
  <2>3. RefusedInv'
    BY <1>3 DEF CardsInv, TypeOK, LinkInv, RefusedInv, ClientConnectFails, ServerStarted, Valid
  <2>4. CounterInv'
    BY <1>3 DEF CardsInv, TypeOK, CounterInv, ClientConnectFails, ServerStarted, Sound, Issued
  <2> QED
    BY <2>1, <2>2, <2>3, <2>4 DEF CardsInv
<1>4. CASE ClientConnectFails /\ ServerStartFails /\ UNCHANGED <<ledger, zeroed>>
  <2>1. TypeOK'
    BY <1>4 DEF CardsInv, TypeOK, ClientConnectFails, ServerStartFails
  <2>2. LinkInv'
    BY <1>4 DEF CardsInv, TypeOK, LinkInv, ClientConnectFails, ServerStartFails, Issued, WellFormed, ForJob, Answers, CardsOf
  <2>3. RefusedInv'
    BY <1>4 DEF CardsInv, TypeOK, LinkInv, RefusedInv, ClientConnectFails, ServerStartFails, Valid
  <2>4. CounterInv'
    BY <1>4 DEF CardsInv, TypeOK, CounterInv, ClientConnectFails, ServerStartFails, Sound, Issued
  <2> QED
    BY <2>1, <2>2, <2>3, <2>4 DEF CardsInv
<1>5. CASE NobodyThere
  <2>1. TypeOK'
    BY <1>5 DEF CardsInv, TypeOK, NobodyThere, ClientConnectFails
  <2>2. LinkInv'
    BY <1>5 DEF CardsInv, TypeOK, LinkInv, NobodyThere, ClientConnectFails, Issued, WellFormed, ForJob, Answers, CardsOf
  <2>3. RefusedInv'
    BY <1>5 DEF CardsInv, TypeOK, LinkInv, RefusedInv, NobodyThere, ClientConnectFails, Valid
  <2>4. CounterInv'
    BY <1>5 DEF CardsInv, TypeOK, CounterInv, NobodyThere, ClientConnectFails, Sound, Issued
  <2> QED
    BY <2>1, <2>2, <2>3, <2>4 DEF CardsInv
<1> QED
  BY <1>1, <1>2, <1>3, <1>4, <1>5 DEF Handshake

-----------------------------------------------------------------------------
(* The server. *)
LEMMA PurchaseStep ==
  ASSUME CardsInv, ServerPurchase
  PROVE  CardsInv'
<1> USE DEF svars, cvars, link, Idle, Waiting
<1>1. /\ sPc = "processing" /\ work.op = "PURCHASE" /\ new_card_id < MaxCards
      /\ work \in Request /\ work.value \in Value
  BY DEF ServerPurchase, process_purchase, CardsInv, LinkInv, WellFormed, Request
<1>2. /\ reply' \in Response /\ reply'.code = 1 /\ reply'.card \in hce_card
      /\ reply'.issuer = server /\ reply'.card.id = new_card_id
      /\ new_card_id' \in 0 .. MaxCards /\ new_card_id' = new_card_id + 1
  BY <1>1 DEF ServerPurchase, process_purchase, NextCardId, Response, hce_card, Ids, Issuer,
     CardsInv, TypeOK
<1>3. TypeOK'
  <2>1. ledger' \in [Cards -> Entry]
    BY <1>1, LedgerCredited DEF ServerPurchase, Entry, Value, CardsInv, TypeOK
  <2> QED
    BY <1>2, <2>1 DEF ServerPurchase, process_purchase, Entry, CardsInv, TypeOK
<1>4. LinkInv'
  <2>1. WellFormed(work)'
    BY <1>1 DEF ServerPurchase, process_purchase, WellFormed
  <2>2. Waiting => Answers(reply)'
    <3>1. wallet[new_card_id].issuer # server
      BY <1>1, <1>2 DEF CardsInv, CounterInv, Sound, Issued, TypeOK, Ids
    <3>2. Waiting => job.op = "PURCHASE"
      BY <1>1 DEF CardsInv, LinkInv, ForJob
    <3>3. server' = server /\ server \in Nat \ {NO_ISSUER} /\ new_card_id \in Nat
      BY DEF ServerPurchase, process_purchase, CardsInv, TypeOK, NO_ISSUER
    <3>4. UNCHANGED <<cPc, job, wallet>>
      BY DEF ServerPurchase
    <3> QED
      BY <1>2, <3>1, <3>2, <3>3, <3>4 DEF Answers, Issued
  <2> QED
    BY <1>1, <1>2, <2>1, <2>2
    DEF ServerPurchase, process_purchase, CardsInv, LinkInv, ForJob
<1>5. RefusedInv'
  BY <1>1 DEF ServerPurchase, process_purchase, RefusedInv
<1>6. CounterInv'
  BY <1>2 DEF ServerPurchase, process_purchase, CardsInv, CounterInv, Sound, Issued, TypeOK, Ids
<1> QED
  BY <1>3, <1>4, <1>5, <1>6 DEF CardsInv

LEMMA PerformStep ==
  ASSUME CardsInv, ServerPerform
  PROVE  CardsInv'
<1> USE DEF svars, cvars, link, Idle, Waiting
<1>1. /\ sPc = "checked" /\ Valid(work.card) /\ work.op \in {"USE", "RECHARGE"}
      /\ work \in Request /\ work.value \in Value /\ work.card \in hce_card
  BY DEF ServerPerform, Perform, CardsInv, LinkInv, WellFormed, Request
<1>2. /\ reply \in Response /\ reply.code = 1
      /\ reply' = [reply EXCEPT !.card = IF work.op = "USE" THEN Used(work.card)
                                       ELSE Recharged(work.card, work.value)]
  BY <1>1 DEF ServerPerform, Perform, CardsInv, LinkInv, RefusedInv, Response
<1>3. /\ reply' \in Response /\ reply'.code = 1
      /\ reply'.card \in hce_card /\ reply'.card.id = work.card.id
  BY <1>1, <1>2, ServedCard DEF Response
<1>4. TypeOK'
  <2>1. ledger' \in [Cards -> Entry]
    BY <1>1, LedgerCredited DEF ServerPerform, Entry, Value, PRICE, CardsInv, TypeOK
  <2> QED
    BY <1>3, <2>1 DEF ServerPerform, Perform, Entry, CardsInv, TypeOK
<1>5. LinkInv'
  <2>1. WellFormed(work)'
    BY <1>1 DEF ServerPerform, Perform, CardsInv, LinkInv, WellFormed, Issued
  <2>2. ASSUME Waiting PROVE Answers(reply)'
    <3>1. job.op = work.op /\ work.card \in CardsOf(job.card_id)
      BY <1>1, <2>2 DEF CardsInv, LinkInv, ForJob
    <3>2. work.card.id = job.card_id
      BY <3>1 DEF CardsOf
    <3> QED
      BY <1>1, <1>3, <3>1, <3>2 DEF Answers, ServerPerform, Perform
  <2> QED
    BY <1>1, <1>3, <2>1, <2>2 DEF ServerPerform, Perform, CardsInv, LinkInv, ForJob, CardsOf
<1>6. RefusedInv'
  BY <1>3 DEF ServerPerform, Perform, RefusedInv
<1>7. CounterInv'
  BY DEF ServerPerform, Perform, CardsInv, CounterInv, Sound, Issued
<1> QED
  BY <1>4, <1>5, <1>6, <1>7 DEF CardsInv

LEMMA ValidateStep ==
  ASSUME CardsInv, process_validate, UNCHANGED <<cvars, ledger, zeroed>>
  PROVE  CardsInv'
<1> USE DEF svars, cvars, link, Idle, Waiting
<1>1. /\ sPc = "processing" /\ work.op # "PURCHASE" /\ work \in Request
      /\ sPc' = IF work.op = "VALIDATE" THEN "sending" ELSE "checked"
  BY DEF process_validate, CardsInv, LinkInv, WellFormed
<1>2. /\ reply' \in Response /\ reply'.card = NULL
      /\ reply'.code = IF Valid(work.card) THEN 1 ELSE 0
  BY <1>1 DEF process_validate, Response, Request
<1>3. TypeOK'
  BY <1>2 DEF process_validate, CardsInv, TypeOK
<1>4. LinkInv'
  <2>1. ASSUME Waiting, work.op = "VALIDATE" PROVE Answers(reply)'
    BY <1>1, <1>2, <2>1 DEF Answers, process_validate, CardsInv, LinkInv, ForJob
  <2>2. work.op # "VALIDATE" => work.op \in {"USE", "RECHARGE"}
    BY <1>1 DEF Request, Ops
  <2> QED
    BY <1>1, <1>2, <2>1, <2>2
    DEF process_validate, CardsInv, LinkInv, ForJob, WellFormed, Issued, CardsOf
<1>5. RefusedInv'
  BY <1>2 DEF process_validate, RefusedInv, Valid
<1>6. CounterInv'
  BY DEF process_validate, CardsInv, CounterInv, Sound, Issued
<1> QED
  BY <1>3, <1>4, <1>5, <1>6 DEF CardsInv

LEMMA RestartStep ==
  ASSUME CardsInv, ServerRestart, UNCHANGED <<cvars, ledger, zeroed>>
  PROVE  CardsInv'
<1> USE DEF svars, cvars, link, Idle, Waiting
<1>1. /\ sPc = "exited" /\ sPc' = "starting" /\ server' = server + 1
      /\ UNCHANGED <<work, reply, now, req, resp, cvars, ledger, zeroed>>
  BY DEF ServerRestart
<1>2. TypeOK'
  BY DEF ServerRestart, CardsInv, TypeOK
<1>3. ASSUME NEW i \in Issuer, NEW id \in Ids, Issued(i, id) PROVE Issued(i, id)'
  BY <1>1, <1>3 DEF Issued, CardsInv, TypeOK, Issuer
<1>4. LinkInv'
  <2>1. req # NULL => WellFormed(req)'
    BY <1>1, <1>3 DEF CardsInv, LinkInv, WellFormed, Request, hce_card
  <2>2. resp # NULL => Answers(resp)'
    BY <1>1, <1>3 DEF CardsInv, LinkInv, Answers, TypeOK, Response, hce_card
  <2> QED
    BY <1>1, <2>1, <2>2 DEF CardsInv, LinkInv, ForJob, CardsOf
<1>5. RefusedInv'
  BY <1>1 DEF RefusedInv
<1>6. CounterInv'
  BY <1>1, <1>3 DEF CardsInv, CounterInv, Sound, TypeOK, StoredCard
<1> QED
  BY <1>2, <1>4, <1>5, <1>6 DEF CardsInv

LEMMA ServerSteps ==
  ASSUME CardsInv, ServerPurchase \/ ServerPerform \/ ServerAnswers \/ ServerOther
  PROVE  CardsInv'
<1> USE DEF svars, cvars, link, Idle, Waiting
<1>1. CASE ServerAnswers
  <2>1. TypeOK'
    BY <1>1 DEF CardsInv, TypeOK, ServerAnswers, ServerSend
  <2>2. LinkInv'
    BY <1>1 DEF CardsInv, TypeOK, LinkInv, ServerAnswers, ServerSend, Issued, WellFormed, ForJob, Answers, CardsOf
  <2>3. RefusedInv'
    BY <1>1 DEF CardsInv, TypeOK, LinkInv, RefusedInv, ServerAnswers, ServerSend, Valid
  <2>4. CounterInv'
    BY <1>1 DEF CardsInv, TypeOK, CounterInv, ServerAnswers, ServerSend, Sound, Issued
  <2> QED
    BY <2>1, <2>2, <2>3, <2>4 DEF CardsInv
<1>2. CASE ServerReceive /\ UNCHANGED <<cvars, ledger, zeroed>>
  <2>1. TypeOK'
    BY <1>2 DEF CardsInv, TypeOK, ServerReceive
  <2>2. LinkInv'
    BY <1>2 DEF CardsInv, TypeOK, LinkInv, ServerReceive, Issued, WellFormed, ForJob, Answers, CardsOf
  <2>3. RefusedInv'
    BY <1>2 DEF CardsInv, TypeOK, LinkInv, RefusedInv, ServerReceive, Valid
  <2>4. CounterInv'
    BY <1>2 DEF CardsInv, TypeOK, CounterInv, ServerReceive, Sound, Issued
  <2> QED
    BY <2>1, <2>2, <2>3, <2>4 DEF CardsInv
<1>3. CASE ServerReceiveFails /\ UNCHANGED <<cvars, ledger, zeroed>>
  <2>1. TypeOK'
    BY <1>3 DEF CardsInv, TypeOK, ServerReceiveFails
  <2>2. LinkInv'
    BY <1>3 DEF CardsInv, TypeOK, LinkInv, ServerReceiveFails, Issued, WellFormed, ForJob, Answers, CardsOf
  <2>3. RefusedInv'
    BY <1>3 DEF CardsInv, TypeOK, LinkInv, RefusedInv, ServerReceiveFails, Valid
  <2>4. CounterInv'
    BY <1>3 DEF CardsInv, TypeOK, CounterInv, ServerReceiveFails, Sound, Issued
  <2> QED
    BY <2>1, <2>2, <2>3, <2>4 DEF CardsInv
<1>4. CASE Decline /\ UNCHANGED <<cvars, ledger, zeroed>>
  <2>1. TypeOK'
    BY <1>4 DEF CardsInv, TypeOK, Decline
  <2>2. LinkInv'
    BY <1>4 DEF CardsInv, TypeOK, LinkInv, Decline, Issued, WellFormed, ForJob, Answers, CardsOf
  <2>3. RefusedInv'
    BY <1>4 DEF CardsInv, TypeOK, LinkInv, RefusedInv, Decline, Valid
  <2>4. CounterInv'
    BY <1>4 DEF CardsInv, TypeOK, CounterInv, Decline, Sound, Issued
  <2> QED
    BY <2>1, <2>2, <2>3, <2>4 DEF CardsInv
<1>5. CASE ServerSendFails /\ UNCHANGED <<cvars, ledger, zeroed>>
  <2>1. TypeOK'
    BY <1>5 DEF CardsInv, TypeOK, ServerSendFails
  <2>2. LinkInv'
    BY <1>5 DEF CardsInv, TypeOK, LinkInv, ServerSendFails, Issued, WellFormed, ForJob, Answers, CardsOf
  <2>3. RefusedInv'
    BY <1>5 DEF CardsInv, TypeOK, LinkInv, RefusedInv, ServerSendFails, Valid
  <2>4. CounterInv'
    BY <1>5 DEF CardsInv, TypeOK, CounterInv, ServerSendFails, Sound, Issued
  <2> QED
    BY <2>1, <2>2, <2>3, <2>4 DEF CardsInv
<1>6. CASE Tick /\ UNCHANGED <<cvars, ledger, zeroed>>
  <2>1. TypeOK'
    BY <1>6 DEF CardsInv, TypeOK, Tick
  <2>2. LinkInv'
    BY <1>6 DEF CardsInv, TypeOK, LinkInv, Tick, Issued, WellFormed, ForJob, Answers, CardsOf
  <2>3. RefusedInv'
    <3>1. sPc \in {"checked", "sending"} /\ work.op # "PURCHASE" => work.card \in hce_card
      BY DEF CardsInv, LinkInv, WellFormed
    <3> QED
      BY <1>6, <3>1 DEF CardsInv, TypeOK, RefusedInv, Tick, Valid, hce_card
  <2>4. CounterInv'
    BY <1>6 DEF CardsInv, TypeOK, CounterInv, Tick, Sound, Issued
  <2> QED
    BY <2>1, <2>2, <2>3, <2>4 DEF CardsInv
<1> QED
  BY <1>1, <1>2, <1>3, <1>4, <1>5, <1>6, PurchaseStep, PerformStep, ValidateStep, RestartStep
  DEF ServerOther

-----------------------------------------------------------------------------
(* The client. *)
(* The request that is sent is one, and is for the job. *)
LEMMA RequestMade ==
  ASSUME CardsInv, create_request
  PROVE  WellFormed(req') /\ ForJob(req')
<1> USE DEF svars, cvars, link, Idle, Waiting
<1>1. /\ cPc = "connected" /\ cPc' = "waiting" /\ job \in Job /\ sPc \in Idle
      /\ req = NULL /\ resp = NULL
  BY DEF create_request, CardsInv, LinkInv
<1>2. Amounts \subseteq Value
  BY DEF Value
<1>3. CASE job.op = "PURCHASE"
  BY <1>1, <1>2, <1>3
  DEF create_request, WellFormed, ForJob, Request, Job, Issuer, NO_ISSUER
<1>4. CASE job.op # "PURCHASE"
  <2>0. PICK card \in CardsOf(job.card_id) :
          req' = [op |-> job.op, card |-> card, value |-> job.value,
                  issuer |-> wallet[job.card_id].issuer]
    BY <1>4 DEF create_request
  <2>1. card \in hce_card /\ card.id = job.card_id
    BY <1>1, <1>4, CardRead DEF create_request, Job, CardsInv
  <2>2. Issued(wallet[job.card_id].issuer, job.card_id)
    BY <1>1 DEF CardsInv, CounterInv, Sound, Job
  <2>3. req' \in Request
    BY <1>1, <1>2, <2>0, <2>1 DEF Request, Job, CardsInv, TypeOK, StoredCard
  <2> QED
    BY <2>0, <2>1, <2>2, <2>3 DEF WellFormed, ForJob
<1> QED
  BY <1>3, <1>4

LEMMA RequestStep ==
  ASSUME CardsInv, create_request, UNCHANGED <<svars, ledger, zeroed>>
  PROVE  CardsInv'
<1> USE DEF svars, cvars, link, Idle, Waiting
<1>1. /\ cPc = "connected" /\ cPc' = "waiting" /\ job \in Job /\ sPc \in Idle
      /\ req = NULL /\ resp = NULL
  BY DEF create_request, CardsInv, LinkInv
<1>3. WellFormed(req') /\ ForJob(req')
  BY RequestMade
<1>4. TypeOK'
  BY <1>3 DEF create_request, WellFormed, CardsInv, TypeOK
<1>5. LinkInv'
  <2>1. WellFormed(req)' /\ ForJob(req)'
    BY <1>3 DEF create_request, WellFormed, ForJob, Issued, CardsOf
  <2> QED
    BY <1>1, <2>1 DEF create_request, CardsInv, LinkInv
<1>6. RefusedInv'
  BY DEF create_request, CardsInv, RefusedInv, Valid
<1>7. CounterInv'
  BY DEF create_request, CardsInv, CounterInv, Sound, Issued
<1> QED
  BY <1>4, <1>5, <1>6, <1>7 DEF CardsInv

(* A purchased card is stored. *)
LEMMA CardStep ==
  ASSUME CardsInv, StoreCard, UNCHANGED <<svars, ledger, zeroed>>
  PROVE  CardsInv'
<1> USE DEF svars, cvars, link, Idle, Waiting, Report
<1>1. /\ cPc = "waiting" /\ resp # NULL /\ req = NULL /\ sPc \in Idle
      /\ resp \in Response /\ resp.card \in hce_card /\ Issued(resp.issuer, resp.card.id)
      /\ ReceivedCard = resp.card
  BY CardReceived DEF StoreCard, CardsInv, LinkInv, Answers, TypeOK
<1>2. PICK n \in StoredFields, date \in Inserted(ReceivedCard.expiration_date),
           value \in Inserted(ReceivedCard.value) :
        wallet' = [wallet EXCEPT ![ReceivedCard.id] =
                     CardWith(@, date, value, n, resp.issuer)]
  BY DEF StoreCard
<1>8. date \in Nat \cup {NULL} /\ value \in Value \cup {NULL}
  <2>1. /\ date = ReceivedCard.expiration_date \/ date = NULL
        /\ value = ReceivedCard.value \/ value = NULL
    BY InsertedField
  <2> QED
    BY <1>1, <2>1 DEF hce_card
<1>3. ASSUME NEW id \in Ids
      PROVE  wallet'[id] \in StoredCard /\ Sound(wallet'[id], id)
  <2>1. wallet[id] \in StoredCard /\ Sound(wallet[id], id) /\ Issued(NO_ISSUER, id)
    BY DEF CardsInv, CounterInv, TypeOK, Issued, NO_ISSUER
  <2>2. CASE id = resp.card.id
    <3>1. wallet'[id] = CardWith(wallet[id], date, value, n, resp.issuer)
      BY <1>1, <1>2, <2>2 DEF CardsInv, TypeOK
    <3>2. wallet'[id] \in StoredCard
      BY <1>1, <1>8, <2>1, <3>1 DEF CardWith, StoredCard, hce_card, Response, Issuer, NO_ISSUER
    <3>3. \/ wallet'[id].issuer = NO_ISSUER
          \/ /\ wallet'[id].issuer = wallet[id].issuer
             /\ wallet'[id].value = wallet[id].value
          \/ wallet'[id].issuer = resp.issuer /\ wallet'[id].value \in Value
      BY <1>8, <3>1 DEF CardWith
    <3> QED
      BY <1>1, <2>1, <2>2, <3>2, <3>3 DEF Sound
  <2>3. CASE id # resp.card.id
    BY <1>1, <1>2, <2>1, <2>3 DEF CardsInv, TypeOK
  <2> QED
    BY <2>2, <2>3
<1>4. TypeOK'
  <2>1. wallet' \in [Ids -> StoredCard]
    BY <1>2, <1>3 DEF CardsInv, TypeOK
  <2> QED
    BY <2>1 DEF StoreCard, CardsInv, TypeOK
<1>5. LinkInv'
  BY <1>1 DEF StoreCard, CardsInv, LinkInv
<1>6. RefusedInv'
  BY <1>1 DEF StoreCard, RefusedInv
<1>7. CounterInv'
  BY <1>3 DEF StoreCard, CardsInv, CounterInv, Sound, Issued
<1> QED
  BY <1>4, <1>5, <1>6, <1>7 DEF CardsInv

(* The value of a use or recharge is stored, or cannot be. *)
LEMMA ValueStep ==
  ASSUME CardsInv, ClientStoreValue
  PROVE  CardsInv'
<1> USE DEF svars, cvars, link, Idle, Waiting, Report
<1>1. /\ cPc = "waiting" /\ resp # NULL /\ req = NULL /\ sPc \in Idle
      /\ job \in Job /\ ReceivedCard \in hce_card
  BY CardReceived DEF ClientStoreValue, StoreValue, CardsInv, LinkInv
<1>2. \/ wallet' = wallet
      \/ \E value \in Inserted(ReceivedCard.value) :
           wallet' = [wallet EXCEPT ![ReceivedCard.id] = WithValue(@, value)]
  BY DEF ClientStoreValue, StoreValue
<1>3. ASSUME NEW id \in Ids
      PROVE  wallet'[id] \in StoredCard /\ Sound(wallet'[id], id)
  <2>1. wallet[id] \in StoredCard /\ Sound(wallet[id], id) /\ Issued(NO_ISSUER, id)
    BY DEF CardsInv, CounterInv, TypeOK, Issued, NO_ISSUER
  <2>2. CASE wallet' = wallet
    BY <2>1, <2>2
  <2>3. ASSUME NEW value \in Inserted(ReceivedCard.value),
               wallet' = [wallet EXCEPT ![ReceivedCard.id] = WithValue(@, value)]
        PROVE  wallet'[id] \in StoredCard /\ Sound(wallet'[id], id)
    <3>1. value \in Value \cup {NULL}
      BY <1>1, InsertedField DEF hce_card
    <3>2. wallet'[id] = wallet[id] \/ wallet'[id] = WithValue(wallet[id], value)
      BY <2>3 DEF CardsInv, TypeOK
    <3>3. WithValue(wallet[id], value) \in StoredCard
      BY <2>1, <3>1, RevaluedCard
    <3>4. Sound(WithValue(wallet[id], value), id)
      BY <2>1, <3>1, RevaluedCard DEF Sound
    <3> QED
      BY <2>1, <3>2, <3>3, <3>4
  <2> QED
    BY <1>2, <2>2, <2>3
<1>4. TypeOK'
  <2>1. wallet' \in [Ids -> StoredCard]
    BY <1>2, <1>3 DEF CardsInv, TypeOK
  <2>2. ledger' \in [Cards -> Entry]
    BY <1>1, LedgerKept DEF ClientStoreValue, Entry, CardsInv, TypeOK
  <2> QED
    BY <2>1, <2>2 DEF ClientStoreValue, StoreValue, Entry, CardsInv, TypeOK
<1>5. LinkInv'
  BY <1>1 DEF ClientStoreValue, StoreValue, CardsInv, LinkInv
<1>6. RefusedInv'
  BY <1>1 DEF ClientStoreValue, StoreValue, RefusedInv
<1>7. CounterInv'
  BY <1>3 DEF ClientStoreValue, StoreValue, CardsInv, CounterInv, Sound, Issued
<1> QED
  BY <1>4, <1>5, <1>6, <1>7 DEF CardsInv

(* A card that is as it was, or of which no more is known than that it is  *)
(* one.                                                                    *)
Remains(id) ==
  /\ wallet'[id] \in StoredCard
  /\ \/ wallet'[id].issuer = NO_ISSUER
     \/ wallet'[id].issuer = wallet[id].issuer /\ wallet'[id].value = wallet[id].value

LEMMA LoadedOrLeft ==
  ASSUME CardsInv, ClientStart \/ ClientClose \/ SaveCut
  PROVE  wallet' \in [Ids -> StoredCard] /\ \A id \in Ids : Remains(id)
<1>1. wallet \in [Ids -> StoredCard]
  BY DEF CardsInv, TypeOK
<1>2. NoCard \in StoredCard /\ NoCard.issuer = NO_ISSUER
  BY DEF NoCard, StoredCard, Issuer, NO_ISSUER
<1>3. ASSUME NEW id \in Ids, NEW date \in Fates, NEW value \in Fates
      PROVE  /\ CardLeft(wallet[id], date, value) \in StoredCard
             /\ \/ CardLeft(wallet[id], date, value).issuer = NO_ISSUER
                \/ /\ CardLeft(wallet[id], date, value).issuer = wallet[id].issuer
                   /\ CardLeft(wallet[id], date, value).value = wallet[id].value
  BY <1>1 DEF CardLeft, Left, StoredCard, Issuer, NO_ISSUER
<1>4. CASE ClientStart
  <2>1. \/ wallet' = wallet
        \/ wallet' = [id \in Ids |-> NoCard]
        \/ \E date, value \in [Ids -> Fates] :
             wallet' = [id \in Ids |-> CardLeft(wallet[id], date[id], value[id])]
    BY <1>4 DEF ClientStart, Loads
  <2>2. CASE wallet' = wallet \/ wallet' = [id \in Ids |-> NoCard]
    BY <1>1, <1>2, <2>2 DEF Remains
  <2>3. ASSUME NEW date \in [Ids -> Fates], NEW value \in [Ids -> Fates],
               wallet' = [id \in Ids |-> CardLeft(wallet[id], date[id], value[id])]
        PROVE  wallet' \in [Ids -> StoredCard] /\ \A id \in Ids : Remains(id)
    BY <1>3, <2>3 DEF Remains
  <2> QED
    BY <2>1, <2>2, <2>3
<1>5. CASE ClientClose
  BY <1>1, <1>5 DEF ClientClose, Remains
<1>6. CASE SaveCut
  <2>1. PICK cut \in Ids, whole \in SUBSET Ids, date \in Fates, value \in Fates :
          wallet' = [id \in Ids |-> IF id = cut THEN CardLeft(wallet[id], date, value)
                                    ELSE IF id \in whole THEN wallet[id] ELSE NoCard]
    BY <1>6 DEF SaveCut
  <2>2. ASSUME NEW id \in Ids PROVE Remains(id)
    BY <1>1, <1>2, <1>3, <2>1 DEF Remains
  <2> QED
    BY <2>1, <2>2 DEF Remains
<1> QED
  BY <1>4, <1>5, <1>6

LEMMA ClientSteps ==
  ASSUME CardsInv,
         ClientOther \/ ClientSaves \/ ClientStoreValue \/ ClientTransceiveFails
           \/ ClientStoreDies \/ ClientLosesRun \/ ClientPowerLoss
  PROVE  CardsInv'
<1> USE DEF svars, cvars, link, Idle, Waiting, GiveUp, Report
<1>1. CASE ClientStart /\ UNCHANGED <<svars, ledger, zeroed>>
  <2>0. wallet' \in [Ids -> StoredCard] /\ \A id \in Ids : Remains(id)
    BY <1>1, LoadedOrLeft
  <2>1. TypeOK'
    BY <1>1, <2>0 DEF CardsInv, TypeOK, ClientStart, NewJob
  <2>2. LinkInv'
    BY <1>1 DEF CardsInv, TypeOK, LinkInv, ClientStart, NewJob, WellFormed, Issued, Job
  <2>3. RefusedInv'
    BY <1>1 DEF CardsInv, TypeOK, LinkInv, RefusedInv, ClientStart, NewJob, Valid
  <2>4. CounterInv'
    BY <1>1, <2>0
    DEF CardsInv, TypeOK, CounterInv, Remains, ClientStart, NewJob, Sound, Issued, NO_ISSUER
  <2> QED
    BY <2>1, <2>2, <2>3, <2>4 DEF CardsInv
<1>2. CASE ClientContinues /\ UNCHANGED <<svars, ledger, zeroed>>
  <2>1. TypeOK'
    BY <1>2 DEF CardsInv, TypeOK, ClientContinues, NewJob
  <2>2. LinkInv'
    BY <1>2 DEF CardsInv, TypeOK, LinkInv, ClientContinues, NewJob, WellFormed, Issued, Job
  <2>3. RefusedInv'
    BY <1>2 DEF CardsInv, TypeOK, LinkInv, RefusedInv, ClientContinues, NewJob, Valid
  <2>4. CounterInv'
    BY <1>2 DEF CardsInv, TypeOK, CounterInv, ClientContinues, NewJob, Sound, Issued
  <2> QED
    BY <2>1, <2>2, <2>3, <2>4 DEF CardsInv
<1>3. CASE RequestFails /\ UNCHANGED <<svars, ledger, zeroed>>
  <2>1. TypeOK'
    BY <1>3 DEF CardsInv, TypeOK, RequestFails
  <2>2. LinkInv'
    BY <1>3 DEF CardsInv, TypeOK, LinkInv, RequestFails, Issued, WellFormed, ForJob, Answers, CardsOf
  <2>3. RefusedInv'
    BY <1>3 DEF CardsInv, TypeOK, LinkInv, RefusedInv, RequestFails, Valid
  <2>4. CounterInv'
    BY <1>3 DEF CardsInv, TypeOK, CounterInv, RequestFails, Sound, Issued
  <2> QED
    BY <2>1, <2>2, <2>3, <2>4 DEF CardsInv
<1>4. CASE NothingToStore /\ UNCHANGED <<svars, ledger, zeroed>>
  <2>1. TypeOK'
    BY <1>4 DEF CardsInv, TypeOK, NothingToStore
  <2>2. LinkInv'
    BY <1>4 DEF CardsInv, TypeOK, LinkInv, NothingToStore, Issued, WellFormed, ForJob, Answers, CardsOf
  <2>3. RefusedInv'
    BY <1>4 DEF CardsInv, TypeOK, LinkInv, RefusedInv, NothingToStore, Valid
  <2>4. CounterInv'
    BY <1>4 DEF CardsInv, TypeOK, CounterInv, NothingToStore, Sound, Issued
  <2> QED
    BY <2>1, <2>2, <2>3, <2>4 DEF CardsInv
<1>5. CASE ClientTransceiveFails
  <2>1. TypeOK'
    <3>1. ledger' \in [Cards -> Entry]
      BY <1>5, LedgerKept
      DEF ClientTransceiveFails, TransceiveFails, Entry, CardsInv, TypeOK, LinkInv
    <3> QED
      BY <1>5, <3>1 DEF CardsInv, TypeOK, Entry, ClientTransceiveFails, TransceiveFails
  <2>2. LinkInv'
    BY <1>5 DEF CardsInv, TypeOK, LinkInv, ClientTransceiveFails, TransceiveFails, Issued, WellFormed, ForJob, Answers, CardsOf
  <2>3. RefusedInv'
    BY <1>5 DEF CardsInv, TypeOK, LinkInv, RefusedInv, ClientTransceiveFails, TransceiveFails, Valid
  <2>4. CounterInv'
    BY <1>5 DEF CardsInv, TypeOK, CounterInv, ClientTransceiveFails, TransceiveFails, Sound, Issued
  <2> QED
    BY <2>1, <2>2, <2>3, <2>4 DEF CardsInv
<1>6. CASE ClientSaves
  <2>0. /\ cPc = "closing" /\ cPc' = "off" /\ saved' = wallet'
        /\ UNCHANGED <<job, jobs, outcome, link, svars, zeroed>> /\ ledger' = Saved(ledger)
    BY <1>6 DEF ClientSaves, ClientClose, SaveCut
  <2>1. wallet' \in [Ids -> StoredCard] /\ \A id \in Ids : Remains(id)
    BY <1>6, LoadedOrLeft DEF ClientSaves
  <2>2. TypeOK'
    <3>1. ledger' \in [Cards -> Entry]
      BY <2>0, LedgerClosed DEF Entry, CardsInv, TypeOK
    <3> QED
      BY <2>0, <2>1, <3>1 DEF CardsInv, TypeOK, Entry
  <2>3. LinkInv'
    BY <2>0 DEF CardsInv, TypeOK, LinkInv, Issued, WellFormed
  <2>4. RefusedInv'
    BY <2>0 DEF CardsInv, RefusedInv, Valid
  <2>5. CounterInv'
    BY <2>0, <2>1 DEF CardsInv, TypeOK, CounterInv, Remains, Sound, Issued, NO_ISSUER
  <2> QED
    BY <2>2, <2>3, <2>4, <2>5 DEF CardsInv
<1>7. CASE ClientPowerLoss \/ ClientStoreDies \/ ClientLosesRun
  <2>0. /\ cPc # "off" /\ cPc' = "off" /\ wallet' = saved /\ outcome' \in {"none", "ok", "error"}
        /\ req' \in {req, NULL} /\ resp' \in {resp, NULL} /\ (cPc = "waiting" => resp' = NULL)
        /\ UNCHANGED <<job, jobs, saved, svars, zeroed>>
    BY <1>7 DEF ClientPowerLoss, ClientCrash, ClientStoreDies, InsertPanics, ClientLosesRun,
       SaveRefused, CardsInv, TypeOK
  <2>1. req' = NULL /\ resp' = NULL
    BY <1>7, <2>0
    DEF ClientPowerLoss, ClientCrash, ClientStoreDies, InsertPanics, ClientLosesRun,
        SaveRefused, CardsInv, LinkInv
  <2>2. TypeOK'
    <3>1. ledger \in [Cards -> Entry] /\ Doubted(ledger) \in [Cards -> Entry]
      BY <2>0, LedgerKept DEF Entry, CardsInv, TypeOK, LinkInv
    <3>2. ledger' \in [Cards -> Entry]
      BY <1>7, <3>1, LedgerClosed DEF ClientPowerLoss, ClientStoreDies, ClientLosesRun
    <3> QED
      BY <2>0, <2>1, <3>2 DEF CardsInv, TypeOK, Entry
  <2>3. LinkInv'
    BY <2>0, <2>1 DEF CardsInv, TypeOK, LinkInv, Issued, WellFormed
  <2>4. RefusedInv'
    BY <2>0 DEF CardsInv, RefusedInv, Valid
  <2>5. CounterInv'
    BY <2>0 DEF CardsInv, CounterInv, Sound, Issued
  <2> QED
    BY <2>2, <2>3, <2>4, <2>5 DEF CardsInv
<1> QED
  BY <1>1, <1>2, <1>3, <1>4, <1>5, <1>6, <1>7, RequestStep, CardStep, ValueStep DEF ClientOther

-----------------------------------------------------------------------------
LEMMA CardsInvInit == Init => CardsInv
<1> SUFFICES ASSUME Init PROVE CardsInv
  OBVIOUS
<1> USE DEF Init, LinkInit, ServerInit, ClientInit
<1>1. TypeOK
  <2>1. NoCard \in StoredCard
    BY DEF StoredCard, NoCard, NO_ISSUER, Issuer
  <2>2. ledger \in [Cards -> Entry]
    BY DEF NoEntry, Entry
  <2>3. wallet \in [Ids -> StoredCard] /\ saved \in [Ids -> StoredCard]
    BY <2>1
  <2>4. /\ new_card_id \in 0 .. MaxCards /\ server \in 1 .. MaxServers
        /\ now \in 0 .. MaxTime /\ jobs \in 0 .. MaxJobs
    OBVIOUS
  <2> QED
    BY <2>2, <2>3, <2>4 DEF TypeOK, Entry
<1>2. LinkInv
  BY DEF LinkInv, Idle, Waiting
<1>3. RefusedInv
  BY DEF RefusedInv
<1>4. CounterInv
  BY DEF CounterInv, Sound, Issued, NoCard, NO_ISSUER
<1> QED
  BY <1>1, <1>2, <1>3, <1>4 DEF CardsInv

LEMMA CardsInvKept == CardsInv /\ [Next]_vars => CardsInv'
<1> SUFFICES ASSUME CardsInv, [Next]_vars PROVE CardsInv'
  OBVIOUS
<1>1. CASE UNCHANGED vars
  BY <1>1 DEF vars, svars, cvars, link, CardsInv, TypeOK, LinkInv, RefusedInv, CounterInv,
     Sound, Idle, Waiting, Issued, WellFormed, ForJob, Answers, CardsOf, Valid
<1> QED
  BY <1>1, HandshakeSteps, ServerSteps, ClientSteps DEF Next

(* What is under way belongs to the job in progress, and every card was     *)
(* numbered by the run and before the counter of the server, at all times. *)
THEOREM CardsCorrect == Spec => []CardsInv
  BY CardsInvInit, CardsInvKept, PTL DEF Spec

(* The types of all variables. *)
THEOREM TypeCorrect == Spec => []TypeOK
<1>1. CardsInv => TypeOK
  BY DEF CardsInv
<1> QED
  BY CardsCorrect, <1>1, PTL

(* A use or recharge changes the stored value of its own card and of no    *)
(* other, but for card 0 when a response comes without its card.           *)
THEOREM OnlyItsCard == Spec => OnlyJobCardChanges
<1>1. CardsInv => (StoreValue =>
        \A id \in Ids \ {job.card_id} : wallet'[id] # wallet[id] => id = 0 /\ resp.card = NULL)
  <2> SUFFICES ASSUME CardsInv, StoreValue, NEW id \in Ids \ {job.card_id},
                      wallet'[id] # wallet[id]
               PROVE  id = 0 /\ resp.card = NULL
    OBVIOUS
  <2>1. id = ReceivedCard.id
    BY DEF StoreValue, CardsInv, TypeOK
  <2>2. resp # NULL /\ Answers(resp) /\ job.op \in {"USE", "RECHARGE"}
    BY DEF StoreValue, CardsInv, LinkInv
  <2> QED
    BY <2>1, <2>2, CardReceived DEF CardsInv, Answers
<1> QED
  BY CardsCorrect, <1>1, PTL DEF OnlyJobCardChanges

(* A purchase writes over no card of the same run of the server. *)
THEOREM PurchasedCardIsNew == Spec => PurchaseKeepsCards
<1>1. CardsInv =>
        (StoreCard /\ wallet' # wallet => wallet[ReceivedCard.id].issuer # resp.issuer)
  BY CardReceived DEF StoreCard, CardsInv, LinkInv, Answers
<1> QED
  BY CardsCorrect, <1>1, PTL DEF PurchaseKeepsCards

-----------------------------------------------------------------------------
(***************************************************************************)
(* That every difference between a card as the client holds it and as the  *)
(* terminals granted it is explained by the operations the client saw fail *)
(* and those of runs whose cards did not reach the disk, for every range   *)
(* of values and every number of cards, server runs, operations and        *)
(* faults.                                                                 *)
(*                                                                         *)
(* The property speaks of the moments with no request under way.  In       *)
(* between the server may have performed what the client has not stored,   *)
(* and after a failure may still perform what the client has given up: the *)
(* inductive invariant says of each card by how much (MoreUses,            *)
(* MoreCredit), and says the same of the store on disk, to which a run     *)
(* that is lost returns.                                                   *)
(***************************************************************************)


Within(v, balance, low, high) ==
  \E d \in -low .. high : v = (balance + d) % ValueRange

Busy == {"processing", "checked"}

(* The operation in progress may have been performed: nothing on its way   *)
(* says that it was not.                                                   *)
MaybeDone ==
  /\ Waiting
  /\ req = NULL
  /\ sPc \notin Busy
  /\ sPc = "sending" => reply.card # NULL
  /\ resp # NULL => resp.card # NULL

(* The server is still to perform an operation the client has given up.    *)
Stale(c) ==
  ~Waiting /\ sPc \in Busy /\ work.op # "PURCHASE" /\ c = <<work.issuer, work.card.id>>

(* What may have been performed of a card's operations and is no failure   *)
(* yet, or has been counted as one and is still to be performed.           *)
MoreUses(c) ==
  IF MaybeDone /\ c = JobCard THEN Uses
  ELSE IF Stale(c) /\ work.op = "USE" THEN -1 ELSE 0

MoreCredit(c) ==
  IF MaybeDone /\ c = JobCard THEN Credits
  ELSE IF Stale(c) /\ work.op = "RECHARGE" THEN -work.value ELSE 0

Low(c) == ledger[c].failedCredit + MoreCredit(c)
High(c) == ledger[c].failedUses + MoreUses(c)

DiskLow(c) == Low(c) + ledger[c].unsavedCredit
DiskHigh(c) == High(c) + ledger[c].unsavedUses

(* A store has a card with this value, and nothing has spoiled it. *)
Spoiled(id) == id = 0 /\ zeroed

Holds(store, c, v) ==
  store[c[2]].issuer = c[1] /\ store[c[2]].value = v /\ ~Spoiled(c[2])

WalletExplained ==
  \A c \in Cards, v \in Value :
    Holds(wallet, c, v) => Within(v, ledger[c].balance, Low(c), High(c))

SavedExplained ==
  \A c \in Cards, v \in Value :
    Holds(saved, c, v) => Within(v, ledger[c].balance, DiskLow(c), DiskHigh(c))

(* The card a response brings: a new one is worth its price, the others    *)
(* have the operation done.                                                *)
AnswerExplained(r) ==
  r.card # NULL =>
    /\ job.op = "PURCHASE" => ledger[<<r.issuer, r.card.id>>].balance = r.card.value
    /\ job.op \in {"USE", "RECHARGE"} /\ JobCard \in Cards /\ ~Spoiled(job.card_id) =>
         Within(r.card.value, ledger[JobCard].balance,
                ledger[JobCard].failedCredit, ledger[JobCard].failedUses)

AnswersExplained ==
  /\ Waiting /\ sPc = "sending" => AnswerExplained(reply)
  /\ resp # NULL => AnswerExplained(resp)

(* A card not yet issued has nothing granted. *)
UnissuedInv == \A c \in Cards : ~Issued(c[1], c[2]) => ledger[c].balance = 0

LedgerInv ==
  CardsInv /\ WalletExplained /\ SavedExplained /\ AnswersExplained /\ UnissuedInv

-----------------------------------------------------------------------------
USE ValueRangeAssumption, AmountsAssumption, CardBoundsAssumption, NullMessageAssumption,
    TimeAssumption, ClientFaultsAssumption, BlankAssumption, JobsAssumption

(* Arithmetic of values that wrap: a remainder is the only one. *)
LEMMA MultipleIsLarge ==
  ASSUME NEW V \in Nat, V > 0, NEW k \in Int, k >= 1
  PROVE  V * k >= V
<1>1. V * (k - 1) >= 0
  BY Z3
<1>2. V * k = V * (k - 1) + V
  BY Z3
<1> QED
  BY <1>1, <1>2, Z3

LEMMA RemainderUnique ==
  ASSUME NEW V \in Nat, V > 0, NEW n \in Int, NEW k \in Int, NEW s \in 0 .. V - 1,
         n = V * k + s
  PROVE  n % V = s
<1> DEFINE r == n % V
           q == n \div V
<1>1. q \in Int /\ r \in 0 .. V - 1 /\ n = V * q + r
  BY Z3
<1> HIDE DEF r, q
<1>2. V * (k - q) = r - s
  BY <1>1, Z3
<1>3. ~ k - q >= 1
  BY <1>1, <1>2, MultipleIsLarge
<1>4. ~ q - k >= 1
  <2>1. V * (q - k) = s - r
    BY <1>1, Z3
  <2> QED
    BY <1>1, <2>1, MultipleIsLarge
<1>5. n = V * q + s
  BY <1>1, <1>3, <1>4
<1>6. r = s
  BY <1>1, <1>5
<1> QED
  BY <1>6 DEF r

LEMMA WrappedSum ==
  ASSUME NEW a \in Int, NEW x \in Int
  PROVE  ((a % ValueRange) + x) % ValueRange = (a + x) % ValueRange
<1> DEFINE V == ValueRange
           r == a % V
           q == a \div V
           s == (r + x) % V
           t == (r + x) \div V
<1>1. V \in Nat /\ V > 0
  OBVIOUS
<1> HIDE DEF V
<1>2. q \in Int /\ r \in 0 .. V - 1 /\ a = V * q + r
  BY <1>1, Z3
<1>3. t \in Int /\ s \in 0 .. V - 1 /\ r + x = V * t + s
  BY <1>1, <1>2, Z3
<1> HIDE DEF q, r, s, t
<1>4. a + x = V * (q + t) + s /\ q + t \in Int /\ a + x \in Int
  BY <1>1, <1>2, <1>3, Z3
<1>5. (a + x) % V = s
  BY <1>1, <1>3, <1>4, RemainderUnique
<1> QED
  BY <1>5 DEF V, r, s

(* The balance moves, and the bounds with it. *)
LEMMA WithinKept ==
  ASSUME NEW v, NEW b \in Int, NEW low \in Int, NEW high \in Int,
         NEW b2 \in Int, NEW low2 \in Int, NEW high2 \in Int,
         Within(v, b, low, high),
         low2 >= low + (b2 - b), high2 >= high - (b2 - b)
  PROVE  Within(v, b2, low2, high2)
<1>1. PICK d \in -low .. high : v = (b + d) % ValueRange
  BY DEF Within
<1>2. /\ d - (b2 - b) \in -low2 .. high2
      /\ b2 + (d - (b2 - b)) = b + d
  BY <1>1
<1> QED
  BY <1>1, <1>2 DEF Within

(* The value moves with the balance. *)
LEMMA WithinMoved ==
  ASSUME NEW v, NEW b \in Int, NEW low \in Int, NEW high \in Int, NEW x \in Int,
         Within(v, b, low, high)
  PROVE  Within((v + x) % ValueRange, b + x, low, high)
<1>1. PICK d \in -low .. high : v = (b + d) % ValueRange
  BY DEF Within
<1>2. (v + x) % ValueRange = (b + d + x) % ValueRange
  <2>1. b + d \in Int
    BY <1>1
  <2> QED
    BY <1>1, <2>1, WrappedSum
<1>3. b + d + x = (b + x) + d
  BY <1>1
<1> QED
  BY <1>1, <1>2, <1>3 DEF Within

-----------------------------------------------------------------------------
(* What the bookkeeping does to one entry. *)
LEMMA Typed ==
  ASSUME CardsInv
  PROVE  /\ ledger \in [Cards -> Entry]
         /\ \A c \in Cards : MoreUses(c) \in Int /\ MoreCredit(c) \in Int
         /\ Waiting => job \in Job /\ Uses \in Nat /\ Credits \in Nat
<1>1. ledger \in [Cards -> Entry]
  BY DEF CardsInv, TypeOK, Entry
<1>2. Waiting => job \in Job /\ Uses \in Nat /\ Credits \in Nat
  BY JobAmounts DEF CardsInv, LinkInv, Waiting
<1>3. sPc \in Busy => work.value \in Value
  BY DEF CardsInv, LinkInv, Busy, Idle, WellFormed, Request
<1> QED
  BY <1>1, <1>2, <1>3 DEF MoreUses, MoreCredit, MaybeDone, Stale, Value

LEMMA TypedNext ==
  ASSUME CardsInv'
  PROVE  /\ ledger' \in [Cards -> Entry]
         /\ \A c \in Cards : MoreUses(c)' \in Int /\ MoreCredit(c)' \in Int
<1>1. ledger' \in [Cards -> Entry]
  BY DEF CardsInv, TypeOK, Entry
<1>2. Waiting' => job' \in Job
  BY DEF CardsInv, LinkInv, Waiting
<1>3. Waiting' => Uses' \in Nat /\ Credits' \in Nat
  <2>1. ASSUME NEW a \in Amounts PROVE a \in Nat
    OBVIOUS
  <2> QED
    BY <1>2, <2>1 DEF Uses, Credits, Job
<1>4. sPc' \in Busy => work'.value \in Value
  BY DEF CardsInv, LinkInv, Busy, Idle, WellFormed, Request
<1> QED
  BY <1>1, <1>3, <1>4 DEF MoreUses, MoreCredit, MaybeDone, Stale, Value

LEMMA DoubtedEntry ==
  ASSUME NEW l \in [Cards -> Entry], NEW c \in Cards
  PROVE  /\ Doubted(l)[c].balance = l[c].balance
         /\ Doubted(l)[c].failedUses = l[c].failedUses + (IF c = JobCard THEN Uses ELSE 0)
         /\ Doubted(l)[c].failedCredit = l[c].failedCredit + (IF c = JobCard THEN Credits ELSE 0)
         /\ Doubted(l)[c].unsavedUses = l[c].unsavedUses
         /\ Doubted(l)[c].unsavedCredit = l[c].unsavedCredit
BY DEF Doubted, Entry

LEMMA UnsavedEntry ==
  ASSUME NEW l \in [Cards -> Entry], NEW c \in Cards
  PROVE  /\ Unsaved(l)[c].balance = l[c].balance
         /\ Unsaved(l)[c].failedUses = l[c].failedUses
         /\ Unsaved(l)[c].failedCredit = l[c].failedCredit
         /\ Unsaved(l)[c].unsavedUses = l[c].unsavedUses + (IF c = JobCard THEN Uses ELSE 0)
         /\ Unsaved(l)[c].unsavedCredit = l[c].unsavedCredit + (IF c = JobCard THEN Credits ELSE 0)
BY DEF Unsaved, Entry

LEMMA SavedEntry ==
  ASSUME NEW l \in [Cards -> Entry], NEW c \in Cards
  PROVE  /\ Saved(l)[c].balance = l[c].balance
         /\ Saved(l)[c].failedUses = l[c].failedUses
         /\ Saved(l)[c].failedCredit = l[c].failedCredit
         /\ Saved(l)[c].unsavedUses = 0 /\ Saved(l)[c].unsavedCredit = 0
BY DEF Saved, Entry

LEMMA UndoneEntry ==
  ASSUME NEW l \in [Cards -> Entry], NEW c \in Cards
  PROVE  /\ Undone(l)[c].balance = l[c].balance
         /\ Undone(l)[c].failedUses = l[c].failedUses + l[c].unsavedUses
         /\ Undone(l)[c].failedCredit = l[c].failedCredit + l[c].unsavedCredit
         /\ Undone(l)[c].unsavedUses = 0 /\ Undone(l)[c].unsavedCredit = 0
BY DEF Undone, Entry

LEMMA CreditedEntry ==
  ASSUME ledger \in [Cards -> Entry], NEW c \in Cards, NEW o, NEW v \in Int, Credit(o, v)
  PROVE  /\ ledger'[c].balance = ledger[c].balance + (IF c = o THEN v ELSE 0)
         /\ ledger'[c].failedUses = ledger[c].failedUses
         /\ ledger'[c].failedCredit = ledger[c].failedCredit
         /\ ledger'[c].unsavedUses = ledger[c].unsavedUses
         /\ ledger'[c].unsavedCredit = ledger[c].unsavedCredit
BY DEF Credit, Entry

(* A card that stays as it was is still explained when its entry leaves    *)
(* as much room as before, counting from its balance.                      *)
Room(c) ==
  LET gain == ledger'[c].balance - ledger[c].balance
  IN  Low(c)' >= Low(c) + gain /\ High(c)' >= High(c) - gain

DiskRoom(c) ==
  LET gain == ledger'[c].balance - ledger[c].balance
  IN  DiskLow(c)' >= DiskLow(c) + gain /\ DiskHigh(c)' >= DiskHigh(c) - gain

LEMMA Bounds ==
  ASSUME CardsInv, CardsInv', NEW c \in Cards
  PROVE  /\ ledger[c].balance \in Int /\ ledger'[c].balance \in Int
         /\ Low(c) \in Int /\ High(c) \in Int /\ DiskLow(c) \in Int /\ DiskHigh(c) \in Int
         /\ Low(c)' \in Int /\ High(c)' \in Int /\ DiskLow(c)' \in Int /\ DiskHigh(c)' \in Int
<1>1. ledger[c] \in Entry /\ ledger'[c] \in Entry
  BY Typed, TypedNext
<1>2. MoreUses(c) \in Int /\ MoreCredit(c) \in Int
  BY Typed
<1>3. MoreUses(c)' \in Int /\ MoreCredit(c)' \in Int
  BY TypedNext
<1>4. /\ ledger[c].balance \in Int /\ ledger[c].failedUses \in Int
      /\ ledger[c].failedCredit \in Int /\ ledger[c].unsavedUses \in Int
      /\ ledger[c].unsavedCredit \in Int
      /\ ledger'[c].balance \in Int /\ ledger'[c].failedUses \in Int
      /\ ledger'[c].failedCredit \in Int /\ ledger'[c].unsavedUses \in Int
      /\ ledger'[c].unsavedCredit \in Int
  BY <1>1 DEF Entry
<1> QED
  BY <1>2, <1>3, <1>4 DEF Low, High, DiskLow, DiskHigh

LEMMA CardStays ==
  ASSUME CardsInv, CardsInv', NEW c \in Cards, NEW v,
         Within(v, ledger[c].balance, Low(c), High(c)), Room(c)
  PROVE  Within(v, ledger'[c].balance, Low(c)', High(c)')
BY Bounds, WithinKept DEF Room

LEMMA DiskCardStays ==
  ASSUME CardsInv, CardsInv', NEW c \in Cards, NEW v,
         Within(v, ledger[c].balance, DiskLow(c), DiskHigh(c)), DiskRoom(c)
  PROVE  Within(v, ledger'[c].balance, DiskLow(c)', DiskHigh(c)')
BY Bounds, WithinKept DEF DiskRoom

(* A step that leaves the stores and the ledger, and performs nothing that *)
(* was left to perform.                                                    *)
LEMMA QuietStep ==
  ASSUME LedgerInv, CardsInv', UNCHANGED <<wallet, saved, ledger, zeroed>>,
         \A c \in Cards : MoreUses(c)' >= MoreUses(c) /\ MoreCredit(c)' >= MoreCredit(c)
  PROVE  WalletExplained' /\ SavedExplained'
<1>1. ASSUME NEW c \in Cards PROVE Room(c) /\ DiskRoom(c)
  <2>1. ledger[c] \in Entry /\ MoreUses(c) \in Int /\ MoreCredit(c) \in Int
    BY Typed DEF LedgerInv
  <2>2. MoreUses(c)' \in Int /\ MoreCredit(c)' \in Int
    BY TypedNext
  <2> QED
    BY <2>1, <2>2 DEF Room, DiskRoom, Low, High, DiskLow, DiskHigh, Entry
<1>2. ASSUME NEW c \in Cards, NEW v \in Value, Holds(wallet, c, v)'
      PROVE  Within(v, ledger'[c].balance, Low(c)', High(c)')
  <2>1. Holds(wallet, c, v)
    BY <1>2 DEF Holds, Spoiled
  <2> QED
    BY <1>1, <2>1, CardStays DEF LedgerInv, WalletExplained
<1>3. ASSUME NEW c \in Cards, NEW v \in Value, Holds(saved, c, v)'
      PROVE  Within(v, ledger'[c].balance, DiskLow(c)', DiskHigh(c)')
  <2>1. Holds(saved, c, v)
    BY <1>3 DEF Holds, Spoiled
  <2> QED
    BY <1>1, <2>1, DiskCardStays DEF LedgerInv, SavedExplained
<1> QED
  BY <1>2, <1>3 DEF WalletExplained, SavedExplained, Within

-----------------------------------------------------------------------------
(* Most steps are quiet. *)
LEMMA QuietSteps ==
  ASSUME LedgerInv, CardsInv',
         \/ Handshake \/ NobodyThere \/ ServerAnswers
         \/ /\ ServerReceive \/ ServerReceiveFails \/ process_validate \/ Decline
               \/ ServerSendFails \/ ServerRestart \/ Tick
            /\ UNCHANGED <<cvars, ledger, zeroed>>
         \/ /\ ClientContinues \/ create_request \/ RequestFails \/ NothingToStore
            /\ UNCHANGED <<svars, ledger, zeroed>>
         \/ UNCHANGED vars
  PROVE  LedgerInv'
<1> USE DEF svars, cvars, link, Idle, Busy, Waiting
<1>0. /\ LinkInv /\ TypeOK /\ CardsInv /\ AnswersExplained /\ UnissuedInv
      /\ UNCHANGED <<wallet, saved, ledger, zeroed>>
  BY DEF LedgerInv, CardsInv, Handshake, NobodyThere, ServerAnswers, ServerReceive,
     ServerReceiveFails, process_validate, Decline, ServerSendFails, ServerRestart, Tick,
     ClientContinues, create_request, RequestFails, NothingToStore, NewJob,
     ClientConnect, ClientConnectFails, GiveUp, Report, ServerStarted, ServerStartFails,
     ServerSend, vars
<1>1. CASE Handshake
  <2>1. \A c \in Cards : MoreUses(c)' >= MoreUses(c) /\ MoreCredit(c)' >= MoreCredit(c)
    BY <1>0, <1>1, Typed
    DEF Handshake, ClientConnect, ClientConnectFails, GiveUp, ServerStarted, ServerStartFails, LinkInv, Answers, MoreUses, MoreCredit, MaybeDone, Stale, JobCard, Uses, Credits
  <2>2. AnswersExplained'
    BY <1>0, <1>1 DEF Handshake, ClientConnect, ClientConnectFails, GiveUp, ServerStarted, ServerStartFails, LinkInv, AnswersExplained, AnswerExplained, Spoiled, JobCard
  <2>3. UnissuedInv'
    BY <1>0, <1>1 DEF Handshake, ClientConnect, ClientConnectFails, GiveUp, ServerStarted, ServerStartFails, UnissuedInv, Issued
  <2> QED
    BY <1>0, <2>1, <2>2, <2>3, QuietStep DEF LedgerInv
<1>2. CASE NobodyThere
  <2>1. \A c \in Cards : MoreUses(c)' >= MoreUses(c) /\ MoreCredit(c)' >= MoreCredit(c)
    BY <1>0, <1>2, Typed
    DEF NobodyThere, ClientConnectFails, GiveUp, LinkInv, Answers, MoreUses, MoreCredit, MaybeDone, Stale, JobCard, Uses, Credits
  <2>2. AnswersExplained'
    BY <1>0, <1>2 DEF NobodyThere, ClientConnectFails, GiveUp, LinkInv, AnswersExplained, AnswerExplained, Spoiled, JobCard
  <2>3. UnissuedInv'
    BY <1>0, <1>2 DEF NobodyThere, ClientConnectFails, GiveUp, UnissuedInv, Issued
  <2> QED
    BY <1>0, <2>1, <2>2, <2>3, QuietStep DEF LedgerInv
<1>3. CASE ServerAnswers
  <2>1. \A c \in Cards : MoreUses(c)' >= MoreUses(c) /\ MoreCredit(c)' >= MoreCredit(c)
    BY <1>0, <1>3, Typed
    DEF ServerAnswers, ServerSend, LinkInv, Answers, MoreUses, MoreCredit, MaybeDone, Stale, JobCard, Uses, Credits
  <2>2. AnswersExplained'
    BY <1>0, <1>3 DEF ServerAnswers, ServerSend, LinkInv, AnswersExplained, AnswerExplained, Spoiled, JobCard
  <2>3. UnissuedInv'
    BY <1>0, <1>3 DEF ServerAnswers, ServerSend, UnissuedInv, Issued
  <2> QED
    BY <1>0, <2>1, <2>2, <2>3, QuietStep DEF LedgerInv
<1>4. CASE ServerReceive /\ UNCHANGED <<cvars, ledger, zeroed>>
  <2>1. \A c \in Cards : MoreUses(c)' >= MoreUses(c) /\ MoreCredit(c)' >= MoreCredit(c)
    BY <1>0, <1>4, Typed
    DEF ServerReceive, LinkInv, Answers, MoreUses, MoreCredit, MaybeDone, Stale, JobCard, Uses, Credits
  <2>2. AnswersExplained'
    BY <1>0, <1>4 DEF ServerReceive, LinkInv, AnswersExplained, AnswerExplained, Spoiled, JobCard
  <2>3. UnissuedInv'
    BY <1>0, <1>4 DEF ServerReceive, UnissuedInv, Issued
  <2> QED
    BY <1>0, <2>1, <2>2, <2>3, QuietStep DEF LedgerInv
<1>5. CASE ServerReceiveFails /\ UNCHANGED <<cvars, ledger, zeroed>>
  <2>1. \A c \in Cards : MoreUses(c)' >= MoreUses(c) /\ MoreCredit(c)' >= MoreCredit(c)
    BY <1>0, <1>5, Typed
    DEF ServerReceiveFails, LinkInv, Answers, MoreUses, MoreCredit, MaybeDone, Stale, JobCard, Uses, Credits
  <2>2. AnswersExplained'
    BY <1>0, <1>5 DEF ServerReceiveFails, LinkInv, AnswersExplained, AnswerExplained, Spoiled, JobCard
  <2>3. UnissuedInv'
    BY <1>0, <1>5 DEF ServerReceiveFails, UnissuedInv, Issued
  <2> QED
    BY <1>0, <2>1, <2>2, <2>3, QuietStep DEF LedgerInv
<1>6. CASE process_validate /\ UNCHANGED <<cvars, ledger, zeroed>>
  <2>1. \A c \in Cards : MoreUses(c)' >= MoreUses(c) /\ MoreCredit(c)' >= MoreCredit(c)
    BY <1>0, <1>6, Typed
    DEF process_validate, LinkInv, Answers, MoreUses, MoreCredit, MaybeDone, Stale, JobCard, Uses, Credits
  <2>2. AnswersExplained'
    BY <1>0, <1>6 DEF process_validate, LinkInv, AnswersExplained, AnswerExplained, Spoiled, JobCard
  <2>3. UnissuedInv'
    BY <1>0, <1>6 DEF process_validate, UnissuedInv, Issued
  <2> QED
    BY <1>0, <2>1, <2>2, <2>3, QuietStep DEF LedgerInv
<1>7. CASE Decline /\ UNCHANGED <<cvars, ledger, zeroed>>
  <2>1. \A c \in Cards : MoreUses(c)' >= MoreUses(c) /\ MoreCredit(c)' >= MoreCredit(c)
    <3>1. work.value \in Nat /\ reply.card = NULL /\ ~MaybeDone /\ ~MaybeDone'
      BY <1>0, <1>7 DEF Decline, LinkInv, WellFormed, Request, Value, MaybeDone
    <3> QED
      BY <1>0, <1>7, <3>1 DEF Decline, MoreUses, MoreCredit, Stale
  <2>2. AnswersExplained'
    BY <1>0, <1>7 DEF Decline, LinkInv, AnswersExplained, AnswerExplained, Spoiled, JobCard
  <2>3. UnissuedInv'
    BY <1>0, <1>7 DEF Decline, UnissuedInv, Issued
  <2> QED
    BY <1>0, <2>1, <2>2, <2>3, QuietStep DEF LedgerInv
<1>8. CASE ServerSendFails /\ UNCHANGED <<cvars, ledger, zeroed>>
  <2>1. \A c \in Cards : MoreUses(c)' >= MoreUses(c) /\ MoreCredit(c)' >= MoreCredit(c)
    BY <1>0, <1>8, Typed
    DEF ServerSendFails, LinkInv, Answers, MoreUses, MoreCredit, MaybeDone, Stale, JobCard, Uses, Credits
  <2>2. AnswersExplained'
    BY <1>0, <1>8 DEF ServerSendFails, LinkInv, AnswersExplained, AnswerExplained, Spoiled, JobCard
  <2>3. UnissuedInv'
    BY <1>0, <1>8 DEF ServerSendFails, UnissuedInv, Issued
  <2> QED
    BY <1>0, <2>1, <2>2, <2>3, QuietStep DEF LedgerInv
<1>9. CASE ServerRestart /\ UNCHANGED <<cvars, ledger, zeroed>>
  <2>1. \A c \in Cards : MoreUses(c)' >= MoreUses(c) /\ MoreCredit(c)' >= MoreCredit(c)
    BY <1>0, <1>9, Typed
    DEF ServerRestart, LinkInv, Answers, MoreUses, MoreCredit, MaybeDone, Stale, JobCard, Uses, Credits
  <2>2. AnswersExplained'
    BY <1>0, <1>9 DEF ServerRestart, LinkInv, AnswersExplained, AnswerExplained, Spoiled, JobCard
  <2>3. UnissuedInv'
    <3>1. \A c \in Cards : Issued(c[1], c[2]) => Issued(c[1], c[2])'
      BY <1>0, <1>9 DEF ServerRestart, Issued, TypeOK, Cards
    <3> QED
      BY <1>0, <3>1 DEF UnissuedInv
  <2> QED
    BY <1>0, <2>1, <2>2, <2>3, QuietStep DEF LedgerInv
<1>10. CASE Tick /\ UNCHANGED <<cvars, ledger, zeroed>>
  <2>1. \A c \in Cards : MoreUses(c)' >= MoreUses(c) /\ MoreCredit(c)' >= MoreCredit(c)
    BY <1>0, <1>10, Typed
    DEF Tick, LinkInv, Answers, MoreUses, MoreCredit, MaybeDone, Stale, JobCard, Uses, Credits
  <2>2. AnswersExplained'
    BY <1>0, <1>10 DEF Tick, LinkInv, AnswersExplained, AnswerExplained, Spoiled, JobCard
  <2>3. UnissuedInv'
    BY <1>0, <1>10 DEF Tick, UnissuedInv, Issued
  <2> QED
    BY <1>0, <2>1, <2>2, <2>3, QuietStep DEF LedgerInv
<1>11. CASE ClientContinues /\ UNCHANGED <<svars, ledger, zeroed>>
  <2>1. \A c \in Cards : MoreUses(c)' >= MoreUses(c) /\ MoreCredit(c)' >= MoreCredit(c)
    BY <1>0, <1>11, Typed
    DEF ClientContinues, NewJob, LinkInv, Answers, MoreUses, MoreCredit, MaybeDone, Stale, JobCard, Uses, Credits
  <2>2. AnswersExplained'
    BY <1>0, <1>11 DEF ClientContinues, NewJob, LinkInv, AnswersExplained, AnswerExplained, Spoiled, JobCard
  <2>3. UnissuedInv'
    BY <1>0, <1>11 DEF ClientContinues, NewJob, UnissuedInv, Issued
  <2> QED
    BY <1>0, <2>1, <2>2, <2>3, QuietStep DEF LedgerInv
<1>12. CASE create_request /\ UNCHANGED <<svars, ledger, zeroed>>
  <2>1. \A c \in Cards : MoreUses(c)' >= MoreUses(c) /\ MoreCredit(c)' >= MoreCredit(c)
    <3>1. req' # NULL
      BY <1>0, <1>12, RequestMade DEF WellFormed
    <3>2. ~MaybeDone /\ ~MaybeDone'
      BY <1>12, <3>1 DEF create_request, MaybeDone
    <3>3. sPc \in Idle /\ sPc' = sPc
      BY <1>0, <1>12 DEF create_request, LinkInv
    <3> QED
      BY <3>2, <3>3 DEF MoreUses, MoreCredit, Stale
  <2>2. AnswersExplained'
    BY <1>0, <1>12 DEF create_request, LinkInv, AnswersExplained, AnswerExplained, Spoiled, JobCard
  <2>3. UnissuedInv'
    BY <1>0, <1>12 DEF create_request, UnissuedInv, Issued
  <2> QED
    BY <1>0, <2>1, <2>2, <2>3, QuietStep DEF LedgerInv
<1>13. CASE RequestFails /\ UNCHANGED <<svars, ledger, zeroed>>
  <2>1. \A c \in Cards : MoreUses(c)' >= MoreUses(c) /\ MoreCredit(c)' >= MoreCredit(c)
    BY <1>0, <1>13, Typed
    DEF RequestFails, GiveUp, LinkInv, Answers, MoreUses, MoreCredit, MaybeDone, Stale, JobCard, Uses, Credits
  <2>2. AnswersExplained'
    BY <1>0, <1>13 DEF RequestFails, GiveUp, LinkInv, AnswersExplained, AnswerExplained, Spoiled, JobCard
  <2>3. UnissuedInv'
    BY <1>0, <1>13 DEF RequestFails, GiveUp, UnissuedInv, Issued
  <2> QED
    BY <1>0, <2>1, <2>2, <2>3, QuietStep DEF LedgerInv
<1>14. CASE NothingToStore /\ UNCHANGED <<svars, ledger, zeroed>>
  <2>1. \A c \in Cards : MoreUses(c)' >= MoreUses(c) /\ MoreCredit(c)' >= MoreCredit(c)
    BY <1>0, <1>14, Typed
    DEF NothingToStore, Report, LinkInv, Answers, MoreUses, MoreCredit, MaybeDone, Stale, JobCard, Uses, Credits
  <2>2. AnswersExplained'
    BY <1>0, <1>14 DEF NothingToStore, Report, LinkInv, AnswersExplained, AnswerExplained, Spoiled, JobCard
  <2>3. UnissuedInv'
    BY <1>0, <1>14 DEF NothingToStore, Report, UnissuedInv, Issued
  <2> QED
    BY <1>0, <2>1, <2>2, <2>3, QuietStep DEF LedgerInv
<1>15. CASE UNCHANGED vars
  <2>1. \A c \in Cards : MoreUses(c)' >= MoreUses(c) /\ MoreCredit(c)' >= MoreCredit(c)
    BY <1>0, <1>15, Typed
    DEF vars, LinkInv, Answers, MoreUses, MoreCredit, MaybeDone, Stale, JobCard, Uses, Credits
  <2>2. AnswersExplained'
    BY <1>0, <1>15 DEF vars, LinkInv, AnswersExplained, AnswerExplained, Spoiled, JobCard
  <2>3. UnissuedInv'
    BY <1>0, <1>15 DEF vars, UnissuedInv, Issued
  <2> QED
    BY <1>0, <2>1, <2>2, <2>3, QuietStep DEF LedgerInv
<1> QED
  BY <1>1, <1>2, <1>3, <1>4, <1>5, <1>6, <1>7, <1>8, <1>9, <1>10, <1>11, <1>12, <1>13, <1>14, <1>15

(* A run starts with what is on disk, or with no card. *)
LEMMA StartLedger ==
  ASSUME LedgerInv, CardsInv', ClientStart, UNCHANGED <<svars, ledger, zeroed>>
  PROVE  LedgerInv'
<1>1. /\ CardsInv /\ cPc = "off" /\ cPc' = "connecting" /\ resp = NULL /\ resp' = NULL
      /\ UNCHANGED <<saved, ledger, zeroed, svars>>
  BY DEF ClientStart, LedgerInv, CardsInv, LinkInv, Waiting, link
<1>2. ASSUME NEW c \in Cards PROVE Room(c) /\ DiskRoom(c)
  <2>1. MoreUses(c)' = MoreUses(c) /\ MoreCredit(c)' = MoreCredit(c)
    BY <1>1 DEF MoreUses, MoreCredit, MaybeDone, Stale, Waiting, svars
  <2>2. ledger[c] \in Entry /\ MoreUses(c) \in Int /\ MoreCredit(c) \in Int
    BY <1>1, Typed
  <2> QED
    BY <1>1, <2>1, <2>2 DEF Room, DiskRoom, Low, High, DiskLow, DiskHigh, Entry
<1>3. ASSUME NEW c \in Cards, NEW v \in Value, Holds(wallet, c, v)'
      PROVE  Within(v, ledger'[c].balance, Low(c)', High(c)')
  <2>1. c[2] \in Ids /\ c[1] # NO_ISSUER
    BY DEF Cards, NO_ISSUER
  <2>2. wallet'[c[2]].issuer = c[1] /\ wallet'[c[2]].value = v /\ ~Spoiled(c[2])
    BY <1>1, <1>3 DEF Holds, Spoiled
  <2>3. Remains(c[2])
    BY <1>1, <2>1, LoadedOrLeft
  <2>4. Holds(wallet, c, v)
    BY <2>1, <2>2, <2>3 DEF Remains, Holds
  <2> QED
    BY <1>1, <1>2, <2>4, CardStays DEF LedgerInv, WalletExplained
<1>4. ASSUME NEW c \in Cards, NEW v \in Value, Holds(saved, c, v)'
      PROVE  Within(v, ledger'[c].balance, DiskLow(c)', DiskHigh(c)')
  <2>1. Holds(saved, c, v)
    BY <1>1, <1>4 DEF Holds, Spoiled
  <2> QED
    BY <1>1, <1>2, <2>1, DiskCardStays DEF LedgerInv, SavedExplained
<1>5. WalletExplained' /\ SavedExplained'
  BY <1>3, <1>4 DEF WalletExplained, SavedExplained, Within
<1>6. AnswersExplained'
  BY <1>1 DEF AnswersExplained, Waiting
<1>7. UnissuedInv'
  BY <1>1 DEF LedgerInv, UnissuedInv, Issued, svars
<1> QED
  BY <1>5, <1>6, <1>7 DEF LedgerInv

-----------------------------------------------------------------------------
(* A step that leaves the stores: what it does to the ledger leaves room.  *)
LEMMA StoresStay ==
  ASSUME LedgerInv, CardsInv', UNCHANGED <<wallet, saved, zeroed>>,
         \A c \in Cards : Issued(c[1], c[2]) => Room(c) /\ DiskRoom(c)
  PROVE  WalletExplained' /\ SavedExplained'
<1>1. CounterInv /\ CardsInv
  BY DEF LedgerInv, CardsInv
<1>2. ASSUME NEW c \in Cards, NEW v \in Value, Holds(wallet, c, v)'
      PROVE  Within(v, ledger'[c].balance, Low(c)', High(c)')
  <2>1. Holds(wallet, c, v) /\ Issued(c[1], c[2])
    BY <1>1, <1>2 DEF Holds, Spoiled, CounterInv, Sound, Cards
  <2> QED
    BY <1>1, <2>1, CardStays DEF LedgerInv, WalletExplained
<1>3. ASSUME NEW c \in Cards, NEW v \in Value, Holds(saved, c, v)'
      PROVE  Within(v, ledger'[c].balance, DiskLow(c)', DiskHigh(c)')
  <2>1. Holds(saved, c, v) /\ Issued(c[1], c[2])
    BY <1>1, <1>3 DEF Holds, Spoiled, CounterInv, Sound, Cards
  <2> QED
    BY <1>1, <2>1, DiskCardStays DEF LedgerInv, SavedExplained
<1> QED
  BY <1>2, <1>3 DEF WalletExplained, SavedExplained, Within

(* A new card: its entry begins with its price. *)
LEMMA PurchaseLedger ==
  ASSUME LedgerInv, CardsInv', ServerPurchase
  PROVE  LedgerInv'
<1> USE DEF svars, cvars, link, Idle, Busy, Waiting
<1> DEFINE new == <<server, new_card_id>>
<1>1. /\ sPc = "processing" /\ sPc' = "sending" /\ work.op = "PURCHASE"
      /\ work \in Request /\ work.value \in Value
      /\ new_card_id < MaxCards /\ new_card_id' = new_card_id + 1
      /\ Credit(new, work.value)
      /\ UNCHANGED <<server, work, req, resp, cPc, job, wallet, saved, zeroed>>
  BY DEF ServerPurchase, process_purchase, NextCardId, LedgerInv, CardsInv, LinkInv,
     WellFormed, Request
<1>2. /\ CardsInv /\ ledger \in [Cards -> Entry] /\ work.value \in Int
      /\ server \in 1 .. MaxServers /\ new_card_id \in Ids
  <2>1. CardsInv /\ server \in 1 .. MaxServers /\ new_card_id \in 0 .. MaxCards
    BY DEF LedgerInv, CardsInv, TypeOK
  <2> QED
    BY <1>1, <2>1, Typed DEF Value, Ids
<1>3. new \in Cards /\ ~Issued(server, new_card_id) /\ ledger[new].balance = 0
  BY <1>2 DEF Cards, Issued, Ids, LedgerInv, UnissuedInv
<1>4. \A c \in Cards :
        /\ ledger'[c].balance = ledger[c].balance + (IF c = new THEN work.value ELSE 0)
        /\ ledger'[c].failedUses = ledger[c].failedUses
        /\ ledger'[c].failedCredit = ledger[c].failedCredit
        /\ ledger'[c].unsavedUses = ledger[c].unsavedUses
        /\ ledger'[c].unsavedCredit = ledger[c].unsavedCredit
  BY <1>1, <1>2, CreditedEntry
<1>5. Waiting => job.op = "PURCHASE"
  BY <1>1, <1>2 DEF CardsInv, LinkInv, ForJob
<1>6. ASSUME NEW c \in Cards
      PROVE  /\ MoreUses(c) = 0 /\ MoreCredit(c) = 0
             /\ MoreUses(c)' = 0 /\ MoreCredit(c)' = 0
  BY <1>1, <1>5 DEF MoreUses, MoreCredit, MaybeDone, Stale, Uses, Credits
<1>7. ASSUME NEW c \in Cards, Issued(c[1], c[2]) PROVE Room(c) /\ DiskRoom(c)
  <2>1. c # new /\ ledger[c] \in Entry
    BY <1>2, <1>3, <1>7
  <2> QED
    BY <1>4, <1>6, <2>1 DEF Room, DiskRoom, Low, High, DiskLow, DiskHigh, Entry
<1>8. WalletExplained' /\ SavedExplained'
  BY <1>1, <1>7, StoresStay
<1>9. AnswersExplained'
  <2>1. /\ reply'.issuer = server /\ reply'.card.id = new_card_id
        /\ reply'.card.value = work.value
    BY DEF ServerPurchase, process_purchase
  <2>2. ledger'[new].balance = work.value
    BY <1>2, <1>3, <1>4
  <2>3. Waiting' => AnswerExplained(reply)'
    BY <1>1, <1>5, <2>1, <2>2 DEF AnswerExplained
  <2>4. resp = NULL
    BY <1>1, <1>2 DEF CardsInv, LinkInv
  <2> QED
    BY <1>1, <2>3, <2>4 DEF AnswersExplained
<1>10. UnissuedInv'
  <2>1. ASSUME NEW c \in Cards, ~Issued(c[1], c[2])' PROVE ledger'[c].balance = 0
    <3>1. c # new /\ ~Issued(c[1], c[2])
      BY <1>1, <1>2, <2>1 DEF Issued, Cards, Ids
    <3> QED
      BY <1>4, <3>1 DEF LedgerInv, UnissuedInv
  <2> QED
    BY <2>1 DEF UnissuedInv
<1> QED
  BY <1>8, <1>9, <1>10 DEF LedgerInv

(* An operation is performed: the balance moves, and what may have been    *)
(* performed moves the other way.                                          *)
LEMMA PerformLedger ==
  ASSUME LedgerInv, CardsInv', ServerPerform
  PROVE  LedgerInv'
<1> USE DEF svars, cvars, link, Idle, Busy, Waiting
<1> DEFINE done == <<work.issuer, work.card.id>>
           gain == IF work.op = "USE" THEN -PRICE ELSE work.value
<1>1. /\ sPc = "checked" /\ sPc' = "sending" /\ work.op \in {"USE", "RECHARGE"}
      /\ work \in Request /\ work.value \in Value /\ work.card \in hce_card
      /\ Credit(done, gain)
      /\ UNCHANGED <<server, new_card_id, work, req, resp, cPc, job, wallet, saved, zeroed>>
      /\ Issued(work.issuer, work.card.id)
  BY DEF ServerPerform, Perform, LedgerInv, CardsInv, LinkInv, WellFormed, Request
<1>2. CardsInv /\ ledger \in [Cards -> Entry] /\ work.value \in Nat /\ gain \in Int
  BY <1>1, Typed DEF LedgerInv, Value, PRICE
<1>3. \A c \in Cards :
        /\ ledger'[c].balance = ledger[c].balance + (IF c = done THEN gain ELSE 0)
        /\ ledger'[c].failedUses = ledger[c].failedUses
        /\ ledger'[c].failedCredit = ledger[c].failedCredit
        /\ ledger'[c].unsavedUses = ledger[c].unsavedUses
        /\ ledger'[c].unsavedCredit = ledger[c].unsavedCredit
  BY <1>1, <1>2, CreditedEntry
<1>4. /\ reply \in Response
      /\ reply' = [reply EXCEPT !.card = IF work.op = "USE" THEN Used(work.card)
                                         ELSE Recharged(work.card, work.value)]
      /\ req = NULL /\ resp = NULL
  BY <1>1, <1>2 DEF ServerPerform, Perform, CardsInv, LinkInv
<1>5. /\ reply'.card = IF work.op = "USE" THEN Used(work.card)
                       ELSE Recharged(work.card, work.value)
      /\ reply'.card \in hce_card
  BY <1>1, <1>4, ServedCard DEF Response
<1>6. ASSUME Waiting
      PROVE  /\ job.op = work.op /\ job.value = work.value /\ done = JobCard
             /\ work.card \in CardsOf(job.card_id) /\ job \in Job
  BY <1>1, <1>2, <1>6 DEF CardsInv, LinkInv, ForJob, JobCard, CardsOf
<1>7. ASSUME NEW c \in Cards
      PROVE  /\ MoreUses(c)' = MoreUses(c) + IF c = done /\ work.op = "USE" THEN 1 ELSE 0
             /\ MoreCredit(c)' =
                  MoreCredit(c) + IF c = done /\ work.op = "RECHARGE" THEN work.value ELSE 0
  <2>1. CASE Waiting
    <3>1. ~MaybeDone /\ MaybeDone'
      BY <1>1, <1>4, <1>5, <2>1 DEF MaybeDone
    <3>2. JobCard' = JobCard /\ Uses' = Uses /\ Credits' = Credits
      BY <1>1 DEF JobCard, Uses, Credits
    <3> QED
      BY <1>1, <1>2, <1>6, <2>1, <3>1, <3>2
      DEF MoreUses, MoreCredit, Stale, Uses, Credits
  <2>2. CASE ~Waiting
    BY <1>1, <1>2, <2>2 DEF MoreUses, MoreCredit, Stale, MaybeDone
  <2> QED
    BY <2>1, <2>2
<1>8. ASSUME NEW c \in Cards PROVE Room(c) /\ DiskRoom(c)
  <2>1. ledger[c] \in Entry /\ MoreUses(c) \in Int /\ MoreCredit(c) \in Int
    BY <1>2, Typed
  <2> QED
    BY <1>1, <1>2, <1>3, <1>7, <2>1 DEF Room, DiskRoom, Low, High, DiskLow, DiskHigh, Entry, PRICE
<1>9. WalletExplained' /\ SavedExplained'
  BY <1>1, <1>8, StoresStay
<1>10. AnswersExplained'
  <2>1. ASSUME Waiting, JobCard \in Cards, ~Spoiled(job.card_id)
        PROVE  Within(reply'.card.value, ledger'[JobCard].balance,
                      ledger'[JobCard].failedCredit, ledger'[JobCard].failedUses)
    <3> DEFINE e == ledger[JobCard]
               v == wallet[job.card_id].value
    <3>0. v \in Value /\ v # BLANK
      BY <1>2, <1>6, <2>1
      DEF CardsInv, CounterInv, Sound, JobCard, Job, Cards, NO_ISSUER, Value
    <3>1. work.card.value = v
      BY <1>6, <2>1, <3>0 DEF CardsOf, Copied
    <3>2. Holds(wallet, JobCard, v)
      BY <2>1 DEF Holds, JobCard
    <3>3. /\ MoreUses(JobCard) = 0 /\ MoreCredit(JobCard) = 0 /\ e \in Entry
      BY <1>1, <1>2, <2>1 DEF MoreUses, MoreCredit, MaybeDone, Stale
    <3>4. Within(v, e.balance, e.failedCredit, e.failedUses)
      BY <2>1, <3>0, <3>2, <3>3
      DEF LedgerInv, WalletExplained, Low, High, Entry
    <3>5. reply'.card.value = (v + gain) % ValueRange
      BY <1>1, <1>2, <1>5, <3>0, <3>1 DEF Used, Recharged, Updated, hce_card, PRICE, Value
    <3>6. Within(reply'.card.value, e.balance + gain, e.failedCredit, e.failedUses)
      <4>1. /\ e.balance \in Int /\ e.failedCredit \in Int /\ e.failedUses \in Int
        BY <3>3 DEF Entry
      <4> HIDE DEF e, v, gain
      <4> QED
        BY <1>2, <3>4, <3>5, <4>1, WithinMoved
    <3> QED
      BY <1>3, <1>6, <2>1, <3>6
  <2>2. Waiting' => AnswerExplained(reply)'
    <3>1. JobCard' = JobCard /\ Spoiled(job.card_id)' = Spoiled(job.card_id)
      BY <1>1 DEF JobCard, Spoiled
    <3> QED
      BY <1>1, <1>6, <2>1, <3>1 DEF AnswerExplained, Within
  <2> QED
    BY <1>1, <1>4, <2>2 DEF AnswersExplained
<1>11. UnissuedInv'
  <2>1. ASSUME NEW c \in Cards, ~Issued(c[1], c[2])' PROVE ledger'[c].balance = 0
    <3>1. ~Issued(c[1], c[2])
      BY <1>1, <2>1 DEF Issued
    <3>2. c # done
      BY <1>1, <3>1
    <3> QED
      BY <1>2, <1>3, <3>1, <3>2 DEF LedgerInv, UnissuedInv
  <2> QED
    BY <2>1 DEF UnissuedInv
<1> QED
  BY <1>9, <1>10, <1>11 DEF LedgerInv

-----------------------------------------------------------------------------
(* A purchased card is stored: worth its price, or not counted.            *)
LEMMA CardLedger ==
  ASSUME LedgerInv, CardsInv', StoreCard, UNCHANGED <<svars, ledger, zeroed>>
  PROVE  LedgerInv'
<1> USE DEF svars, cvars, link, Idle, Busy, Waiting
<1>1. /\ CardsInv /\ cPc = "waiting" /\ cPc' = "closing" /\ job.op = "PURCHASE"
      /\ resp # NULL /\ resp' = NULL /\ sPc \in Idle
      /\ resp.card \in hce_card /\ ReceivedCard = resp.card
      /\ UNCHANGED <<job, saved, req, svars, ledger, zeroed>>
      /\ ledger \in [Cards -> Entry]
  BY CardReceived, Typed DEF StoreCard, Report, LedgerInv, CardsInv, LinkInv, Answers
<1>2. PICK n \in StoredFields, date \in Inserted(resp.card.expiration_date),
           value \in Inserted(resp.card.value) :
        wallet' = [wallet EXCEPT ![resp.card.id] = CardWith(@, date, value, n, resp.issuer)]
  BY <1>1 DEF StoreCard
<1>3. ASSUME NEW c \in Cards
      PROVE  /\ MoreUses(c) = 0 /\ MoreCredit(c) = 0
             /\ MoreUses(c)' = 0 /\ MoreCredit(c)' = 0
             /\ Room(c) /\ DiskRoom(c)
  <2>1. /\ MoreUses(c) = 0 /\ MoreCredit(c) = 0
        /\ MoreUses(c)' = 0 /\ MoreCredit(c)' = 0
    BY <1>1 DEF MoreUses, MoreCredit, MaybeDone, Stale, Uses, Credits
  <2>2. ledger[c] \in Entry /\ ledger' = ledger
    BY <1>1
  <2> QED
    BY <2>1, <2>2 DEF Room, DiskRoom, Low, High, DiskLow, DiskHigh, Entry
<1>4. ASSUME NEW c \in Cards, NEW v \in Value, Holds(wallet, c, v)'
      PROVE  Within(v, ledger'[c].balance, Low(c)', High(c)')
  <2>1. CASE Holds(wallet, c, v)
    BY <1>1, <1>3, <2>1, CardStays DEF LedgerInv, WalletExplained
  <2>2. CASE ~Holds(wallet, c, v)
    <3>1. c[2] \in Ids /\ c[1] # NO_ISSUER
      BY DEF Cards, NO_ISSUER
    <3>2. ~Spoiled(c[2]) /\ wallet'[c[2]].issuer = c[1] /\ wallet'[c[2]].value = v
      BY <1>1, <1>4 DEF Holds, Spoiled
    <3>3. wallet'[c[2]] # wallet[c[2]]
      BY <2>2, <3>2 DEF Holds
    <3>4. c[2] = resp.card.id
      BY <1>1, <1>2, <3>1, <3>3 DEF CardsInv, TypeOK
    <3>5. wallet'[c[2]] = CardWith(wallet[c[2]], date, value, n, resp.issuer)
      BY <1>1, <1>2, <3>1, <3>4 DEF CardsInv, TypeOK
    <3>6. n = 2
      <4>1. n # 1
        BY <3>1, <3>2, <3>5 DEF CardWith
      <4>2. n # 0
        BY <2>2, <3>2, <3>5 DEF CardWith, Holds
      <4> QED
        BY <4>1, <4>2 DEF StoredFields
    <3>7. c = <<resp.issuer, resp.card.id>> /\ v = resp.card.value
      <4>1. wallet'[c[2]].issuer = resp.issuer /\ value # NULL /\ wallet'[c[2]].value = value
        BY <3>1, <3>2, <3>5, <3>6 DEF CardWith
      <4> QED
        BY InsertedField, <3>2, <3>4, <4>1 DEF Cards
    <3>8. ledger[c].balance = v /\ v \in Value
      BY <1>1, <3>7 DEF LedgerInv, AnswersExplained, AnswerExplained, hce_card
    <3>9. /\ Low(c)' = ledger[c].failedCredit /\ High(c)' = ledger[c].failedUses
          /\ ledger[c] \in Entry
      BY <1>1, <1>3 DEF Low, High, Entry
    <3>10. 0 \in -Low(c)' .. High(c)' /\ v = (v + 0) % ValueRange
      <4>1. 0 \in -ledger[c].failedCredit .. ledger[c].failedUses
        BY <3>9 DEF Entry
      <4> QED
        BY <3>8, <3>9, <4>1 DEF Value
    <3> QED
      BY <1>1, <3>8, <3>10 DEF Within
  <2> QED
    BY <2>1, <2>2
<1>5. ASSUME NEW c \in Cards, NEW v \in Value, Holds(saved, c, v)'
      PROVE  Within(v, ledger'[c].balance, DiskLow(c)', DiskHigh(c)')
  <2>1. Holds(saved, c, v)
    BY <1>1, <1>5 DEF Holds, Spoiled
  <2> QED
    BY <1>1, <1>3, <2>1, DiskCardStays DEF LedgerInv, SavedExplained
<1>6. WalletExplained' /\ SavedExplained'
  BY <1>4, <1>5 DEF WalletExplained, SavedExplained, Within
<1>7. AnswersExplained'
  BY <1>1 DEF AnswersExplained
<1>8. UnissuedInv'
  BY <1>1 DEF LedgerInv, UnissuedInv, Issued
<1> QED
  BY <1>6, <1>7, <1>8 DEF LedgerInv

(* The value of a use or recharge is stored, or cannot be: the operation   *)
(* is not yet on disk, or it is a failure.                                 *)
LEMMA ValueLedger ==
  ASSUME LedgerInv, CardsInv', ClientStoreValue
  PROVE  LedgerInv'
<1> USE DEF svars, cvars, link, Idle, Busy, Waiting
<1>1. /\ CardsInv /\ cPc = "waiting" /\ cPc' = "closing" /\ job.op \in {"USE", "RECHARGE"}
      /\ resp # NULL /\ resp' = NULL /\ req = NULL /\ sPc \in Idle /\ job \in Job
      /\ UNCHANGED <<job, saved, req, svars>>
      /\ ledger \in [Cards -> Entry] /\ Uses \in Nat /\ Credits \in Nat
      /\ Answers(resp)
  BY Typed DEF ClientStoreValue, StoreValue, Report, LedgerInv, CardsInv, LinkInv
<1>2. \A c \in Cards : MoreUses(c)' = 0 /\ MoreCredit(c)' = 0
  BY <1>1 DEF MoreUses, MoreCredit, MaybeDone, Stale
<1>3. \A c \in Cards :
        /\ MoreUses(c) = IF resp.card # NULL /\ c = JobCard THEN Uses ELSE 0
        /\ MoreCredit(c) = IF resp.card # NULL /\ c = JobCard THEN Credits ELSE 0
  BY <1>1 DEF MoreUses, MoreCredit, MaybeDone, Stale
<1>4. CASE outcome' = "error"
  <2>1. UNCHANGED <<wallet, zeroed>> /\ ledger' = Doubted(ledger)
    BY <1>1, <1>4 DEF ClientStoreValue, StoreValue, Report, CardsInv, TypeOK
  <2>2. ASSUME NEW c \in Cards PROVE Room(c) /\ DiskRoom(c)
    BY <1>1, <1>2, <1>3, <2>1, DoubtedEntry
    DEF Room, DiskRoom, Low, High, DiskLow, DiskHigh, Entry
  <2> QED
    BY <1>1, <2>1, <2>2, StoresStay, DoubtedEntry
    DEF LedgerInv, AnswersExplained, UnissuedInv, Issued
<1>5. CASE outcome' = "ok"
  <2>0. PICK value \in Inserted(ReceivedCard.value) :
          wallet' = [wallet EXCEPT ![ReceivedCard.id] = WithValue(@, value)]
    BY <1>5 DEF ClientStoreValue, StoreValue, Report
  <2>1. /\ wallet' = [wallet EXCEPT ![ReceivedCard.id] = WithValue(@, value)]
        /\ ledger' = Unsaved(ledger) /\ zeroed' = (zeroed \/ resp.card = NULL)
    BY <1>5, <2>0 DEF ClientStoreValue, StoreValue, Report
  <2>2. ReceivedCard \in hce_card
    BY <1>1, CardReceived DEF CardsInv
  <2>3. ASSUME NEW c \in Cards PROVE DiskRoom(c)
    BY <1>1, <1>2, <1>3, <2>1, UnsavedEntry
    DEF DiskRoom, Low, High, DiskLow, DiskHigh, Entry
  <2>4. ASSUME NEW c \in Cards, resp.card = NULL \/ c # JobCard PROVE Room(c)
    BY <1>1, <1>2, <1>3, <2>1, <2>4, UnsavedEntry DEF Room, Low, High, Entry
  <2>5. ASSUME NEW c \in Cards, NEW v \in Value, Holds(wallet, c, v)'
        PROVE  Within(v, ledger'[c].balance, Low(c)', High(c)')
    <3>0. c[2] \in Ids /\ c = <<c[1], c[2]>> /\ c[1] # NO_ISSUER
      BY DEF Cards, NO_ISSUER
    <3>1. CASE resp.card = NULL
      <4>1. ReceivedCard.id = 0 /\ zeroed'
        BY <1>1, <2>1, <3>1, CardReceived DEF CardsInv
      <4>2. c[2] # 0 /\ wallet'[c[2]] = wallet[c[2]]
        BY <1>1, <2>1, <2>5, <3>0, <4>1 DEF Holds, Spoiled, CardsInv, TypeOK
      <4>3. Holds(wallet, c, v)
        BY <2>5, <4>2 DEF Holds, Spoiled
      <4> QED
        BY <1>1, <2>4, <3>1, <4>3, CardStays DEF LedgerInv, WalletExplained
    <3>2. CASE resp.card # NULL
      <4>1. ReceivedCard = resp.card /\ resp.card.id = job.card_id /\ zeroed' = zeroed
        BY <1>1, <2>1, <3>2, CardReceived DEF Answers, CardsInv, TypeOK
      <4>2. CASE c[2] # job.card_id
        <5>1. Holds(wallet, c, v) /\ c # JobCard
          BY <1>1, <2>1, <2>5, <3>0, <4>1, <4>2 DEF Holds, Spoiled, JobCard, CardsInv, TypeOK
        <5> QED
          BY <1>1, <2>4, <5>1, CardStays DEF LedgerInv, WalletExplained
      <4>3. CASE c[2] = job.card_id
        <5>1. wallet[c[2]] \in StoredCard /\ wallet'[c[2]] = WithValue(wallet[c[2]], value)
          BY <1>1, <2>1, <3>0, <4>1, <4>3 DEF CardsInv, TypeOK
        <5>2. /\ wallet'[c[2]].value = value
              /\ wallet'[c[2]].issuer = IF value = NULL THEN NO_ISSUER ELSE wallet[c[2]].issuer
          BY <5>1, RevaluedCard
        <5>3. v = resp.card.value /\ c = JobCard /\ ~Spoiled(job.card_id)
          BY InsertedField, <2>5, <3>0, <4>1, <4>3, <5>2 DEF Holds, Spoiled, JobCard
        <5>4. Within(v, ledger[c].balance, ledger[c].failedCredit, ledger[c].failedUses)
          BY <1>1, <3>2, <5>3 DEF LedgerInv, AnswersExplained, AnswerExplained
        <5>5. /\ ledger'[c].balance = ledger[c].balance
              /\ Low(c)' = ledger[c].failedCredit /\ High(c)' = ledger[c].failedUses
          <6>1. ledger[c] \in Entry
            BY <1>1
          <6> QED
            BY <1>1, <1>2, <2>1, <6>1, UnsavedEntry DEF Low, High, Entry
        <5> QED
          BY <5>4, <5>5
      <4> QED
        BY <4>2, <4>3
    <3> QED
      BY <3>1, <3>2
  <2>6. ASSUME NEW c \in Cards, NEW v \in Value, Holds(saved, c, v)'
        PROVE  Within(v, ledger'[c].balance, DiskLow(c)', DiskHigh(c)')
    <3>1. Holds(saved, c, v)
      BY <1>1, <2>1, <2>6 DEF Holds, Spoiled
    <3> QED
      BY <1>1, <2>3, <3>1, DiskCardStays DEF LedgerInv, SavedExplained
  <2>7. WalletExplained' /\ SavedExplained'
    BY <2>5, <2>6 DEF WalletExplained, SavedExplained, Within
  <2>8. UnissuedInv'
    BY <1>1, <2>1, UnsavedEntry DEF LedgerInv, UnissuedInv, Issued
  <2> QED
    BY <1>1, <2>7, <2>8 DEF LedgerInv, AnswersExplained
<1> QED
  BY <1>4, <1>5 DEF ClientStoreValue, StoreValue, Report

(* The client gives up: what may have been performed, or may still be, is  *)
(* a failure from now on.                                                  *)
LEMMA GivenUp ==
  ASSUME CardsInv, CardsInv', cPc = "waiting", cPc' # "waiting",
         UNCHANGED <<svars, job>>, NEW c \in Cards
  PROVE  /\ MoreUses(c)' + (IF c = JobCard THEN Uses ELSE 0) >= MoreUses(c)
         /\ MoreCredit(c)' + (IF c = JobCard THEN Credits ELSE 0) >= MoreCredit(c)
<1> USE DEF svars, Idle, Busy, Waiting
<1>1. Uses \in Nat /\ Credits \in Nat /\ job \in Job
  BY Typed
<1>2. CASE sPc \in Busy
  <2>1. ~MaybeDone /\ ~MaybeDone'
    BY <1>2 DEF MaybeDone
  <2>2. ForJob(work)
    BY <1>2 DEF CardsInv, LinkInv
  <2>3. MoreUses(c) = 0 /\ MoreCredit(c) = 0
    BY <2>1 DEF MoreUses, MoreCredit, Stale
  <2>4. Stale(c)' => /\ c = JobCard /\ job.op = work.op /\ job.value = work.value
    BY <2>2 DEF Stale, ForJob, JobCard, CardsOf
  <2>5. /\ MoreUses(c)' = IF Stale(c)' /\ work.op = "USE" THEN -1 ELSE 0
        /\ MoreCredit(c)' = IF Stale(c)' /\ work.op = "RECHARGE" THEN -work.value ELSE 0
    BY <2>1 DEF MoreUses, MoreCredit
  <2>6. Stale(c)' => work.value \in Int
    BY <2>4, TypedNext, <1>2 DEF CardsInv, LinkInv, WellFormed, Request, Value
  <2> QED
    BY <1>1, <2>3, <2>4, <2>5, <2>6 DEF Uses, Credits
<1>3. CASE sPc \notin Busy
  <2>1. MoreUses(c)' = 0 /\ MoreCredit(c)' = 0
    BY <1>3 DEF MoreUses, MoreCredit, MaybeDone, Stale
  <2>2. /\ MoreUses(c) \in {0, IF c = JobCard THEN Uses ELSE 0}
        /\ MoreCredit(c) \in {0, IF c = JobCard THEN Credits ELSE 0}
    BY <1>3 DEF MoreUses, MoreCredit, MaybeDone, Stale
  <2> QED
    BY <1>1, <2>1, <2>2
<1> QED
  BY <1>2, <1>3

LEMMA FailureLedger ==
  ASSUME LedgerInv, CardsInv', ClientTransceiveFails
  PROVE  LedgerInv'
<1>1. /\ CardsInv /\ cPc = "waiting" /\ cPc' = "closing"
      /\ UNCHANGED <<svars, job, wallet, saved, zeroed>>
      /\ resp' = NULL /\ ledger' = Doubted(ledger) /\ ledger \in [Cards -> Entry]
  BY Typed DEF ClientTransceiveFails, TransceiveFails, GiveUp, LedgerInv
<1>2. ASSUME NEW c \in Cards PROVE Room(c) /\ DiskRoom(c)
  <2>1. /\ MoreUses(c)' + (IF c = JobCard THEN Uses ELSE 0) >= MoreUses(c)
        /\ MoreCredit(c)' + (IF c = JobCard THEN Credits ELSE 0) >= MoreCredit(c)
    BY <1>1, GivenUp
  <2>2. /\ MoreUses(c) \in Int /\ MoreCredit(c) \in Int /\ Uses \in Nat /\ Credits \in Nat
        /\ MoreUses(c)' \in Int /\ MoreCredit(c)' \in Int /\ ledger[c] \in Entry
    BY <1>1, Typed, TypedNext DEF Waiting
  <2> QED
    BY <1>1, <2>1, <2>2, DoubtedEntry
    DEF Room, DiskRoom, Low, High, DiskLow, DiskHigh, Entry
<1>3. WalletExplained' /\ SavedExplained'
  BY <1>1, <1>2, StoresStay
<1>4. AnswersExplained'
  BY <1>1 DEF AnswersExplained, Waiting
<1>5. UnissuedInv'
  BY <1>1, DoubtedEntry DEF LedgerInv, UnissuedInv, Issued, svars
<1> QED
  BY <1>3, <1>4, <1>5 DEF LedgerInv

(* The store reaches the disk, whole or cut short. *)
LEMMA SaveLedger ==
  ASSUME LedgerInv, CardsInv', ClientSaves
  PROVE  LedgerInv'
<1>1. /\ CardsInv /\ cPc = "closing" /\ cPc' = "off" /\ saved' = wallet'
      /\ UNCHANGED <<svars, link, job, zeroed>>
      /\ ledger' = Saved(ledger) /\ ledger \in [Cards -> Entry]
  BY Typed DEF ClientSaves, ClientClose, SaveCut, LedgerInv
<1>2. ASSUME NEW c \in Cards
      PROVE  /\ ledger'[c].balance = ledger[c].balance
             /\ Low(c)' = Low(c) /\ High(c)' = High(c)
             /\ DiskLow(c)' = Low(c) /\ DiskHigh(c)' = High(c)
  <2>1. MoreUses(c)' = MoreUses(c) /\ MoreCredit(c)' = MoreCredit(c)
    BY <1>1 DEF MoreUses, MoreCredit, MaybeDone, Stale, Waiting, svars
  <2>2. ledger[c] \in Entry /\ MoreUses(c) \in Int /\ MoreCredit(c) \in Int
    BY <1>1, Typed
  <2> QED
    BY <1>1, <2>1, <2>2, SavedEntry DEF Low, High, DiskLow, DiskHigh, Entry
<1>3. ASSUME NEW c \in Cards, NEW v \in Value, Holds(wallet, c, v)' \/ Holds(saved, c, v)'
      PROVE  /\ Within(v, ledger'[c].balance, Low(c)', High(c)')
             /\ Within(v, ledger'[c].balance, DiskLow(c)', DiskHigh(c)')
  <2>1. c[2] \in Ids /\ c[1] # NO_ISSUER
    BY DEF Cards, NO_ISSUER
  <2>2. wallet'[c[2]].issuer = c[1] /\ wallet'[c[2]].value = v /\ ~Spoiled(c[2])
    BY <1>1, <1>3 DEF Holds, Spoiled
  <2>3. Remains(c[2])
    BY <1>1, <2>1, LoadedOrLeft DEF ClientSaves
  <2>4. Holds(wallet, c, v)
    BY <2>1, <2>2, <2>3 DEF Remains, Holds
  <2> QED
    BY <1>2, <2>4 DEF LedgerInv, WalletExplained
<1>4. WalletExplained' /\ SavedExplained'
  BY <1>3 DEF WalletExplained, SavedExplained, Within
<1>5. AnswersExplained'
  BY <1>1 DEF AnswersExplained, Waiting, link, CardsInv, LinkInv
<1>6. UnissuedInv'
  BY <1>1, <1>2 DEF LedgerInv, UnissuedInv, Issued, svars
<1> QED
  BY <1>4, <1>5, <1>6 DEF LedgerInv

(* The power fails, the save is refused or the store has ended: back to    *)
(* what is on disk.                                                        *)
LEMMA LostLedger ==
  ASSUME LedgerInv, CardsInv', ClientPowerLoss \/ ClientLosesRun \/ ClientStoreDies
  PROVE  LedgerInv'
<1> DEFINE l == IF cPc = "waiting" THEN Doubted(ledger) ELSE ledger
<1>1. /\ CardsInv /\ cPc # "off" /\ cPc' = "off" /\ wallet' = saved /\ resp' = NULL
      /\ UNCHANGED <<svars, job, saved, zeroed>>
      /\ ledger' = Undone(l) /\ ledger \in [Cards -> Entry]
  <2>1. CardsInv /\ ledger \in [Cards -> Entry]
    BY Typed DEF LedgerInv
  <2>2. CASE ClientPowerLoss
    BY <2>1, <2>2 DEF ClientPowerLoss, ClientCrash
  <2>3. CASE ClientLosesRun
    BY <2>1, <2>3 DEF ClientLosesRun, SaveRefused, CardsInv, LinkInv, Waiting, link
  <2>4. CASE ClientStoreDies
    BY <2>1, <2>4 DEF ClientStoreDies, InsertPanics
  <2> QED
    BY <2>2, <2>3, <2>4
<1>2. l \in [Cards -> Entry]
  BY <1>1, LedgerKept DEF CardsInv, LinkInv
<1>3. ASSUME NEW c \in Cards
      PROVE  /\ ledger'[c].balance = ledger[c].balance
             /\ Low(c)' >= DiskLow(c) /\ High(c)' >= DiskHigh(c)
             /\ DiskLow(c)' >= DiskLow(c) /\ DiskHigh(c)' >= DiskHigh(c)
  <2>1. /\ MoreUses(c) \in Int /\ MoreCredit(c) \in Int
        /\ MoreUses(c)' \in Int /\ MoreCredit(c)' \in Int
        /\ ledger[c] \in Entry /\ l[c] \in Entry
    BY <1>1, <1>2, Typed, TypedNext
  <2>2. CASE cPc = "waiting"
    <3>1. /\ MoreUses(c)' + (IF c = JobCard THEN Uses ELSE 0) >= MoreUses(c)
          /\ MoreCredit(c)' + (IF c = JobCard THEN Credits ELSE 0) >= MoreCredit(c)
          /\ Uses \in Nat /\ Credits \in Nat
      BY <1>1, <2>2, GivenUp, Typed DEF Waiting
    <3>2. /\ l[c].balance = ledger[c].balance
          /\ l[c].failedUses = ledger[c].failedUses + (IF c = JobCard THEN Uses ELSE 0)
          /\ l[c].failedCredit = ledger[c].failedCredit + (IF c = JobCard THEN Credits ELSE 0)
          /\ l[c].unsavedUses = ledger[c].unsavedUses
          /\ l[c].unsavedCredit = ledger[c].unsavedCredit
      BY <1>1, <2>2, DoubtedEntry
    <3> HIDE DEF l
    <3> QED
      BY <1>1, <1>2, <2>1, <3>1, <3>2, UndoneEntry
      DEF Low, High, DiskLow, DiskHigh, Entry
  <2>3. CASE cPc # "waiting"
    <3>1. MoreUses(c)' = MoreUses(c) /\ MoreCredit(c)' = MoreCredit(c)
      BY <1>1, <2>3 DEF MoreUses, MoreCredit, MaybeDone, Stale, Waiting, svars
    <3>2. l = ledger
      BY <2>3
    <3> HIDE DEF l
    <3> QED
      BY <1>1, <2>1, <3>1, <3>2, UndoneEntry DEF Low, High, DiskLow, DiskHigh, Entry
  <2> QED
    BY <2>2, <2>3
<1>4. ASSUME NEW c \in Cards, NEW v \in Value, Holds(wallet, c, v)' \/ Holds(saved, c, v)'
      PROVE  /\ Within(v, ledger'[c].balance, Low(c)', High(c)')
             /\ Within(v, ledger'[c].balance, DiskLow(c)', DiskHigh(c)')
  <2>1. Holds(saved, c, v)
    BY <1>1, <1>4 DEF Holds, Spoiled
  <2>2. Within(v, ledger[c].balance, DiskLow(c), DiskHigh(c))
    BY <2>1 DEF LedgerInv, SavedExplained
  <2>3. /\ ledger[c].balance \in Int /\ DiskLow(c) \in Int /\ DiskHigh(c) \in Int
        /\ Low(c)' \in Int /\ High(c)' \in Int /\ DiskLow(c)' \in Int /\ DiskHigh(c)' \in Int
    BY <1>1, Bounds
  <2> QED
    BY <1>3, <2>2, <2>3, WithinKept
<1>5. WalletExplained' /\ SavedExplained'
  BY <1>4 DEF WalletExplained, SavedExplained, Within
<1>6. AnswersExplained'
  BY <1>1 DEF AnswersExplained, Waiting
<1>7. UnissuedInv'
  BY <1>1, <1>3 DEF LedgerInv, UnissuedInv, Issued, svars
<1> QED
  BY <1>5, <1>6, <1>7 DEF LedgerInv

-----------------------------------------------------------------------------
LEMMA LedgerInvInit == Init => LedgerInv
<1> SUFFICES ASSUME Init PROVE LedgerInv
  OBVIOUS
<1>1. CardsInv
  BY CardsInvInit
<1>2. \A id \in Ids : wallet[id].issuer = 0 /\ saved[id].issuer = 0
  BY DEF Init, ClientInit, NoCard, NO_ISSUER
<1>3. \A c \in Cards : c[1] # 0 /\ c[2] \in Ids
  BY DEF Cards
<1>4. WalletExplained /\ SavedExplained
  BY <1>2, <1>3 DEF WalletExplained, SavedExplained, Holds
<1>5. AnswersExplained
  BY DEF Init, LinkInit, ClientInit, AnswersExplained, Waiting
<1>6. UnissuedInv
  BY DEF Init, UnissuedInv, NoEntry
<1> QED
  BY <1>1, <1>4, <1>5, <1>6 DEF LedgerInv

LEMMA LedgerInvKept == LedgerInv /\ [Next]_vars => LedgerInv'
<1> SUFFICES ASSUME LedgerInv, [Next]_vars PROVE LedgerInv'
  OBVIOUS
<1>1. CardsInv'
  BY CardsInvKept DEF LedgerInv
<1>2. CASE ServerOther
  BY <1>1, <1>2, QuietSteps DEF ServerOther
<1>3. CASE ClientOther
  BY <1>1, <1>3, QuietSteps, StartLedger, CardLedger DEF ClientOther
<1>4. CASE Handshake \/ NobodyThere \/ ServerAnswers \/ UNCHANGED vars
  BY <1>1, <1>4, QuietSteps
<1> QED
  BY <1>1, <1>2, <1>3, <1>4, PurchaseLedger, PerformLedger, ValueLedger, FailureLedger,
     SaveLedger, LostLedger
  DEF Next

(* Every card's value, in the store and on disk, is what the terminals      *)
(* granted it up to what failed and what is still under way.               *)
THEOREM LedgerCorrect == Spec => []LedgerInv
  BY LedgerInvInit, LedgerInvKept, PTL DEF Spec

(* Whenever no request is under way, a value the client has is what the    *)
(* terminals granted the card, up to the operations the client saw fail    *)
(* and those of runs whose cards did not reach the disk.                   *)
THEOREM Explanation == Spec => []DifferencesExplained
<1>1. LedgerInv => DifferencesExplained
  <2> SUFFICES ASSUME LedgerInv, cPc \in {"off", "connecting", "connected"},
                      NEW id \in Ids, wallet[id].issuer # NO_ISSUER, id = 0 => ~zeroed
               PROVE  Explained(id)
    BY DEF DifferencesExplained
  <2> DEFINE c == <<wallet[id].issuer, id>>
             v == wallet[id].value
  <2>1. CardsInv /\ wallet[id] \in StoredCard
    BY DEF LedgerInv, CardsInv, TypeOK
  <2>2. c \in Cards /\ v \in Value
    BY <2>1 DEF StoredCard, Issuer, NO_ISSUER, Cards, CardsInv, CounterInv, Sound
  <2>3. Within(v, ledger[c].balance, Low(c), High(c))
    <3>1. Holds(wallet, c, v)
      BY DEF Holds, Spoiled
    <3> QED
      BY <2>2, <3>1 DEF LedgerInv, WalletExplained
  <2>4. /\ ledger[c] \in Entry /\ MoreUses(c) \in {0, -1}
        /\ MoreCredit(c) \in Int /\ MoreCredit(c) <= 0
    <3>1. sPc \in Busy => work.value \in Nat
      BY <2>1 DEF CardsInv, LinkInv, Busy, Idle, WellFormed, Request, Value
    <3> QED
      BY <2>1, <2>2, <3>1, Typed DEF MoreUses, MoreCredit, MaybeDone, Stale, Waiting
  <2>5. Within(v, ledger[c].balance, ledger[c].failedCredit, ledger[c].failedUses)
    <3> HIDE DEF c, v
    <3>1. /\ ledger[c].balance \in Int /\ Low(c) \in Int /\ High(c) \in Int
          /\ ledger[c].failedCredit \in Int /\ ledger[c].failedUses \in Int
          /\ ledger[c].failedCredit >= Low(c) /\ ledger[c].failedUses >= High(c)
      BY <2>4 DEF Low, High, Entry
    <3> QED
      BY <2>3, <3>1, WithinKept
  <2> QED
    BY <2>4, <2>5 DEF Explained, Within, PRICE, Entry
<1> QED
  BY LedgerCorrect, <1>1, PTL

=============================================================================
