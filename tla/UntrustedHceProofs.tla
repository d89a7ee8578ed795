------------------------- MODULE UntrustedHceProofs --------------------------
(***************************************************************************)
(* That no more cards differ from what the terminal made of them than      *)
(* failures were printed, for every number of cards, amounts and faults.   *)
(*                                                                         *)
(* Responses may be late by any number of requests, so no response can be  *)
(* matched with its request.  They can be counted: every request that is   *)
(* still somewhere on the link stands for a transceive that failed or is   *)
(* in progress, and taking any response, whosever it is, takes one of them *)
(* away (CountInv).  The cards to count with them are not those that differ *)
(* now, but those that will differ when all that is under way has arrived  *)
(* (Due, Lost): the others are covered by the requests behind them.        *)
(***************************************************************************)
EXTENDS UntrustedHce, FiniteSetTheorems, TLAPS

Idle == {"starting", "receiving", "exited"}

Typed ==
  /\ TypeOK
  /\ DOMAIN file = {"n_entries", "cards", "whole"}

WellFormed(r) == r \in Request /\ (r.op # "PURCHASE" => r.card \in hce_card)

(* The terminal, between one message and the next. *)
ServerInv ==
  /\ sPc \in Idle => work = NULL /\ reply = NULL
  /\ sPc = "processing" => reply = NULL
  /\ sPc \notin Idle => WellFormed(work)
  /\ sPc \in {"checked", "sending"} => reply \in Response
  /\ sPc = "checked" => /\ work.op # "PURCHASE" /\ reply.card = NULL
                        /\ reply.code = 0 => ~Valid(work.card)
  /\ req # NULL => WellFormed(req)

(* A refusal carries no card. *)
RefusalEmpty(r) == r # NULL /\ r.code = 0 => r.card = NULL

RefusalsEmpty == RefusalEmpty(reply) /\ RefusalEmpty(resp)

(* Nothing but purchases is under way while cards are being purchased. *)
OnlyPurchases ==
  kind = 1 =>
    /\ req # NULL => req.op = "PURCHASE"
    /\ work # NULL => work.op = "PURCHASE"
    /\ reply # NULL => reply.card # NULL
    /\ resp # NULL => resp.card # NULL

(* This response brings that card. *)
Brings(r, id) == r # NULL /\ r.card # NULL /\ r.card.id = id

(* What the store will hold of a card once the responses under way have    *)
(* been taken, in the order they come.                                     *)
Due(id) ==
  IF Brings(reply, id) THEN FieldsOf(reply.card)
  ELSE IF Brings(resp, id) THEN FieldsOf(resp.card) ELSE store[id]

(* What an answer without a card finds in the buffer is in the store. *)
LeftoverStored ==
  kind > 2 /\ recv_buf # Zeros => store[recv_buf.id].value = recv_buf.value

LinkInv == ServerInv /\ RefusalsEmpty /\ OnlyPurchases /\ LeftoverStored

(* The cards that will then not be stored as the terminal last made them. *)
Lost == {id \in Ids \ mistaken : Due(id) # granted[id]}

One(m) == IF m = NULL THEN 0 ELSE 1
Pending == One(req) + One(work) + One(resp)

(* Each of them, and each request under way, stands for a failure. *)
CountInv == Cardinality(Lost) + Pending <= failures + InProgress

UhceInv == Typed /\ LinkInv /\ CountInv
-----------------------------------------------------------------------------
USE ValueRangeAssumption, AmountsAssumption, CardBoundsAssumption, NullMessageAssumption,
    TimeAssumption, CardValueAssumption, UhceFaultsAssumption

LEMMA FourKinds ==
  /\ DOMAIN Kinds = 1 .. 4 /\ Len(Kinds) = 4
  /\ Kinds[1] = "PURCHASE" /\ Kinds[2] = "VALIDATE"
  /\ Kinds[3] = "USE" /\ Kinds[4] = "RECHARGE"
BY DEF Kinds

(* What the server makes of a card is a card, of the same number. *)
LEMMA ServedCard ==
  ASSUME NEW card \in hce_card, NEW v \in Value
  PROVE  /\ Used(card) \in hce_card /\ Used(card).id = card.id
         /\ Recharged(card, v) \in hce_card /\ Recharged(card, v).id = card.id
BY DEF Used, Recharged, Updated, hce_card, Value, PRICE

(* The card read from the store is whole. *)
LEMMA CardRead ==
  ASSUME Typed, NEW id \in Ids, Readable(id)
  PROVE  [id |-> id, expiration_date |-> store[id].expiration_date,
          value |-> store[id].value] \in hce_card
BY DEF Readable, hce_card, Typed, TypeOK, Fields

LEMMA ZerosIsCard == Zeros \in hce_card /\ Zeros.id = 0
BY DEF Zeros, hce_card, Ids, Value

LEMMA FieldsTyped ==
  ASSUME NEW card \in hce_card
  PROVE  FieldsOf(card) \in Fields
BY DEF FieldsOf, Fields, hce_card

LEMMA NoCardTyped == NoCard \in Fields
BY DEF NoCard, Fields

(* So is the card read from a response. *)
LEMMA CardReceived ==
  ASSUME Typed, resp # NULL
  PROVE  Received \in hce_card /\ Received.id \in Ids
BY DEF Received, Typed, TypeOK, Response, hce_card

(* How the loop goes on after a card. *)
LEMMA LoopGoesOn ==
  ASSUME Typed, NEW buf \in hce_card, NextCard(buf) \/ EndKind
  PROVE  /\ cPc' \in {"looping", "closing"} /\ i' \in 0 .. N_RUNS - 1
         /\ kind' \in DOMAIN Kinds /\ kind' >= kind /\ recv_buf' \in hce_card
         /\ recv_buf' = Zeros \/ (recv_buf' = buf /\ kind' = kind)
<1>1. CASE EndKind
  BY <1>1, ZerosIsCard, FourKinds DEF EndKind, Typed, TypeOK, N_RUNS
<1>2. CASE NextCard(buf) /\ ~EndKind
  BY <1>2, FourKinds DEF NextCard, Typed, TypeOK, N_RUNS
<1> QED
  BY <1>1, <1>2

(* Counting sets of cards. *)
LEMMA FewerCards ==
  ASSUME NEW S \in SUBSET Ids, NEW T \in SUBSET S
  PROVE  Cardinality(S) \in Nat /\ Cardinality(T) \in Nat /\ Cardinality(T) <= Cardinality(S)
<1>1. IsFiniteSet(Ids)
  BY FS_Interval DEF Ids
<1>2. IsFiniteSet(S)
  BY <1>1, FS_Subset
<1> QED
  BY <1>2, FS_Subset, FS_CardinalityType

LEMMA OneCardMore ==
  ASSUME NEW S \in SUBSET Ids, NEW c \in Ids, NEW T \in SUBSET (S \cup {c})
  PROVE  Cardinality(S) \in Nat /\ Cardinality(T) \in Nat /\ Cardinality(T) <= Cardinality(S) + 1
<1>1. IsFiniteSet(Ids)
  BY FS_Interval DEF Ids
<1>2. IsFiniteSet(S)
  BY <1>1, FS_Subset
<1>3. /\ IsFiniteSet(S \cup {c}) /\ Cardinality(S) \in Nat
      /\ Cardinality(S \cup {c}) <= Cardinality(S) + 1
  <2>1. Cardinality(S) \in Nat
    BY <1>2, FS_CardinalityType
  <2>2. /\ IsFiniteSet(S \cup {c})
        /\ Cardinality(S \cup {c}) = IF c \in S THEN Cardinality(S) ELSE Cardinality(S) + 1
    BY <1>2, FS_AddElement
  <2> QED
    BY <2>1, <2>2
<1> QED
  BY <1>3, FS_Subset, FS_CardinalityType

LEMMA UnionBound ==
  ASSUME NEW S, NEW T, IsFiniteSet(S), IsFiniteSet(T)
  PROVE  /\ IsFiniteSet(S \cup T)
         /\ Cardinality(S \cup T) <= Cardinality(S) + Cardinality(T)
<1>1. /\ IsFiniteSet(S \cup T)
      /\ Cardinality(S \cup T) = Cardinality(S) + Cardinality(T) - Cardinality(S \cap T)
  BY FS_Union
<1>2. IsFiniteSet(S \cap T)
  BY FS_Subset, S \cap T \in SUBSET S
<1>3. Cardinality(S) \in Nat /\ Cardinality(T) \in Nat /\ Cardinality(S \cap T) \in Nat
  BY <1>2, FS_CardinalityType
<1> QED
  BY <1>1, <1>3

LEMMA Counts ==
  /\ Pending \in Nat /\ InProgress \in Nat /\ Lost \in SUBSET Ids
  /\ Pending' \in Nat /\ InProgress' \in Nat /\ Lost' \in SUBSET Ids
BY DEF Pending, One, InProgress, Lost

(* What a step does to the requests under way, the failures and the        *)
(* request in progress, when no card becomes lost by it (Paid), and when   *)
(* one does (PaidTwice).                                                   *)
Paid ==
  \/ Pending' <= Pending /\ failures' = failures /\ InProgress <= InProgress'
  \/ Pending' <= Pending + 1 /\ failures' = failures /\ InProgress = 0 /\ InProgress' = 1
  \/ Pending' <= Pending /\ failures' = failures + 1 /\ InProgress = 1 /\ InProgress' = 0
  \/ Pending' < Pending /\ failures' = failures /\ InProgress = 1 /\ InProgress' = 0

PaidTwice ==
  \/ Pending' < Pending /\ failures' = failures /\ InProgress <= InProgress'
  \/ Pending' < Pending /\ failures' = failures + 1 /\ InProgress = 1 /\ InProgress' = 0

(* A step that loses no card. *)
LEMMA NoneLost ==
  ASSUME CountInv, Typed, Typed',
         \A id \in Ids : id \in Lost' => id \in Lost,
         Paid
  PROVE  CountInv'
<1>1. Lost' \in SUBSET Lost
  BY Counts
<1>2. /\ Cardinality(Lost) \in Nat /\ Cardinality(Lost') \in Nat
      /\ Cardinality(Lost') <= Cardinality(Lost)
  BY <1>1, Counts, FewerCards
<1>3. failures \in Nat /\ failures' \in Nat
  BY DEF Typed, TypeOK
<1>4. /\ Pending \in Nat /\ InProgress \in Nat /\ Pending' \in Nat /\ InProgress' \in Nat
  BY Counts
<1>5. Cardinality(Lost) + Pending <= failures + InProgress
  BY DEF CountInv
<1>6. Cardinality(Lost') + Pending' <= failures' + InProgress'
  <2> DEFINE l == Cardinality(Lost)
             l2 == Cardinality(Lost')
             p == Pending
             p2 == Pending'
             w == InProgress
             w2 == InProgress'
             f2 == failures'
  <2>1. l \in Nat /\ l2 \in Nat /\ p \in Nat /\ p2 \in Nat
        /\ w \in Nat /\ w2 \in Nat /\ failures \in Nat /\ f2 \in Nat
    BY <1>2, <1>3, <1>4
  <2>2. l + p <= failures + w
    BY <1>5
  <2>3. /\ l2 <= l
        /\ \/ p2 <= p /\ f2 = failures /\ w <= w2
           \/ p2 <= p + 1 /\ f2 = failures /\ w = 0 /\ w2 = 1
           \/ p2 <= p /\ f2 = failures + 1 /\ w = 1 /\ w2 = 0
           \/ p2 < p /\ f2 = failures /\ w = 1 /\ w2 = 0
    BY <1>2 DEF Paid
  <2> HIDE DEF l, l2, p, p2, w, w2, f2
  <2>4. l2 + p2 <= f2 + w2
    BY <2>1, <2>2, <2>3
  <2> QED
    BY <2>4 DEF l2, p2, w2, f2
<1> QED
  BY <1>6 DEF CountInv

(* A step that loses at most one. *)
LEMMA OneLost ==
  ASSUME CountInv, Typed, Typed', NEW c \in Ids,
         \A id \in Ids : id \in Lost' => id \in Lost \/ id = c,
         PaidTwice
  PROVE  CountInv'
<1>1. Lost' \in SUBSET (Lost \cup {c})
  BY Counts
<1>2. /\ Cardinality(Lost) \in Nat /\ Cardinality(Lost') \in Nat
      /\ Cardinality(Lost') <= Cardinality(Lost) + 1
  BY <1>1, Counts, OneCardMore
<1>3. failures \in Nat /\ failures' \in Nat
  BY DEF Typed, TypeOK
<1>4. /\ Pending \in Nat /\ InProgress \in Nat /\ Pending' \in Nat /\ InProgress' \in Nat
  BY Counts
<1>5. Cardinality(Lost) + Pending <= failures + InProgress
  BY DEF CountInv
<1>6. Cardinality(Lost') + Pending' <= failures' + InProgress'
  <2> DEFINE l == Cardinality(Lost)
             l2 == Cardinality(Lost')
             p == Pending
             p2 == Pending'
             w == InProgress
             w2 == InProgress'
             f2 == failures'
  <2>1. l \in Nat /\ l2 \in Nat /\ p \in Nat /\ p2 \in Nat
        /\ w \in Nat /\ w2 \in Nat /\ failures \in Nat /\ f2 \in Nat
    BY <1>2, <1>3, <1>4
  <2>2. l + p <= failures + w
    BY <1>5
  <2>3. /\ l2 <= l + 1
        /\ \/ p2 < p /\ f2 = failures /\ w <= w2
           \/ p2 < p /\ f2 = failures + 1 /\ w = 1 /\ w2 = 0
    BY <1>2 DEF PaidTwice
  <2> HIDE DEF l, l2, p, p2, w, w2, f2
  <2>4. l2 + p2 <= f2 + w2
    BY <2>1, <2>2, <2>3
  <2> QED
    BY <2>4 DEF l2, p2, w2, f2
<1> QED
  BY <1>6 DEF CountInv

-----------------------------------------------------------------------------
(* The terminal. *)

(* The response to a purchase, a use or a recharge makes a card anew: that *)
(* card differs from now on, and is under way.                             *)
LEMMA GrantStep ==
  ASSUME UhceInv, sPc \in {"processing", "checked"}, sPc' = "sending",
         reply # NULL => reply.card = NULL,
         reply' \in Response, reply'.code = 1, reply'.card \in hce_card,
         granted' = [granted EXCEPT ![reply'.card.id] = FieldsOf(reply'.card)],
         new_card_id' \in 0 .. MaxCards,
         UNCHANGED <<req, resp, work, server, now, cvars, failures, mistaken>>
  PROVE  UhceInv'
<1> USE DEF cvars
<1> DEFINE c == reply'.card.id
<1>1. /\ c \in Ids /\ reply' # NULL /\ reply'.card # NULL /\ Brings(reply', c)
      /\ work # NULL /\ WellFormed(work)
  BY DEF hce_card, Brings, UhceInv, LinkInv, ServerInv, Idle, WellFormed
<1>2. /\ granted \in [Ids -> Fields]
      /\ \A id \in Ids \ {c} : granted'[id] = granted[id]
      /\ granted'[c] = FieldsOf(reply'.card) /\ granted' \in [Ids -> Fields]
  BY <1>1, FieldsTyped DEF UhceInv, Typed, TypeOK
<1> HIDE DEF c
<1>3. Typed'
  BY <1>2 DEF UhceInv, Typed, TypeOK, Written
<1>4. LinkInv'
  <2>1. ServerInv'
    BY <1>1 DEF UhceInv, LinkInv, ServerInv, Idle, WellFormed
  <2>2. RefusalsEmpty' /\ OnlyPurchases' /\ LeftoverStored'
    BY <1>1 DEF UhceInv, LinkInv, RefusalsEmpty, RefusalEmpty, OnlyPurchases, LeftoverStored
  <2> QED
    BY <2>1, <2>2 DEF LinkInv
<1>5. CountInv'
  <2>1. \A id \in Ids : id \in Lost' => id \in Lost
    BY <1>1, <1>2 DEF Lost, Due, Brings
  <2>2. Pending' = Pending /\ failures' = failures /\ InProgress' = InProgress
    BY DEF Pending, InProgress
  <2>3. Paid
    BY <2>2, Counts DEF Paid
  <2> QED
    BY <1>3, <2>1, <2>3, NoneLost DEF UhceInv
<1> QED
  BY <1>3, <1>4, <1>5 DEF UhceInv

LEMMA GrantSteps ==
  ASSUME UhceInv, ServerGrants, UNCHANGED cvars
  PROVE  UhceInv'
<1>1. CASE process_purchase
  <2>1. /\ sPc = "processing" /\ sPc' = "sending" /\ work \in Request /\ work.value \in Value
        /\ reply = NULL /\ new_card_id \in Ids
        /\ reply' = [code |-> 1, issuer |-> server,
                     card |-> [id |-> new_card_id, expiration_date |-> now + MONTH_SECONDS,
                               value |-> work.value]]
        /\ new_card_id' = new_card_id + 1
        /\ UNCHANGED <<req, resp, work, server, now>>
    BY <1>1 DEF process_purchase, NextCardId, link, Ids, UhceInv, Typed, TypeOK, LinkInv,
                ServerInv, Idle, WellFormed, Request
  <2>2. reply' \in Response /\ reply'.code = 1 /\ reply'.card \in hce_card
    BY <2>1 DEF Response, hce_card, Issuer, UhceInv, Typed, TypeOK
  <2>3. new_card_id' \in 0 .. MaxCards
    BY <2>1 DEF Ids
  <2> QED
    BY <2>1, <2>2, <2>3, GrantStep DEF ServerGrants
<1>2. CASE Perform
  <2>1. /\ sPc = "checked" /\ sPc' = "sending" /\ work \in Request /\ work.value \in Value
        /\ work.card \in hce_card /\ reply \in Response /\ reply.code = 1 /\ reply.card = NULL
        /\ reply' = [reply EXCEPT !.card = IF work.op = "USE" THEN Used(work.card)
                                           ELSE Recharged(work.card, work.value)]
        /\ UNCHANGED <<req, resp, work, server, now, new_card_id>>
    BY <1>2 DEF Perform, link, UhceInv, LinkInv, ServerInv, Idle, WellFormed, Request, Response
  <2>2. reply' \in Response /\ reply'.code = 1 /\ reply'.card \in hce_card
    BY <2>1, ServedCard DEF Response
  <2>3. new_card_id' \in 0 .. MaxCards
    BY <2>1 DEF UhceInv, Typed, TypeOK
  <2> QED
    BY <2>1, <2>2, <2>3, GrantStep DEF ServerGrants
<1> QED
  BY <1>1, <1>2 DEF ServerGrants

(* The steps between requests that make no card. *)
LEMMA ServerReceives ==
  ASSUME UhceInv, ServerReceive \/ ServerReceiveFails, UNCHANGED <<cvars, history>>
  PROVE  UhceInv'
<1> USE DEF cvars, history
<1>1. /\ sPc = "receiving" /\ req' = NULL /\ work = NULL /\ reply = NULL
      /\ UNCHANGED <<resp, reply, server, now, new_card_id>>
      /\ \/ sPc' = "processing" /\ work' = req /\ req # NULL /\ WellFormed(req)
         \/ sPc' = "exited" /\ work' = NULL
  BY DEF ServerReceive, ServerReceiveFails, UhceInv, LinkInv, ServerInv, Idle
<1>2. Typed'
  BY <1>1 DEF UhceInv, Typed, TypeOK, WellFormed, Written
<1>3. LinkInv'
  <2>1. ServerInv'
    BY <1>1 DEF ServerInv, Idle, WellFormed
  <2>2. RefusalsEmpty' /\ LeftoverStored'
    BY <1>1 DEF UhceInv, LinkInv, RefusalsEmpty, RefusalEmpty, LeftoverStored
  <2>3. OnlyPurchases'
    BY <1>1 DEF UhceInv, LinkInv, OnlyPurchases
  <2> QED
    BY <2>1, <2>2, <2>3 DEF LinkInv
<1>4. CountInv'
  <2>1. \A id \in Ids : id \in Lost' => id \in Lost
    BY <1>1 DEF Lost, Due, Brings
  <2>2. failures' = failures /\ InProgress' = InProgress
    BY DEF InProgress
  <2>3. Pending' <= Pending
    BY <1>1 DEF Pending, One
  <2>4. Paid
    BY <2>2, <2>3, Counts DEF Paid
  <2> QED
    BY <1>2, <2>1, <2>4, NoneLost DEF UhceInv
<1> QED
  BY <1>2, <1>3, <1>4 DEF UhceInv

LEMMA ServerDecides ==
  ASSUME UhceInv, process_validate \/ Decline, UNCHANGED <<cvars, history>>
  PROVE  UhceInv'
<1> USE DEF cvars, history, link
<1>1. /\ work \in Request /\ work # NULL /\ WellFormed(work) /\ work.op # "PURCHASE"
      /\ UNCHANGED <<req, resp, work, server, now, new_card_id>>
      /\ reply # NULL => reply.card = NULL
      /\ reply' \in Response /\ reply' # NULL /\ reply'.card = NULL
      /\ sPc' \in {"checked", "sending"}
      /\ sPc' = "checked" /\ reply'.code = 0 => ~Valid(work.card)
  <2>1. CASE process_validate
    BY <2>1 DEF process_validate, UhceInv, LinkInv, ServerInv, Idle, WellFormed, Request, Response
  <2>2. CASE Decline
    BY <2>2 DEF Decline, UhceInv, LinkInv, ServerInv, Idle, WellFormed
  <2> QED
    BY <2>1, <2>2
<1>2. Typed'
  BY <1>1 DEF UhceInv, Typed, TypeOK, Written
<1>3. LinkInv'
  <2>1. ServerInv'
    BY <1>1 DEF UhceInv, LinkInv, ServerInv, Idle, WellFormed, Valid
  <2>2. RefusalsEmpty' /\ LeftoverStored'
    BY <1>1 DEF UhceInv, LinkInv, RefusalsEmpty, RefusalEmpty, LeftoverStored
  <2>3. OnlyPurchases'
    BY <1>1 DEF UhceInv, LinkInv, OnlyPurchases
  <2> QED
    BY <2>1, <2>2, <2>3 DEF LinkInv
<1>4. CountInv'
  <2>1. \A id \in Ids : id \in Lost' => id \in Lost
    BY <1>1 DEF Lost, Due, Brings
  <2>2. failures' = failures /\ InProgress' = InProgress /\ Pending' = Pending
    BY <1>1 DEF InProgress, Pending
  <2>3. Paid
    BY <2>2, Counts DEF Paid
  <2> QED
    BY <1>2, <2>1, <2>3, NoneLost DEF UhceInv
<1> QED
  BY <1>2, <1>3, <1>4 DEF UhceInv

(* A response that is sent takes the place of one that nobody took; a      *)
(* response that cannot be sent is gone.                                   *)
LEMMA ServerSends ==
  ASSUME UhceInv, ServerSend \/ ServerSendFails, UNCHANGED <<cvars, history>>
  PROVE  UhceInv'
<1> USE DEF cvars, history, link
<1>1. /\ work # NULL /\ reply \in Response /\ reply # NULL
      /\ work' = NULL /\ reply' = NULL
      /\ UNCHANGED <<req, server, now, new_card_id>>
      /\ \/ sPc' = "receiving" /\ resp' = reply
         \/ sPc' = "exited" /\ resp' = resp
  BY DEF ServerSend, ServerSendFails, UhceInv, LinkInv, ServerInv, Idle, WellFormed
<1>2. Typed'
  BY <1>1 DEF UhceInv, Typed, TypeOK, Written
<1>3. LinkInv'
  <2>1. ServerInv'
    BY <1>1 DEF UhceInv, LinkInv, ServerInv, Idle, WellFormed
  <2>2. RefusalsEmpty' /\ LeftoverStored'
    BY <1>1 DEF UhceInv, LinkInv, RefusalsEmpty, RefusalEmpty, LeftoverStored
  <2>3. OnlyPurchases'
    BY <1>1 DEF UhceInv, LinkInv, OnlyPurchases
  <2> QED
    BY <2>1, <2>2, <2>3 DEF LinkInv
<1>4. CountInv'
  <2> DEFINE gone == IF resp' = resp THEN reply ELSE resp
  <2>1. failures' = failures /\ InProgress' = InProgress /\ failures \in Nat
    BY DEF InProgress, UhceInv, Typed, TypeOK
  <2>2. Pending' <= Pending /\ (gone # NULL => Pending' < Pending)
    BY <1>1 DEF Pending, One
  <2>3. Paid /\ (gone # NULL => PaidTwice)
    BY <2>1, <2>2, Counts DEF Paid, PaidTwice
  <2>4. \A id \in Ids : id \in Lost' => id \in Lost \/ Brings(gone, id)
    BY <1>1 DEF Lost, Due, Brings
  <2>5. CASE \E id \in Ids : Brings(gone, id)
    <3>1. PICK c \in Ids : Brings(gone, c)
      BY <2>5
    <3>2. gone # NULL /\ \A id \in Ids : id \in Lost' => id \in Lost \/ id = c
      BY <2>4, <3>1 DEF Brings
    <3> QED
      BY <1>2, <2>3, <3>2, OneLost DEF UhceInv
  <2>6. CASE ~\E id \in Ids : Brings(gone, id)
    BY <1>2, <2>3, <2>4, <2>6, NoneLost DEF UhceInv
  <2> QED
    BY <2>5, <2>6
<1> QED
  BY <1>2, <1>3, <1>4 DEF UhceInv

LEMMA TickStep ==
  ASSUME UhceInv, Ticks
  PROVE  UhceInv'
<1> USE DEF cvars, history, link, Ticks, Tick
<1>1. Typed'
  BY DEF UhceInv, Typed, TypeOK, Written
<1>2. LinkInv'
  <2>1. ServerInv'
    BY DEF UhceInv, Typed, TypeOK, LinkInv, ServerInv, Idle, WellFormed, Valid, hce_card
  <2>2. RefusalsEmpty' /\ LeftoverStored'
    BY DEF UhceInv, LinkInv, RefusalsEmpty, RefusalEmpty, LeftoverStored
  <2>3. OnlyPurchases'
    BY DEF UhceInv, LinkInv, OnlyPurchases
  <2> QED
    BY <2>1, <2>2, <2>3 DEF LinkInv
<1>3. CountInv'
  BY DEF UhceInv, CountInv, Lost, Due, Brings, Pending, InProgress
<1> QED
  BY <1>1, <1>2, <1>3 DEF UhceInv

-----------------------------------------------------------------------------
(* The evaluation program. *)

(* Its beginning and its end leave the cards alone. *)
LEMMA Quiet ==
  ASSUME UhceInv, Typed', ServerInv', InProgress <= InProgress',
         UNCHANGED <<req, resp, work, reply, kind, recv_buf, store, history>>
  PROVE  UhceInv'
<1> USE DEF history
<1>1. LinkInv'
  BY DEF UhceInv, LinkInv, RefusalsEmpty, RefusalEmpty, OnlyPurchases, LeftoverStored
<1>2. CountInv'
  <2>1. \A id \in Ids : id \in Lost' => id \in Lost
    BY DEF Lost, Due, Brings
  <2>2. failures' = failures /\ Pending' = Pending /\ failures \in Nat
    BY DEF Pending, UhceInv, Typed, TypeOK
  <2>3. Paid
    BY <2>2, Counts DEF Paid
  <2> QED
    BY <2>1, <2>3, NoneLost DEF UhceInv
<1> QED
  BY <1>1, <1>2 DEF UhceInv

LEMMA ProgramSteps ==
  ASSUME UhceInv,
         \/ NoDevice \/ SelectFails \/ Select
         \/ Close \/ SaveCard \/ SaveEnds \/ CannotSave \/ Killed
  PROVE  UhceInv'
<1> USE DEF svars, link, history
<1>1. CASE NoDevice \/ SelectFails \/ Select
  <2>1. /\ UNCHANGED <<req, resp, work, reply, kind, recv_buf, store, history>>
        /\ InProgress <= InProgress'
    BY <1>1 DEF NoDevice, SelectFails, Select, ServerStarted, ServerStartFails, InProgress
  <2>2. Typed'
    <3>1. /\ NoFile.n_entries = 0 /\ NoFile.whole = FALSE /\ DOMAIN NoFile.cards = {}
          /\ DOMAIN NoFile = {"n_entries", "cards", "whole"}
      BY DEF NoFile, OldFile
    <3>2. file' = NoFile \/ file' = file
      BY <1>1 DEF NoDevice, SelectFails, Select
    <3>3. /\ file'.n_entries \in Nat /\ file'.whole \in BOOLEAN
          /\ Written' \subseteq Ids /\ \A id \in Written' : file'.cards[id] \in Fields
          /\ DOMAIN file' = {"n_entries", "cards", "whole"}
      <4>1. CASE file' = NoFile
        <5>1. DOMAIN file'.cards = {} /\ 0 \in Nat
          BY <3>1, <4>1
        <5>2. Written' = {}
          BY <5>1 DEF Written
        <5>3. file'.n_entries = 0 /\ file'.whole = FALSE
              /\ DOMAIN file' = {"n_entries", "cards", "whole"}
          BY <3>1, <4>1
        <5>4. file'.n_entries \in Nat
          BY <5>3
        <5>5. file'.whole \in BOOLEAN
          BY <5>3, Zenon
        <5>6. Written' \subseteq Ids /\ \A id \in Written' : file'.cards[id] \in Fields
          BY <5>2
        <5> QED
          BY <5>3, <5>4, <5>5, <5>6
      <4>2. CASE file' = file
        BY <4>2 DEF Written, UhceInv, Typed, TypeOK
      <4> QED
        BY <3>2, <4>1, <4>2
    <3>4. /\ UNCHANGED <<new_card_id, server, now, i>>
          /\ sPc' \in {"starting", "receiving", "exited"} \/ sPc' = sPc
          /\ cPc' \in {"looping", "ended"}
      BY <1>1 DEF NoDevice, SelectFails, Select, ServerStarted, ServerStartFails
    <3> QED
      BY <2>1, <3>3, <3>4 DEF UhceInv, Typed, TypeOK
  <2>3. ServerInv'
    BY <1>1 DEF NoDevice, SelectFails, Select, ServerStarted, ServerStartFails,
                UhceInv, LinkInv, ServerInv, Idle, WellFormed, Valid
  <2> QED
    BY <2>1, <2>2, <2>3, Quiet
<1>2. CASE Close \/ SaveCard \/ SaveEnds \/ CannotSave \/ Killed
  <2>1. /\ UNCHANGED <<req, resp, svars, kind, i, recv_buf, store, history>>
        /\ InProgress <= InProgress'
        /\ cPc' \in {"saving", "saved", "ended"}
    <3>1. CASE SaveEnds
      BY <3>1 DEF SaveEnds, InProgress
    <3>2. CASE Close \/ SaveCard \/ CannotSave \/ Killed
      BY <3>2 DEF Close, SaveCard, CannotSave, Killed, InProgress
    <3> QED
      BY <1>2, <3>1, <3>2
  <2>2. /\ file'.n_entries \in Nat /\ file'.whole \in BOOLEAN
        /\ Written' \subseteq Ids /\ \A id \in Written' : file'.cards[id] \in Fields
        /\ DOMAIN file' = {"n_entries", "cards", "whole"}
    <3>1. Stored \in SUBSET Ids /\ Cardinality(Stored) \in Nat
      BY FewerCards DEF Stored
    <3>2. CASE Close
      BY <3>1, <3>2 DEF Close, Written
    <3>3. CASE SaveCard
      <4>1. PICK id \in Stored \ Written :
              file' = [file EXCEPT !.cards = [c \in Written \cup {id} |-> store[c]]]
        BY <3>3 DEF SaveCard
      <4>2. Written \subseteq Ids /\ file.n_entries \in Nat /\ file.whole \in BOOLEAN
            /\ store \in [Ids -> Fields]
        BY DEF UhceInv, Typed, TypeOK
      <4>3. /\ file'.n_entries = file.n_entries /\ file'.whole = file.whole
            /\ file'.cards = [c \in Written \cup {id} |-> store[c]]
            /\ DOMAIN file' = {"n_entries", "cards", "whole"}
        BY <4>1 DEF UhceInv, Typed
      <4> QED
        BY <3>1, <4>2, <4>3 DEF Written
    <3>4. CASE SaveEnds
      BY <3>4 DEF SaveEnds, Written, UhceInv, Typed, TypeOK
    <3>5. CASE CannotSave \/ Killed
      BY <3>5 DEF CannotSave, Killed, Written, UhceInv, Typed, TypeOK
    <3> QED
      BY <1>2, <3>2, <3>3, <3>4, <3>5
  <2>3. Typed'
    BY <2>1, <2>2 DEF UhceInv, Typed, TypeOK
  <2>4. ServerInv'
    BY <2>1 DEF UhceInv, LinkInv, ServerInv, Idle, WellFormed, Valid
  <2> QED
    BY <2>1, <2>3, <2>4, Quiet
<1> QED
  BY <1>1, <1>2

(* A request that is made replaces one that was not received. *)
LEMMA RequestStep ==
  ASSUME UhceInv, create_request
  PROVE  UhceInv'
<1> USE DEF svars, link, history
<1>1. /\ cPc = "looping" /\ cPc' = "waiting" /\ kind' = kind
      /\ Op = "PURCHASE" \/ Readable(i)
      /\ UNCHANGED <<resp, svars, i, recv_buf, store, file, history>>
  BY DEF create_request
<1>2. req' \in Request /\ WellFormed(req') /\ req'.op = Op
  <2>1. PICK v \in IF Op = "PURCHASE" THEN {CARD_VALUE} ELSE Amounts :
          req' = [op |-> Op, value |-> v, issuer |-> server,
                  card |-> IF Op = "PURCHASE" THEN NULL
                           ELSE [id |-> i, expiration_date |-> store[i].expiration_date,
                                 value |-> store[i].value]]
    BY DEF create_request
  <2>2. v \in Value
    BY DEF Value
  <2>3. Op \in Ops
    BY FourKinds DEF Op, Ops, UhceInv, Typed, TypeOK
  <2>4. server \in Issuer /\ i \in Ids
    BY DEF Issuer, Ids, N_RUNS, UhceInv, Typed, TypeOK
  <2>5. Op # "PURCHASE" => [id |-> i, expiration_date |-> store[i].expiration_date,
                            value |-> store[i].value] \in hce_card
    BY <1>1, <2>4, CardRead DEF UhceInv
  <2> QED
    BY <2>1, <2>2, <2>3, <2>4, <2>5 DEF Request, WellFormed
<1>3. Typed'
  BY <1>1, <1>2 DEF UhceInv, Typed, TypeOK, Written
<1>4. LinkInv'
  <2>1. ServerInv'
    BY <1>1, <1>2 DEF UhceInv, LinkInv, ServerInv, Idle, WellFormed, Valid
  <2>2. OnlyPurchases'
    BY <1>1, <1>2, FourKinds DEF UhceInv, LinkInv, OnlyPurchases, Op
  <2> QED
    BY <1>1, <2>1, <2>2 DEF UhceInv, LinkInv, RefusalsEmpty, RefusalEmpty, LeftoverStored
<1>5. CountInv'
  <2>1. \A id \in Ids : id \in Lost' => id \in Lost
    BY <1>1 DEF Lost, Due, Brings
  <2>2. /\ failures' = failures /\ failures \in Nat
        /\ InProgress = 0 /\ InProgress' = 1 /\ Pending' <= Pending + 1
    BY <1>1 DEF Pending, One, InProgress, UhceInv, Typed, TypeOK
  <2>3. Paid
    BY <2>2, Counts DEF Paid
  <2> QED
    BY <1>3, <2>1, <2>3, NoneLost DEF UhceInv
<1> QED
  BY <1>3, <1>4, <1>5 DEF UhceInv

(* A transceive that fails is one failure more; what was under way arrives *)
(* later, or is lost.                                                      *)
LEMMA FailedStep ==
  ASSUME UhceInv, TransceiveFails \/ ServerGone
  PROVE  UhceInv'
<1> USE DEF svars, link
<1>1. /\ cPc = "waiting" /\ failures' = failures + 1
      /\ UNCHANGED <<svars, store, file, granted, mistaken>>
      /\ UNCHANGED link \/ (req' = NULL /\ resp' = NULL)
  BY DEF TransceiveFails, ServerGone, TransceiveFailed
<1>2. /\ cPc' \in {"looping", "closing"} /\ i' \in 0 .. N_RUNS - 1
      /\ kind' \in DOMAIN Kinds /\ kind' >= kind /\ recv_buf' \in hce_card
      /\ recv_buf' = Zeros \/ (recv_buf' = recv_buf /\ kind' = kind)
  <2>1. NextCard(recv_buf) \/ EndKind
    BY DEF TransceiveFails, ServerGone, TransceiveFailed, AfterFailedTransceive
  <2>2. recv_buf \in hce_card
    BY DEF UhceInv, Typed, TypeOK
  <2> QED
    BY <2>1, <2>2, LoopGoesOn DEF UhceInv
<1>3. Typed'
  BY <1>1, <1>2 DEF UhceInv, Typed, TypeOK, Written
<1>4. LinkInv'
  <2>1. ServerInv'
    BY <1>1 DEF UhceInv, LinkInv, ServerInv, Idle, WellFormed, Valid
  <2>2. OnlyPurchases'
    <3>1. kind \in Nat /\ kind >= 1 /\ (kind' = 1 => kind = 1)
      BY <1>2, FourKinds DEF UhceInv, Typed, TypeOK
    <3> QED
      BY <1>1, <3>1 DEF UhceInv, LinkInv, OnlyPurchases
  <2>3. RefusalsEmpty'
    BY <1>1 DEF UhceInv, LinkInv, RefusalsEmpty, RefusalEmpty
  <2>4. LeftoverStored'
    BY <1>1, <1>2 DEF UhceInv, LinkInv, LeftoverStored
  <2> QED
    BY <2>1, <2>2, <2>3, <2>4 DEF LinkInv
<1>5. CountInv'
  <2>1. InProgress = 1 /\ InProgress' = 0
    BY <1>1, <1>2 DEF InProgress
  <2>2. CASE UNCHANGED link \/ resp = NULL
    <3>1. \A id \in Ids : id \in Lost' => id \in Lost
      BY <1>1, <2>2 DEF Lost, Due, Brings
    <3>2. Pending' <= Pending
      BY <1>1, <2>2 DEF Pending, One
    <3> QED
      BY <1>1, <1>3, <2>1, <3>1, <3>2, NoneLost DEF UhceInv, Paid
  <2>3. CASE req' = NULL /\ resp' = NULL /\ resp # NULL
    <3>1. Pending' < Pending /\ Pending' <= Pending
      BY <1>1, <2>3 DEF Pending, One
    <3>2. \A id \in Ids : id \in Lost' => id \in Lost \/ Brings(resp, id)
      BY <1>1, <2>3 DEF Lost, Due, Brings
    <3>3. CASE \E id \in Ids : Brings(resp, id)
      <4>1. PICK c \in Ids : Brings(resp, c)
        BY <3>3
      <4>2. \A id \in Ids : id \in Lost' => id \in Lost \/ id = c
        BY <3>2, <4>1 DEF Brings
      <4> QED
        BY <1>1, <1>3, <2>1, <3>1, <4>2, OneLost DEF UhceInv, PaidTwice
    <3>4. CASE ~\E id \in Ids : Brings(resp, id)
      BY <1>1, <1>3, <2>1, <3>1, <3>2, <3>4, NoneLost DEF UhceInv, Paid
    <3> QED
      BY <3>3, <3>4
  <2> QED
    BY <1>1, <2>2, <2>3
<1> QED
  BY <1>3, <1>4, <1>5 DEF UhceInv

(* What taking a response has in common, whichever it is. *)
LEMMA ResponseTaken ==
  ASSUME UhceInv, resp # NULL, cPc = "waiting", resp' = NULL,
         UNCHANGED <<req, svars, file, granted>>,
         store' \in [Ids -> Fields], mistaken' \subseteq Ids, failures' \in Nat,
         NextCard(Received) \/ EndKind,
         kind > 2 => Received = Zeros \/ EndKind
                     \/ store'[Received.id].value = Received.value
  PROVE  /\ Typed' /\ LinkInv' /\ Pending' < Pending
         /\ InProgress = 1 /\ InProgress' = 0
<1> USE DEF svars
<1>1. /\ cPc' \in {"looping", "closing"} /\ i' \in 0 .. N_RUNS - 1
      /\ kind' \in DOMAIN Kinds /\ kind' >= kind /\ recv_buf' \in hce_card
      /\ recv_buf' = Zeros \/ (recv_buf' = Received /\ kind' = kind)
  BY CardReceived, LoopGoesOn DEF UhceInv
<1>2. Typed'
  BY <1>1 DEF UhceInv, Typed, TypeOK, Written
<1>3. LinkInv'
  <2>1. ServerInv'
    BY DEF UhceInv, LinkInv, ServerInv, Idle, WellFormed, Valid
  <2>2. OnlyPurchases'
    <3>1. kind \in Nat /\ kind >= 1 /\ (kind' = 1 => kind = 1)
      BY <1>1, FourKinds DEF UhceInv, Typed, TypeOK
    <3> QED
      BY <3>1 DEF UhceInv, LinkInv, OnlyPurchases
  <2>3. RefusalsEmpty'
    BY DEF UhceInv, LinkInv, RefusalsEmpty, RefusalEmpty
  <2>4. LeftoverStored'
    <3>1. EndKind => recv_buf' = Zeros
      BY DEF EndKind
    <3> QED
      BY <1>1, <3>1 DEF LeftoverStored
  <2> QED
    BY <2>1, <2>2, <2>3, <2>4 DEF LinkInv
<1>4. Pending' < Pending
  BY DEF Pending, One
<1>5. InProgress = 1 /\ InProgress' = 0
  BY <1>1 DEF InProgress
<1> QED
  BY <1>2, <1>3, <1>4, <1>5

LEMMA RefusedStep ==
  ASSUME UhceInv, Refused
  PROVE  UhceInv'
<1>1. /\ cPc = "waiting" /\ resp # NULL /\ resp.code = 0 /\ resp' = NULL /\ EndKind
      /\ UNCHANGED <<req, svars, store, file, history>>
  BY DEF Refused, Answered
<1>2. resp.card = NULL
  BY <1>1 DEF UhceInv, LinkInv, RefusalsEmpty, RefusalEmpty
<1>3. /\ store' \in [Ids -> Fields] /\ mistaken' \subseteq Ids /\ failures' \in Nat
      /\ failures' = failures
  BY <1>1 DEF UhceInv, Typed, TypeOK, history
<1>4. /\ Typed' /\ LinkInv' /\ Pending' < Pending
      /\ InProgress = 1 /\ InProgress' = 0
  BY <1>1, <1>3, ResponseTaken DEF history
<1>5. \A id \in Ids : id \in Lost' => id \in Lost
  BY <1>1, <1>2 DEF Lost, Due, Brings, svars, history
<1>6. CountInv'
  BY <1>3, <1>4, <1>5, NoneLost DEF UhceInv, Paid
<1> QED
  BY <1>4, <1>6 DEF UhceInv

LEMMA ValidatedStep ==
  ASSUME UhceInv, Validated
  PROVE  UhceInv'
<1>1. /\ cPc = "waiting" /\ resp # NULL /\ Op = "VALIDATE" /\ resp' = NULL
      /\ NextCard(Received)
      /\ mistaken' = mistaken \cup (IF resp.card = NULL THEN {} ELSE {resp.card.id})
      /\ UNCHANGED <<req, svars, store, file, failures, granted>>
  BY DEF Validated, Answered
<1>2. kind = 2
  BY <1>1, FourKinds DEF Op, UhceInv, Typed, TypeOK
<1>3. /\ store' \in [Ids -> Fields] /\ mistaken' \subseteq Ids /\ failures' \in Nat
  BY <1>1 DEF UhceInv, Typed, TypeOK, Response, hce_card
<1>4. /\ Typed' /\ LinkInv' /\ Pending' < Pending
      /\ InProgress = 1 /\ InProgress' = 0
  BY <1>1, <1>2, <1>3, ResponseTaken
<1>5. \A id \in Ids : id \in Lost' => id \in Lost
  BY <1>1 DEF Lost, Due, Brings, svars
<1>6. CountInv'
  BY <1>1, <1>4, <1>5, NoneLost DEF UhceInv, Paid
<1> QED
  BY <1>4, <1>6 DEF UhceInv

(* A purchased card is stored whole, or a failure is printed. *)
LEMMA StoreCardStep ==
  ASSUME UhceInv, StoreCard
  PROVE  UhceInv'
<1>1. PICK n \in (IF "storage" \in UhceFaults THEN 0 .. 2 ELSE {2}) :
        /\ store' = [store EXCEPT ![Received.id] = WithFields(@, Received, n)]
        /\ InsertReturns(n = 2)
  BY DEF StoreCard
<1>2. /\ cPc = "waiting" /\ resp # NULL /\ Op = "PURCHASE" /\ resp' = NULL
      /\ UNCHANGED <<req, svars, file, granted, mistaken>>
  BY DEF StoreCard, Answered
<1>3. kind = 1
  BY <1>2, FourKinds DEF Op, UhceInv, Typed, TypeOK
<1>4. /\ resp.card # NULL /\ Received = resp.card /\ Received \in hce_card
      /\ Received.id \in Ids
  BY <1>2, <1>3, CardReceived DEF UhceInv, LinkInv, OnlyPurchases, Received
<1>5. /\ NextCard(Received) \/ EndKind
      /\ n = 2 => failures' = failures
      /\ n # 2 => failures' = failures + 1
      /\ failures \in Nat /\ failures' \in Nat
  BY <1>1 DEF InsertReturns, UhceInv, Typed, TypeOK
<1> DEFINE c == Received.id
<1>6. /\ store \in [Ids -> Fields] /\ store' \in [Ids -> Fields]
      /\ \A id \in Ids \ {c} : store'[id] = store[id]
      /\ n = 2 => store'[c] = FieldsOf(Received)
  <2>1. store \in [Ids -> Fields]
    BY DEF UhceInv, Typed, TypeOK
  <2>2. WithFields(store[c], Received, n) \in Fields
    BY <1>4, <2>1 DEF WithFields, Fields, hce_card
  <2>3. n = 2 => WithFields(store[c], Received, n) = FieldsOf(Received)
    BY DEF WithFields, FieldsOf
  <2>4. store' = [store EXCEPT ![c] = WithFields(store[c], Received, n)]
    BY <1>1
  <2> HIDE DEF c
  <2>5. c \in Ids
    BY <1>4 DEF c
  <2> QED
    BY <2>1, <2>2, <2>3, <2>4, <2>5
<1>7. mistaken' \subseteq Ids
  BY <1>2 DEF UhceInv, Typed, TypeOK
<1>8. /\ Typed' /\ LinkInv' /\ Pending' < Pending
      /\ InProgress = 1 /\ InProgress' = 0
  BY <1>2, <1>3, <1>5, <1>6, <1>7, ResponseTaken
<1>9. \A id \in Ids : id \in Lost' => id \in Lost \/ (id = c /\ n # 2)
  <2>1. Brings(resp, c) /\ (\A id \in Ids : Brings(resp, id) => id = c)
    BY <1>2, <1>4 DEF Brings
  <2>2. n = 2 => store'[c] = FieldsOf(resp.card)
    BY <1>4, <1>6
  <2>3. UNCHANGED <<reply, granted, mistaken>> /\ \A id : ~Brings(resp', id)
    BY <1>2 DEF svars, Brings
  <2> HIDE DEF c
  <2> QED
    BY <1>6, <2>1, <2>2, <2>3 DEF Lost, Due
<1>10. CountInv'
  <2>1. CASE n = 2
    BY <1>5, <1>8, <1>9, <2>1, NoneLost DEF UhceInv, Paid
  <2>2. CASE n # 2
    BY <1>4, <1>5, <1>8, <1>9, <2>2, OneLost DEF UhceInv, PaidTwice
  <2> QED
    BY <2>1, <2>2
<1> QED
  BY <1>8, <1>10 DEF UhceInv

(* The value of a used or recharged card is stored, or a failure is        *)
(* printed.  Without a card in the response nothing but card 0 changes.    *)
LEMMA StoreValueStep ==
  ASSUME UhceInv, StoreValue
  PROVE  UhceInv'
<1>1. /\ cPc = "waiting" /\ resp # NULL /\ Op \in {"USE", "RECHARGE"} /\ resp' = NULL
      /\ UNCHANGED <<req, svars, file, granted>>
  BY DEF StoreValue, Answered
<1>2. kind > 2
  BY <1>1, FourKinds DEF Op, UhceInv, Typed, TypeOK
<1>3. /\ Received \in hce_card /\ Received.id \in Ids /\ Received.value \in Value
      /\ store \in [Ids -> Fields] /\ failures \in Nat /\ mistaken \subseteq Ids
      /\ resp.card # NULL => Received = resp.card
      /\ resp.card = NULL => Received = recv_buf
  BY <1>1, CardReceived DEF UhceInv, Typed, TypeOK, Received, hce_card
<1> DEFINE c == Received.id
           stored == [store EXCEPT ![c].value = Received.value]
<1>4. CASE /\ "storage" \in UhceFaults
           /\ InsertReturns(FALSE)
           /\ UNCHANGED <<store, mistaken>>
  <2>1. EndKind /\ failures' = failures + 1 /\ UNCHANGED <<store, mistaken>>
    BY <1>4 DEF InsertReturns
  <2>2. /\ Typed' /\ LinkInv' /\ Pending' < Pending
        /\ InProgress = 1 /\ InProgress' = 0
    BY <1>1, <1>3, <2>1, ResponseTaken
  <2>3. \A id \in Ids : id \in Lost' => id \in Lost \/ Brings(resp, id)
    BY <1>1, <2>1 DEF Lost, Due, Brings, svars
  <2>4. CASE \E id \in Ids : Brings(resp, id)
    <3>1. PICK id \in Ids : Brings(resp, id)
      BY <2>4
    <3>2. \A other \in Ids : other \in Lost' => other \in Lost \/ other = id
      BY <2>3, <3>1 DEF Brings
    <3>3. CountInv'
      BY <2>1, <2>2, <3>2, OneLost DEF UhceInv, PaidTwice
    <3> QED
      BY <2>2, <3>3 DEF UhceInv
  <2>5. CASE ~\E id \in Ids : Brings(resp, id)
    <3>1. Pending' <= Pending
      BY <2>2, Counts
    <3>2. CountInv'
      BY <2>1, <2>2, <2>3, <2>5, <3>1, NoneLost DEF UhceInv, Paid
    <3> QED
      BY <2>2, <3>2 DEF UhceInv
  <2> QED
    BY <2>4, <2>5
<1>5. CASE /\ store' = stored
           /\ mistaken' = mistaken \cup (IF OtherAnswer THEN {c} ELSE {})
           /\ InsertReturns(TRUE)
  <2>1. NextCard(Received) /\ failures' = failures
    BY <1>5 DEF InsertReturns
  <2>2. /\ stored \in [Ids -> Fields] /\ \A id \in Ids \ {c} : stored[id] = store[id]
        /\ stored[c] = [expiration_date |-> store[c].expiration_date, value |-> Received.value]
    <3> HIDE DEF c
    <3>1. c \in Ids /\ store[c] \in Fields
      BY <1>3 DEF c
    <3>2. /\ [store[c] EXCEPT !.value = Received.value] \in Fields
          /\ [store[c] EXCEPT !.value = Received.value]
               = [expiration_date |-> store[c].expiration_date, value |-> Received.value]
      BY <1>3, <3>1 DEF Fields
    <3> QED
      BY <1>3, <3>1, <3>2
  <2>3. mistaken' \subseteq Ids /\ mistaken \subseteq mistaken'
    BY <1>3, <1>5
  <2>4. store'[c].value = Received.value /\ store' \in [Ids -> Fields]
    BY <1>5, <2>2
  <2>5. /\ Typed' /\ LinkInv' /\ Pending' < Pending
        /\ InProgress = 1 /\ InProgress' = 0
    BY <1>1, <1>2, <1>3, <2>1, <2>3, <2>4, ResponseTaken
  <2>6. ~OtherAnswer => stored[c] = FieldsOf(Received)
    BY <2>2 DEF OtherAnswer, FieldsOf
  <2>7. ~OtherAnswer /\ resp.card = NULL => stored[c] = store[c]
    <3>1. kind > 2 /\ recv_buf # Zeros => store[recv_buf.id].value = recv_buf.value
      BY DEF UhceInv, LinkInv, LeftoverStored
    <3>2. store[c] = [expiration_date |-> store[c].expiration_date, value |-> store[c].value]
      BY <1>3 DEF Fields
    <3> QED
      BY <1>2, <1>3, <2>2, <3>1, <3>2 DEF OtherAnswer
  <2>8. \A id \in Ids : id \in Lost' => id \in Lost
    <3>1. ASSUME NEW id \in Ids, id \in Lost' PROVE id \in Lost
      <4>1. /\ UNCHANGED <<reply, granted>> /\ ~Brings(resp', id)
            /\ id \notin mistaken' /\ id \notin mistaken
        BY <1>1, <2>3, <3>1 DEF svars, Brings, Lost
      <4>2. ~OtherAnswer \/ id # c
        BY <1>5, <4>1
      <4>3. Brings(resp, id) => id = c /\ Received = resp.card /\ resp.card # NULL
        BY <1>1, <1>3 DEF Brings
      <4>4. stored[id] = IF Brings(resp, id) THEN FieldsOf(resp.card) ELSE store[id]
        <5>1. CASE id # c
          <6> HIDE DEF c
          <6> QED
            BY <2>2, <4>3, <5>1
        <5>2. CASE id = c /\ resp.card = NULL
          BY <2>7, <4>2, <5>2 DEF Brings
        <5>3. CASE id = c /\ resp.card # NULL
          BY <1>1, <1>3, <2>6, <4>2, <5>3 DEF Brings
        <5> QED
          BY <5>1, <5>2, <5>3
      <4>5. store'[id] = IF Brings(resp, id) THEN FieldsOf(resp.card) ELSE store[id]
        BY <1>5, <4>4
      <4> HIDE DEF c, stored
      <4> QED
        BY <3>1, <4>1, <4>5 DEF Lost, Due
    <3> QED
      BY <3>1
  <2>9. CountInv'
    BY <2>1, <2>5, <2>8, NoneLost DEF UhceInv, Paid
  <2> QED
    BY <2>5, <2>9 DEF UhceInv
<1> QED
  BY <1>4, <1>5 DEF StoreValue

(* The card cannot be read: the evaluation of this kind ends. *)
LEMMA RequestFailsStep ==
  ASSUME UhceInv, RequestFails
  PROVE  UhceInv'
<1> USE DEF svars, link, history
<1>1. /\ cPc = "looping" /\ EndKind
      /\ UNCHANGED <<req, resp, svars, store, file, history>>
  BY DEF RequestFails
<1>2. /\ cPc' \in {"looping", "closing"} /\ i' \in 0 .. N_RUNS - 1
      /\ kind' \in DOMAIN Kinds /\ kind' >= kind /\ recv_buf' = Zeros
      /\ recv_buf' \in hce_card
  <2>1. recv_buf \in hce_card /\ recv_buf' = Zeros
    BY <1>1 DEF EndKind, UhceInv, Typed, TypeOK
  <2> QED
    BY <1>1, <2>1, LoopGoesOn DEF UhceInv
<1>3. Typed'
  BY <1>1, <1>2 DEF UhceInv, Typed, TypeOK, Written
<1>4. LinkInv'
  <2>1. ServerInv'
    BY <1>1 DEF UhceInv, LinkInv, ServerInv, Idle, WellFormed, Valid
  <2>2. OnlyPurchases'
    <3>1. kind \in Nat /\ kind >= 1 /\ (kind' = 1 => kind = 1)
      BY <1>2, FourKinds DEF UhceInv, Typed, TypeOK
    <3> QED
      BY <1>1, <3>1 DEF UhceInv, LinkInv, OnlyPurchases
  <2>3. RefusalsEmpty' /\ LeftoverStored'
    BY <1>1, <1>2 DEF UhceInv, LinkInv, RefusalsEmpty, RefusalEmpty, LeftoverStored
  <2> QED
    BY <2>1, <2>2, <2>3 DEF LinkInv
<1>5. CountInv'
  <2>1. \A id \in Ids : id \in Lost' => id \in Lost
    BY <1>1 DEF Lost, Due, Brings
  <2>2. /\ failures' = failures /\ InProgress' = InProgress /\ Pending' = Pending
    BY <1>1, <1>2 DEF InProgress, Pending
  <2>3. Paid
    BY <2>2, Counts DEF Paid
  <2> QED
    BY <1>3, <2>1, <2>3, NoneLost DEF UhceInv
<1> QED
  BY <1>3, <1>4, <1>5 DEF UhceInv

-----------------------------------------------------------------------------
LEMMA UhceInvInit == Init => UhceInv
<1> SUFFICES ASSUME Init PROVE UhceInv
  OBVIOUS
<1> USE DEF Init, LinkInit, ServerInit
<1>1. /\ file.n_entries = 0 /\ file.whole \in BOOLEAN /\ DOMAIN file.cards = {}
      /\ DOMAIN file = {"n_entries", "cards", "whole"}
  <2>1. CASE file = OldFile
    BY <2>1 DEF OldFile
  <2>2. CASE file = NoFile
    BY <2>2 DEF NoFile, OldFile
  <2> QED
    BY <2>1, <2>2
<1>2. Typed
  <2>1. store \in [Ids -> Fields] /\ granted = store
    BY NoCardTyped
  <2>2. Written = {} /\ 0 \in Nat
    BY <1>1 DEF Written
  <2>3. kind \in DOMAIN Kinds /\ i \in 0 .. N_RUNS - 1 /\ recv_buf \in hce_card
    BY FourKinds, ZerosIsCard DEF N_RUNS
  <2> QED
    BY <1>1, <2>1, <2>2, <2>3 DEF Typed, TypeOK
<1>3. LinkInv
  BY DEF LinkInv, ServerInv, Idle, RefusalsEmpty, RefusalEmpty, OnlyPurchases, LeftoverStored
<1>4. CountInv
  <2>1. Lost = {}
    BY DEF Lost, Due, Brings
  <2>2. Cardinality(Lost) = 0
    BY <2>1, FS_EmptySet
  <2>3. Pending = 0 /\ InProgress = 0 /\ failures = 0
    BY DEF Pending, One, InProgress
  <2> QED
    BY <2>2, <2>3 DEF CountInv
<1> QED
  BY <1>2, <1>3, <1>4 DEF UhceInv

LEMMA UhceInvKept == UhceInv /\ [Next]_vars => UhceInv'
<1> SUFFICES ASSUME UhceInv, [Next]_vars PROVE UhceInv'
  OBVIOUS
<1>1. CASE UNCHANGED vars
  <2> USE <1>1 DEF vars, link, svars, cvars, history
  <2>1. Typed' /\ ServerInv' /\ InProgress' = InProgress
    BY DEF UhceInv, Typed, TypeOK, Written, LinkInv, ServerInv, Idle, WellFormed, Valid,
           InProgress
  <2> QED
    BY <2>1, Counts, Quiet
<1>2. CASE ServerWorks
  <2>1. CASE ServerGrants /\ UNCHANGED cvars
    BY <2>1, GrantSteps
  <2>2. CASE (ServerReceive \/ process_validate \/ Decline \/ ServerSend)
             /\ UNCHANGED history /\ UNCHANGED cvars
    BY <2>2, ServerReceives, ServerDecides, ServerSends
  <2> QED
    BY <1>2, <2>1, <2>2 DEF ServerWorks
<1>3. CASE ServerStops
  BY <1>3, ServerReceives, ServerSends DEF ServerStops
<1>4. CASE Ticks
  BY <1>4, TickStep
<1>5. CASE ClientWorks
  BY <1>5, RequestStep, RequestFailsStep, FailedStep, RefusedStep, ValidatedStep,
     StoreCardStep, StoreValueStep, ProgramSteps DEF ClientWorks
<1>6. CASE Select \/ ClientFails
  BY <1>6, ProgramSteps, FailedStep DEF ClientFails
<1> QED
  BY <1>1, <1>2, <1>3, <1>4, <1>5, <1>6 DEF Next

(* The cards, the link and the failures fit together at all times. *)
THEOREM CountsFit == Spec => []UhceInv
BY UhceInvInit, UhceInvKept, PTL DEF Spec

(* Every variable has its type, whatever was late, lost or refused. *)
THEOREM TypeCorrect == Spec => []TypeOK
<1>1. UhceInv => TypeOK
  BY DEF UhceInv, Typed
<1> QED
  BY <1>1, CountsFit, PTL

(* A card that differs is lost, or stands for a request under way, which   *)
(* is counted already.                                                     *)
LEMMA Counted == UhceInv => DifferencesCounted
<1> SUFFICES ASSUME UhceInv PROVE DifferencesCounted
  OBVIOUS
<1>1. \A id \in Ids : id \in Differing => id \in Lost \/ Brings(reply, id) \/ Brings(resp, id)
  BY DEF Differing, Lost, Due
<1>2. Differing \in SUBSET Ids /\ Lost \in SUBSET Ids /\ Cardinality(Lost) \in Nat
  BY Counts, FewerCards DEF Differing
<1>3. Cardinality(Differing) <= Cardinality(Lost) + Pending
  <2> DEFINE R == {id \in Ids : Brings(reply, id)}
             M == {id \in Ids : Brings(resp, id)}
  <2>1. /\ Cardinality(R) \in Nat /\ Cardinality(R) <= One(work)
    <3>1. CASE R = {}
      <4>1. Cardinality(R) = 0
        BY <3>1, FS_EmptySet
      <4> QED
        BY <4>1 DEF One
    <3>2. CASE R # {}
      <4>1. PICK id \in Ids : Brings(reply, id)
        BY <3>2
      <4>2. R = {id}
        BY <4>1 DEF Brings
      <4>3. work # NULL
        BY <4>1 DEF Brings, UhceInv, LinkInv, ServerInv, Idle, WellFormed
      <4> QED
        BY <4>2, <4>3, FS_Singleton DEF One
    <3> QED
      BY <3>1, <3>2
  <2>2. /\ Cardinality(M) \in Nat /\ Cardinality(M) <= One(resp)
    <3>1. CASE M = {}
      <4>1. Cardinality(M) = 0
        BY <3>1, FS_EmptySet
      <4> QED
        BY <4>1 DEF One
    <3>2. CASE M # {}
      <4>1. PICK id \in Ids : Brings(resp, id)
        BY <3>2
      <4>2. M = {id} /\ resp # NULL
        BY <4>1 DEF Brings
      <4> QED
        BY <4>2, FS_Singleton DEF One
    <3> QED
      BY <3>1, <3>2
  <2>3. /\ IsFiniteSet(Lost) /\ IsFiniteSet(R) /\ IsFiniteSet(M)
    <3>1. IsFiniteSet(Ids)
      BY FS_Interval DEF Ids
    <3> QED
      BY <1>2, <3>1, FS_Subset
  <2>4. Differing \in SUBSET (Lost \cup R \cup M)
    BY <1>1, <1>2
  <2> HIDE DEF R, M
  <2>5. /\ IsFiniteSet(Lost \cup R)
        /\ Cardinality(Lost \cup R) <= Cardinality(Lost) + Cardinality(R)
    BY <2>3, UnionBound
  <2>6. /\ IsFiniteSet(Lost \cup R \cup M)
        /\ Cardinality(Lost \cup R \cup M) <= Cardinality(Lost \cup R) + Cardinality(M)
    BY <2>3, <2>5, UnionBound
  <2>7. /\ Cardinality(Differing) <= Cardinality(Lost \cup R \cup M)
        /\ Cardinality(Differing) \in Nat /\ Cardinality(Lost \cup R) \in Nat
        /\ Cardinality(Lost \cup R \cup M) \in Nat
    BY <2>4, <2>5, <2>6, FS_Subset, FS_CardinalityType
  <2> QED
    BY <1>2, <2>1, <2>2, <2>5, <2>6, <2>7 DEF Pending, One
<1>4. Cardinality(Lost) + Pending <= failures + InProgress
  BY DEF UhceInv, CountInv
<1>5. Cardinality(Differing) \in Nat /\ failures \in Nat /\ Pending \in Nat /\ InProgress \in Nat
  BY <1>2, Counts, FewerCards DEF UhceInv, Typed, TypeOK
<1> QED
  BY <1>2, <1>3, <1>4, <1>5 DEF DifferencesCounted

(* However responses are lost or late, no more cards differ from what the  *)
(* terminal last made of them than failures were printed, but for the      *)
(* request in progress.                                                    *)
THEOREM FailuresExplain == Spec => []DifferencesCounted
BY Counted, CountsFit, PTL

=============================================================================
