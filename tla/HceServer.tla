----------------------------- MODULE HceServer ------------------------------
(***************************************************************************)
(* The payment terminal, trusted_hce/host/server/hce_server.c.  It keeps   *)
(* no cards: a request brings the card, the response carries the updated   *)
(* one back.  A use or recharge reads the clock twice, once for the        *)
(* response code and once to decide whether to perform the operation.      *)
(***************************************************************************)
EXTENDS HceCards

CONSTANTS
  MONTH_SECONDS,  \* how long a card is valid
  MaxTime         \* bound on the clock

ASSUME TimeAssumption == MONTH_SECONDS \in Nat /\ MaxTime \in Nat

PRICE == 1

VARIABLES
  sPc,          \* starting, receiving, processing, checked, sending, exited
  new_card_id,  \* static counter of process_purchase
  server,       \* number of this run of the program
  work,         \* the request being processed
  reply,        \* send_buf: the response being built
  now           \* the terminal's clock

svars == <<sPc, new_card_id, server, work, reply, now>>

ServerInit ==
  /\ sPc = "starting" /\ new_card_id = 0 /\ server = 1
  /\ work = NULL /\ reply = NULL /\ now = 0

(* validate, at the moment it is called. *)
Valid(card) == card.expiration_date >= now /\ card.value > 0

Updated(card, v) == [card EXCEPT !.value = v]

\* Wrong variants: a use takes nothing, a recharge does not wrap.
UsedFree(card) == card
RechargedWide(card, amount) == Updated(card, card.value + amount)

Used(card) == Updated(card, (card.value - PRICE) % ValueRange)
Recharged(card, amount) == Updated(card, (card.value + amount) % ValueRange)

(* snfc_target_start accepted a client: wait for its request. *)
ServerStarted ==
  /\ sPc = "starting"
  /\ sPc' = "receiving"
  /\ UNCHANGED <<new_card_id, server, work, reply, now, link>>

(* The handshake failed: main goes to ERROR and returns. *)
ServerStartFails ==
  /\ sPc = "starting"
  /\ sPc' = "exited"
  /\ UNCHANGED <<new_card_id, server, work, reply, now, link>>

ServerReceive ==
  /\ sPc = "receiving" /\ req # NULL
  /\ work' = req /\ req' = NULL
  /\ sPc' = "processing"
  /\ UNCHANGED <<new_card_id, server, reply, now, resp>>

(* The receive fails, because the packet was bad or the client has gone:   *)
(* main goes to ERROR and returns.                                         *)
ServerReceiveFails ==
  /\ sPc = "receiving"
  /\ req' = NULL
  /\ sPc' = "exited"
  /\ UNCHANGED <<new_card_id, server, work, reply, now, resp>>

\* Wrong variant: the counter is not advanced.
NextCardIdSame == new_card_id

NextCardId == new_card_id + 1

process_purchase ==
  /\ sPc = "processing" /\ work.op = "PURCHASE"
  /\ new_card_id < MaxCards
  /\ reply' = [code |-> 1, issuer |-> server,
               card |-> [id |-> new_card_id, expiration_date |-> now + MONTH_SECONDS,
                         value |-> work.value]]
  /\ new_card_id' = NextCardId
  /\ sPc' = "sending"
  /\ UNCHANGED <<server, work, now, link>>

(* process_validate: the response code alone.  It is the whole answer to   *)
(* VALIDATE and the first half of the answer to USE and RECHARGE.          *)
process_validate ==
  /\ sPc = "processing" /\ work.op # "PURCHASE"
  /\ reply' = [code |-> IF Valid(work.card) THEN 1 ELSE 0,
               card |-> NULL, issuer |-> work.issuer]
  /\ sPc' = IF work.op = "VALIDATE" THEN "sending" ELSE "checked"
  /\ UNCHANGED <<new_card_id, server, work, now, link>>

(* The second half of process_use and process_recharge.                    *)
Perform ==
  /\ sPc = "checked"
  /\ Valid(work.card)
  /\ reply' = [reply EXCEPT !.card =
                 IF work.op = "USE" THEN Used(work.card)
                                    ELSE Recharged(work.card, work.value)]
  /\ sPc' = "sending"
  /\ UNCHANGED <<new_card_id, server, work, now, link>>

Decline ==
  /\ sPc = "checked"
  /\ ~Valid(work.card)
  /\ sPc' = "sending"
  /\ UNCHANGED <<new_card_id, server, work, reply, now, link>>

ServerSend ==
  /\ sPc = "sending"
  /\ resp' = reply
  /\ work' = NULL /\ reply' = NULL
  /\ sPc' = "receiving"
  /\ UNCHANGED <<new_card_id, server, now, req>>

(* The client did not take the response: main goes to ERROR and returns. *)
ServerSendFails ==
  /\ sPc = "sending"
  /\ work' = NULL /\ reply' = NULL
  /\ sPc' = "exited"
  /\ UNCHANGED <<new_card_id, server, now, link>>

(* Somebody starts the program again. *)
ServerRestart ==
  /\ sPc = "exited" /\ server < MaxServers
  /\ server' = server + 1
  /\ new_card_id' = 0
  /\ sPc' = "starting"
  /\ UNCHANGED <<work, reply, now, link>>

Tick ==
  /\ now < MaxTime
  /\ now' = now + 1
  /\ UNCHANGED <<sPc, new_card_id, server, work, reply, link>>

=============================================================================
