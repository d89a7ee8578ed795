------------------------------ MODULE HceCards ------------------------------
(***************************************************************************)
(* What the payment client and server of trusted_hce exchange: the         *)
(* messages of trusted_hce/common/hce.h and the link that carries one      *)
(* request and one response.  The link keeps the promise of Exchange, that *)
(* a response belongs to the request being made; either may be lost.       *)
(***************************************************************************)
EXTENDS Integers

CONSTANTS
  ValueRange,   \* a card's value is a uint32_t (2^32)
  Amounts,      \* values given to a purchase or recharge
  MaxCards,     \* bound on the cards one server process issues
  MaxServers,   \* bound on the runs of the server program
  NULL          \* no message, or a field that was never stored

ASSUME ValueRangeAssumption == ValueRange \in Nat \ {0, 1}
ASSUME AmountsAssumption == Amounts \subseteq 0 .. ValueRange - 1
ASSUME CardBoundsAssumption == MaxCards \in Nat \ {0} /\ MaxServers \in Nat \ {0}

Ops == {"VALIDATE", "PURCHASE", "USE", "RECHARGE"}
Ids == 0 .. MaxCards - 1
Value == 0 .. ValueRange - 1

hce_card == [id : Ids, expiration_date : Nat, value : Value]

(* Which server run issued a card: card numbers start again with each run, *)
(* so a number alone does not tell cards apart.  No message carries it.    *)
Issuer == 0 .. MaxServers
NO_ISSUER == 0

(* A request: the operation, the card it sends along, the amount.          *)
Request == [op : Ops, card : hce_card \cup {NULL}, value : Value, issuer : Issuer]

(* A response: the response code, and the card when one follows it.        *)
Response == [code : {0, 1}, card : hce_card \cup {NULL}, issuer : Issuer]

ASSUME NullMessageAssumption == NULL \notin hce_card \cup Request \cup Response \cup Nat

VARIABLES
  req,    \* the request on its way
  resp    \* the response on its way

link == <<req, resp>>

LinkInit == req = NULL /\ resp = NULL

=============================================================================
