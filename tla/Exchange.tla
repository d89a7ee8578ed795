------------------------------ MODULE Exchange ------------------------------
(***************************************************************************)
(* What snfc.h offers its applications: the initiator asks numbered        *)
(* questions one at a time, the target hears each at most once and in      *)
(* order, and the only answer the initiator ever accepts is the answer to  *)
(* the question it is asking.  Any question may go unheard or unanswered.  *)
(***************************************************************************)
EXTENDS Naturals

VARIABLES
  asked,    \* number of the question being asked
  heard,    \* last question delivered to the target's application
  got       \* last question whose answer the initiator's application has

evars == <<asked, heard, got>>

ExchangeInit == asked = 0 /\ heard = 0 /\ got = 0

Ask == asked' = asked + 1 /\ UNCHANGED <<heard, got>>

Hear ==
  /\ \E n \in 1 .. asked : n > heard /\ heard' = n
  /\ UNCHANGED <<asked, got>>

Get == heard = asked /\ got < asked /\ got' = asked /\ UNCHANGED <<asked, heard>>

ExchangeNext == Ask \/ Hear \/ Get

ExchangeSpec == ExchangeInit /\ [][ExchangeNext]_evars

=============================================================================
