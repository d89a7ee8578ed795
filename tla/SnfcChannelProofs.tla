------------------------- MODULE SnfcChannelProofs --------------------------
(***************************************************************************)
(* Theorems about an established secure-NFC session with an authenticated  *)
(* cipher, for every range of the two header bytes, number of requests and *)
(* choice of faults; then that they hold as well of a session whose target *)
(* may still wait for the initiator's proof.                               *)
(***************************************************************************)
EXTENDS SnfcSession, TLAPS

USE RangeAssumption, BoundAssumption, NullPacketAssumption

(* Creating a packet: what goes into it and what it leaves behind. *)
LEMMA CreatedPacket ==
  ASSUME NEW ctx \in Context, NEW n \in Nat
  PROVE  /\ NewPacket(ctx, n) \in Packet
         /\ NewPacket(ctx, n) # NULL
         /\ NewPacket(ctx, n).payload = n
         /\ NewPacket(ctx, n).intact
         /\ NewPacket(ctx, n).iv = ctx.iv
         /\ NewPacket(ctx, n).seq_n = ctx.seq_n % SeqRange
         /\ NewPacket(ctx, n).seq_n <= ctx.seq_n
         /\ AfterCreate(ctx) \in Context
         /\ AfterCreate(ctx).seq_n = ctx.seq_n + 1
         /\ AfterCreate(ctx).iv = ctx.iv + 1
<1>1. /\ ctx.seq_n % SeqRange \in 0 .. SeqRange - 1
      /\ ctx.iv % CheckRange \in 0 .. CheckRange - 1
  BY DEF Context
<1>2. ctx.seq_n % SeqRange <= ctx.seq_n
  BY DEF Context
<1>3. NewPacket(ctx, n) \in Packet
  BY <1>1 DEF Context, Packet, NewPacket
<1>4. NewPacket(ctx, n) # NULL
  BY <1>3
<1>5. /\ NewPacket(ctx, n).payload = n
      /\ NewPacket(ctx, n).iv = ctx.iv
      /\ NewPacket(ctx, n).seq_n = ctx.seq_n % SeqRange
  BY DEF NewPacket
<1>6. NewPacket(ctx, n).intact
  BY Zenon DEF NewPacket
<1>7. /\ AfterCreate(ctx) \in Context
      /\ AfterCreate(ctx).seq_n = ctx.seq_n + 1
      /\ AfterCreate(ctx).iv = ctx.iv + 1
  BY DEF Context, AfterCreate
<1> QED
  BY <1>2, <1>3, <1>4, <1>5, <1>6, <1>7

(* create_next_iv: without a failed allocation the IV moves on by one. *)
LEMMA NextIvMoves ==
  ASSUME NEW iv \in Nat, NEW next \in NextIv(iv)
  PROVE  next.iv \in Nat /\ (~next.short => next.iv = iv + 1)
<1>1. CASE next = [iv |-> iv + 1, ok |-> TRUE, short |-> FALSE]
  BY <1>1
<1>2. CASE \E ok \in BOOLEAN : next = [iv |-> iv, ok |-> ok, short |-> TRUE]
  <2>1. PICK ok \in BOOLEAN : next = [iv |-> iv, ok |-> ok, short |-> TRUE]
    BY <1>2
  <2>2. next.short
    BY <2>1, Zenon
  <2> QED
    BY <2>1, <2>2
<1> QED
  BY <1>1, <1>2 DEF NextIv

(* What create_snfc_packet may make; without a failed allocation it is the *)
(* packet of CreatedPacket.                                                *)
LEMMA CreatedInAnyCase ==
  ASSUME NEW ctx \in Context, NEW n \in Nat, NEW out \in CreateOutcomes(ctx, n)
  PROVE  /\ out.ctx \in Context
         /\ out.packet \in Packet /\ out.packet # NULL
         /\ out.packet.payload = n
         /\ out.packet.iv = ctx.iv
         /\ out.packet.intact => out.packet.iv_check_value = ctx.iv % CheckRange
         /\ ~out.short => out.ctx = AfterCreate(ctx) /\ out.packet = NewPacket(ctx, n)
<1>1. ctx.seq_n \in Nat /\ ctx.iv \in Nat
  BY DEF Context
<1>2. NewPacket(ctx, n).iv_check_value = ctx.iv % CheckRange
  BY DEF NewPacket
<1>3. CASE out = [ctx |-> AfterCreate(ctx), packet |-> NewPacket(ctx, n), short |-> FALSE]
  <2>1. out.ctx = AfterCreate(ctx) /\ out.packet = NewPacket(ctx, n)
    BY <1>3
  <2> QED
    BY <2>1, <1>2, CreatedPacket
<1>4. CASE out = [ctx |-> ctx, packet |-> UnsignedPacket(ctx, n), short |-> TRUE]
  <2>1. out.ctx = ctx /\ out.packet = UnsignedPacket(ctx, n)
    BY <1>4
  <2>2. out.short
    BY <1>4, Zenon
  <2>4. ~UnsignedPacket(ctx, n).intact
    BY Zenon DEF UnsignedPacket
  <2>5. UnsignedPacket(ctx, n) \in Packet
    BY <1>1 DEF Packet, UnsignedPacket
  <2>6. UnsignedPacket(ctx, n).payload = n /\ UnsignedPacket(ctx, n).iv = ctx.iv
    BY DEF UnsignedPacket
  <2> QED
    BY <2>1, <2>2, <2>4, <2>5, <2>6
<1>5. CASE \E next \in NextIv(ctx.iv) :
             out = [ctx |-> [seq_n |-> ctx.seq_n + 1, iv |-> next.iv],
                    packet |-> NewPacket(ctx, n), short |-> TRUE]
  <2>1. PICK next \in NextIv(ctx.iv) :
          out = [ctx |-> [seq_n |-> ctx.seq_n + 1, iv |-> next.iv],
                 packet |-> NewPacket(ctx, n), short |-> TRUE]
    BY <1>5
  <2>2. next.iv \in Nat
    BY <1>1, NextIvMoves
  <2>3. out.ctx = [seq_n |-> ctx.seq_n + 1, iv |-> next.iv] /\ out.packet = NewPacket(ctx, n)
    BY <2>1
  <2>4. out.short
    BY <2>1, Zenon
  <2>5. out.ctx \in Context
    BY <2>2, <2>3, <1>1 DEF Context
  <2> QED
    BY <2>3, <2>4, <2>5, <1>2, CreatedPacket
<1> QED
  BY <1>3, <1>4, <1>5 DEF CreateOutcomes

LEMMA FailedCreate ==
  ASSUME NEW ctx \in Context, NEW next \in AfterFailedCreate(ctx)
  PROVE  next \in Context
<1>1. ctx.seq_n \in Nat /\ ctx.iv \in Nat
  BY DEF Context
<1>2. CASE next = ctx
  BY <1>1, <1>2
<1>3. CASE next = [seq_n |-> ctx.seq_n + 1, iv |-> ctx.iv]
  BY <1>1, <1>3 DEF Context
<1>4. CASE next = AfterCreate(ctx)
  BY <1>4, <1>1 DEF AfterCreate, Context
<1> QED
  BY <1>2, <1>3, <1>4 DEF AfterFailedCreate

(* Adding one before or after taking the byte gives the same byte. *)
LEMMA NextByte ==
  ASSUME NEW n \in Nat
  PROVE  ((n % SeqRange) + 1) % SeqRange = (n + 1) % SeqRange
<1> DEFINE q == n \div SeqRange
           r == n % SeqRange
<1>1. /\ n = SeqRange * q + r
      /\ r \in 0 .. SeqRange - 1 /\ q \in Nat
  OBVIOUS
<1>2. \A a \in Nat, b \in 0 .. SeqRange - 1 : (SeqRange * a + b) % SeqRange = b
  OBVIOUS
<1> HIDE DEF q, r
<1>3. CASE r + 1 < SeqRange
  <2>1. n + 1 = SeqRange * q + (r + 1)
    BY <1>1
  <2>2. (n + 1) % SeqRange = r + 1
    BY <2>1, <1>1, <1>2, <1>3
  <2>3. (r + 1) % SeqRange = r + 1
    BY <1>1, <1>3
  <2> QED
    BY <2>2, <2>3 DEF r
<1>4. CASE r + 1 = SeqRange
  <2>1. n + 1 = SeqRange * (q + 1) + 0
    BY <1>1, <1>4
  <2>2. (n + 1) % SeqRange = 0
    BY <2>1, <1>1, <1>2
  <2>3. (r + 1) % SeqRange = 0
    BY <1>4
  <2> QED
    BY <2>2, <2>3 DEF r
<1> QED
  BY <1>1, <1>3, <1>4

(* A packet is only accepted with the expected number, its check value and *)
(* its IV intact, and then the receiver's context follows it.              *)
LEMMA ProcessedPacket ==
  ASSUME NEW ctx \in Context, NEW p \in Packet, NEW out \in ProcessOutcomes(ctx, p)
  PROVE  /\ out.ctx \in Context
         /\ out.ctx.seq_n >= ctx.seq_n
         /\ out.ok =>
              /\ p.seq_n = ctx.seq_n /\ p.intact
              /\ out.ctx.seq_n = ctx.seq_n + 1
              /\ out.payload \in {p.payload, GARBAGE}
              /\ Authenticated => out.payload = p.payload
              /\ Authenticated /\ ~out.short => out.ctx.iv = p.iv + 1
<1> DEFINE next == [ctx EXCEPT !.seq_n = @ + 1]
<1>1. /\ ctx.seq_n \in Nat /\ ctx.iv \in Nat
      /\ next = [seq_n |-> ctx.seq_n + 1, iv |-> ctx.iv]
  BY DEF Context
<1> HIDE DEF next
<1>2. ASSUME NEW c \in Context, NEW starved, out = Refused(c, starved), c.seq_n >= ctx.seq_n
      PROVE  out.ctx \in Context /\ ~out.ok /\ out.ctx.seq_n >= ctx.seq_n
  <2>1. out.ctx = c
    BY <1>2 DEF Refused
  <2>2. ~out.ok
    BY <1>2, Zenon DEF Refused
  <2> QED
    BY <2>1, <2>2, <1>2
<1>3. CASE p.seq_n # ctx.seq_n
  <2>1. out = Refused(ctx, FALSE)
    BY <1>3 DEF ProcessOutcomes
  <2>2. ctx.seq_n >= ctx.seq_n
    BY <1>1
  <2> QED
    BY <2>1, <2>2, <1>2
<1>4. CASE p.seq_n = ctx.seq_n /\ ~p.intact
  <2>1. out = Refused(next, FALSE)
    BY <1>4 DEF ProcessOutcomes, next
  <2>2. next \in Context /\ next.seq_n >= ctx.seq_n
    BY <1>1 DEF Context
  <2> QED
    BY <2>1, <2>2, <1>2
<1>5. CASE p.seq_n = ctx.seq_n /\ p.intact
  <2>1. PICK s \in SyncOutcomes(ctx.iv, p.iv_check_value) :
          out \in IF s.ok THEN DecryptOutcomes([next EXCEPT !.iv = s.iv], p, s.short)
                          ELSE {Refused([next EXCEPT !.iv = s.iv], TRUE)}
    BY <1>5 DEF ProcessOutcomes, next
  <2>2. s.iv \in Nat
    BY <2>1, <1>1 DEF SyncOutcomes, SyncSteps, SyncMatches, SyncStepsCutShort
  <2> DEFINE synced == [seq_n |-> ctx.seq_n + 1, iv |-> s.iv]
  <2>3. [next EXCEPT !.iv = s.iv] = synced
    BY <1>1
  <2>4. synced \in Context /\ synced.seq_n = ctx.seq_n + 1 /\ synced.iv = s.iv
    BY <1>1, <2>2 DEF Context
  <2> HIDE DEF synced
  <2>5. CASE \E starved : out = Refused(synced, starved)
    <3>1. synced.seq_n >= ctx.seq_n
      BY <1>1, <2>4
    <3> QED
      BY <2>4, <2>5, <3>1, <1>2
  <2>6. CASE ~ \E starved : out = Refused(synced, starved)
    <3>1. out \in DecryptOutcomes(synced, p, s.short)
      BY <2>1, <2>3, <2>6
    <3>2. ~(synced.iv # p.iv /\ Authenticated)
      BY <3>1, <2>6 DEF DecryptOutcomes
    <3>3. PICK after \in NextIv(synced.iv) :
            out = Accepted([synced EXCEPT !.iv = after.iv], Plaintext(synced, p),
                           s.short \/ after.short)
      BY <3>1, <3>2, <2>6 DEF DecryptOutcomes
    <3>4. [synced EXCEPT !.iv = after.iv] = [seq_n |-> ctx.seq_n + 1, iv |-> after.iv]
      BY DEF synced
    <3>5. /\ out.ctx = [seq_n |-> ctx.seq_n + 1, iv |-> after.iv]
          /\ out.payload = IF synced.iv = p.iv THEN p.payload ELSE GARBAGE
      BY <3>3, <3>4 DEF Accepted, Plaintext
    <3>6. ~out.short => ~after.short
      BY <3>3, Zenon DEF Accepted
    <3>7. after.iv \in Nat /\ (~after.short => after.iv = synced.iv + 1)
      BY <2>2, <2>4, NextIvMoves
    <3>8. /\ out.ctx \in Context
          /\ out.ctx.seq_n = ctx.seq_n + 1
          /\ out.ctx.iv = after.iv
      BY <3>5, <3>7, <1>1 DEF Context
    <3>9. out.payload \in {p.payload, GARBAGE} /\ (Authenticated => out.payload = p.payload)
      BY <3>2, <3>5
    <3>10. Authenticated /\ ~out.short => out.ctx.iv = p.iv + 1
      BY <3>2, <3>6, <3>7, <3>8
    <3> QED
      BY <3>8, <3>9, <3>10, <1>1, <1>5
  <2> QED
    BY <2>5, <2>6
<1> QED
  BY <1>3, <1>4, <1>5

-----------------------------------------------------------------------------
(* Types.                                                                  *)

LEMMA GarbledPacket ==
  ASSUME NEW p \in Packet, NEW g \in Garbled(p)
  PROVE  /\ g \in Packet /\ g # NULL
         /\ g.payload = p.payload /\ g.iv = p.iv
         /\ ~g.intact
<1>1. PICK s \in 0 .. SeqRange - 1 : g = [p EXCEPT !.seq_n = s, !.intact = FALSE]
  BY DEF Garbled
<1>2. g \in Packet /\ g.payload = p.payload /\ g.iv = p.iv
  BY <1>1 DEF Packet
<1>3. ~g.intact
  BY <1>1, Zenon DEF Packet
<1> QED
  BY <1>2, <1>3

LEMMA TypeStep ==
  ASSUME TypeOK, CarriesAsked, [Next]_vars
  PROVE  TypeOK' /\ CarriesAsked'
<1>a. short' \in BOOLEAN
  <2>1. ASSUME NEW b, short' = (short \/ b)
        PROVE  short' \in BOOLEAN
    BY <2>1, Zenon
  <2>2. CASE short' = TRUE \/ short' = short
    BY <2>2 DEF TypeOK
  <2>3. CASE \E b : short' = (short \/ b)
    BY <2>1, <2>3
  <2> QED
    BY <2>2, <2>3 DEF Next, Initiator, Target, InitiatorSend, InitiatorSendFails, InitiatorReceive,
       InitiatorTimeout, TargetReceive, TargetTimeout, TargetSend, TargetSendFails,
       TargetSendUnheard, Lose, Garble, vars
<1> USE DEF TypeOK, CarriesAsked
<1>1. CASE InitiatorSend
  <2>1. PICK out \in CreateOutcomes(ini, asked + 1) :
          toTar' = out.packet /\ ini' = out.ctx /\ short' = (short \/ out.short)
    BY <1>1 DEF InitiatorSend
  <2>2. /\ toTar' \in Packet /\ toTar'.payload = asked + 1 /\ ini' \in Context
        /\ ini.iv \in Nat
    BY <2>1, CreatedInAnyCase DEF Context
  <2>3. /\ asked' = asked + 1 /\ asked' \in 0 .. MaxRequests
        /\ heard' \in 0 .. asked' /\ got' \in 0 .. asked'
    BY <1>1 DEF InitiatorSend
  <2>4. used' \subseteq Nat
    BY <1>1, <2>2 DEF InitiatorSend
  <2>5. toIni' = toIni /\ (toIni # NULL => toIni.payload \in Nat)
    BY <1>1 DEF InitiatorSend, Packet
  <2> QED
    BY <1>1, <1>a, <2>2, <2>3, <2>4, <2>5 DEF InitiatorSend
<1>2. CASE InitiatorSendFails
  <2>1. ini' \in Context
    BY <1>2, FailedCreate DEF InitiatorSendFails
  <2> QED
    BY <1>2, <2>1 DEF InitiatorSendFails, InitiatorGivesUp, Packet
<1>3. CASE InitiatorReceive
  <2>1. PICK out \in ProcessOutcomes(ini, toIni) :
          /\ ini' = out.ctx
          /\ IF out.ok THEN got' = out.payload /\ iPc' = "idle"
                       ELSE InitiatorGivesUp /\ UNCHANGED got
    BY <1>3 DEF InitiatorReceive
  <2>2. toIni \in Packet /\ toIni.payload \in 0 .. asked
    BY <1>3 DEF InitiatorReceive, Packet
  <2>3. ini' \in Context /\ got' \in 0 .. asked /\ iPc' \in {"idle", "stopped"}
    BY <2>1, <2>2, ProcessedPacket DEF GARBAGE, InitiatorGivesUp
  <2> QED
    BY <1>3, <1>a, <2>3 DEF InitiatorReceive
<1>4. CASE InitiatorTimeout
  BY <1>4 DEF InitiatorTimeout, InitiatorGivesUp
<1>5. CASE TargetReceive
  <2>1. PICK out \in ProcessOutcomes(tar, toTar) :
          /\ tar' = out.ctx
          /\ IF out.ok THEN heard' = out.payload /\ tPc' = "replying"
                       ELSE TargetGivesUp /\ UNCHANGED heard
    BY <1>5 DEF TargetReceive
  <2>2. toTar \in Packet /\ toTar.payload \in 0 .. asked
    BY <1>5 DEF TargetReceive, Packet
  <2>3. tar' \in Context /\ heard' \in 0 .. asked /\ tPc' \in {"receiving", "replying", "stopped"}
    BY <2>1, <2>2, ProcessedPacket DEF GARBAGE, TargetGivesUp
  <2> QED
    BY <1>5, <1>a, <2>3 DEF TargetReceive
<1>6. CASE TargetSend
  <2>1. PICK out \in CreateOutcomes(tar, heard) :
          toIni' = out.packet /\ tar' = out.ctx /\ short' = (short \/ out.short)
    BY <1>6 DEF TargetSend
  <2>2. /\ toIni' \in Packet /\ toIni'.payload = heard /\ tar' \in Context
        /\ tar.iv \in Nat
    BY <2>1, CreatedInAnyCase DEF Context
  <2>3. used' \subseteq Nat
    BY <1>6, <2>2 DEF TargetSend
  <2> QED
    BY <1>6, <1>a, <2>2, <2>3 DEF TargetSend
<1>7. CASE TargetSendFails
  <2>1. tar' \in Context
    BY <1>7, FailedCreate DEF TargetSendFails
  <2> QED
    BY <1>7, <2>1 DEF TargetSendFails, TargetGivesUp
<1>8. CASE TargetSendUnheard
  <2>1. PICK out \in CreateOutcomes(tar, heard) : tar' = out.ctx
    BY <1>8 DEF TargetSendUnheard
  <2>2. tar' \in Context /\ tar.iv \in Nat
    BY <2>1, CreatedInAnyCase DEF Context
  <2> QED
    BY <1>8, <1>a, <2>2 DEF TargetSendUnheard, TargetGivesUp
<1>9. CASE Lose
  BY <1>9 DEF Lose
<1>10. CASE Garble
  <2>1. /\ toTar' # toTar => toTar' \in Packet /\ toTar'.payload = toTar.payload /\ toTar # NULL
        /\ toIni' # toIni => toIni' \in Packet /\ toIni'.payload = toIni.payload /\ toIni # NULL
    BY <1>10, GarbledPacket DEF Garble
  <2> QED
    BY <1>10, <2>1 DEF Garble
<1>11. CASE UNCHANGED vars
  BY <1>11 DEF vars
<1>12. CASE TargetTimeout
  BY <1>12 DEF TargetTimeout, TargetGivesUp
<1> QED
  BY <1>1, <1>2, <1>3, <1>4, <1>5, <1>6, <1>7, <1>8, <1>9, <1>10, <1>11, <1>12
  DEF Next, Initiator, Target

LEMMA InitialTypes == Init => TypeOK
<1>1. Init => short \in BOOLEAN
  BY Zenon DEF Init
<1> QED
  BY <1>1 DEF Init, TypeOK, Context

(* The two TAs' counters, the packets and the applications' numbers keep   *)
(* their types, with any cipher and whatever goes wrong.                   *)
THEOREM TypeCorrect == Spec => []TypeOK
<1>1. Init => TypeOK /\ CarriesAsked
  BY InitialTypes DEF Init, CarriesAsked
<1>2. TypeOK /\ CarriesAsked /\ [Next]_vars => (TypeOK /\ CarriesAsked)'
  BY TypeStep
<1> QED
  BY <1>1, <1>2, PTL DEF Spec

-----------------------------------------------------------------------------
(* Questions, answers and the numbers they travel under.                   *)

(* What a successful receive of the initiator accepted: the answer to the  *)
(* question being asked, which the target heard.                           *)
LEMMA AcceptedAnswer ==
  ASSUME CInv, Authenticated, InitiatorReceive,
         NEW out \in ProcessOutcomes(ini, toIni), out.ok, ~out.short
  PROVE  /\ out.payload = asked /\ heard = asked /\ toIni.payload = asked
         /\ toIni.intact /\ out.ctx.iv = toIni.iv + 1
         /\ out.ctx.seq_n = toIni.seq_n + 1
<1>1. toIni \in Packet /\ toIni # NULL /\ iPc = "waiting"
  BY DEF InitiatorReceive, CInv, TypeOK
<1>2. ini \in Context /\ ini.seq_n \in Nat /\ heard \in 0 .. asked /\ asked \in Nat
  BY DEF CInv, TypeOK, Context
<1>3. /\ toIni.seq_n = ini.seq_n /\ toIni.intact
      /\ out.payload = toIni.payload /\ out.ctx.iv = toIni.iv + 1
      /\ out.ctx.seq_n = ini.seq_n + 1
  BY <1>1, <1>2, ProcessedPacket
<1>4. toIni.payload = asked /\ heard = asked
  BY <1>1, <1>2, <1>3 DEF CInv, AnswerBehind
<1> QED
  BY <1>3, <1>4

(* What a successful receive of the target accepted: a question that was   *)
(* asked and that it had not heard.                                        *)
LEMMA AcceptedQuestion ==
  ASSUME CInv, Authenticated, TargetReceive,
         NEW out \in ProcessOutcomes(tar, toTar), out.ok, ~out.short
  PROVE  /\ out.payload = toTar.payload /\ out.payload \in heard + 1 .. asked
         /\ toTar.intact /\ out.ctx.iv = toTar.iv + 1
         /\ out.ctx.seq_n = toTar.seq_n + 1
         /\ out.ctx.seq_n <= ini.seq_n
<1>1. toTar \in Packet /\ toTar # NULL
  BY DEF TargetReceive, CInv, TypeOK
<1>2. tar \in Context /\ ini.seq_n \in Nat /\ toTar.seq_n \in Nat
  BY <1>1 DEF CInv, TypeOK, Context, Packet
<1>3. /\ toTar.seq_n = tar.seq_n /\ toTar.intact
      /\ out.payload = toTar.payload /\ out.ctx.iv = toTar.iv + 1
      /\ out.ctx.seq_n = tar.seq_n + 1
  BY <1>1, <1>2, ProcessedPacket
<1> QED
  BY <1>1, <1>2, <1>3 DEF CInv, RequestFresh

(* Making a packet while there is memory.                                  *)
LEMMA InitiatorSent ==
  ASSUME TypeOK, InitiatorSend, ~short'
  PROVE  toTar' = NewPacket(ini, asked + 1) /\ ini' = AfterCreate(ini)
<1>1. PICK out \in CreateOutcomes(ini, asked + 1) :
        toTar' = out.packet /\ ini' = out.ctx /\ short' = (short \/ out.short)
  BY DEF InitiatorSend
<1>2. ~out.short
  BY <1>1, Zenon
<1> QED
  BY <1>1, <1>2, CreatedInAnyCase DEF TypeOK

LEMMA TargetSent ==
  ASSUME TypeOK, TargetSend, ~short'
  PROVE  toIni' = NewPacket(tar, heard) /\ tar' = AfterCreate(tar)
<1>1. PICK out \in CreateOutcomes(tar, heard) :
        toIni' = out.packet /\ tar' = out.ctx /\ short' = (short \/ out.short)
  BY DEF TargetSend
<1>2. ~out.short
  BY <1>1, Zenon
<1> QED
  BY <1>1, <1>2, CreatedInAnyCase DEF TypeOK

LEMMA CInvStep ==
  ASSUME CInv, TypeOK', Authenticated, [Next]_vars, ~short'
  PROVE  CInv'
<1> USE DEF Ordered, RequestFresh, ReplyBehind, AnswerBehind
<1>a. /\ TypeOK /\ Ordered /\ RequestFresh /\ ReplyBehind /\ AnswerBehind
      /\ asked \in Nat /\ heard \in 0 .. asked /\ got \in 0 .. asked
      /\ ini \in Context /\ ini.seq_n \in Nat /\ tar \in Context /\ tar.seq_n \in Nat
      /\ toTar # NULL => toTar \in Packet /\ toTar.seq_n \in Nat /\ toTar.payload \in Nat
      /\ toIni # NULL => toIni \in Packet /\ toIni.seq_n \in Nat /\ toIni.payload \in Nat
  BY DEF CInv, TypeOK, Context, Packet
<1>1. CASE InitiatorSend
  <2>1. /\ toTar' # NULL /\ toTar'.payload = asked + 1
        /\ toTar'.seq_n \in Nat /\ toTar'.seq_n <= ini.seq_n
    BY <1>1, <1>a, InitiatorSent, CreatedPacket DEF Packet
  <2>2. ini'.seq_n = ini.seq_n + 1
    BY <1>1, <1>a, InitiatorSent, CreatedPacket
  <2>3. Ordered' /\ RequestFresh'
    BY <1>1, <1>a, <2>1, <2>2 DEF InitiatorSend
  <2>4. ReplyBehind'
    BY <1>1, <1>a, <2>2 DEF InitiatorSend
  <2>5. AnswerBehind'
    BY <1>1, <1>a, <2>2 DEF InitiatorSend
  <2> QED
    BY <2>3, <2>4, <2>5 DEF CInv
<1>2. CASE InitiatorSendFails \/ TargetSendFails
  BY <1>2 DEF InitiatorSendFails, TargetSendFails
<1>3. CASE InitiatorReceive
  <2>1. PICK out \in ProcessOutcomes(ini, toIni) :
          /\ ini' = out.ctx /\ short' = (short \/ out.short)
          /\ IF out.ok THEN got' = out.payload /\ iPc' = "idle"
                       ELSE InitiatorGivesUp /\ UNCHANGED got
    BY <1>3 DEF InitiatorReceive
  <2>a. ~out.short
    BY <2>1, Zenon
  <2>2. iPc' # "waiting" /\ iPc = "waiting" /\ toIni # NULL
    BY <1>3, <2>1 DEF InitiatorReceive, InitiatorGivesUp
  <2>3. ini'.seq_n \in Nat /\ ini'.seq_n >= ini.seq_n
    BY <1>a, <2>1, <2>2, ProcessedPacket DEF Context
  <2>4. /\ got' <= heard
        /\ tPc = "replying" => got' < heard
    <3>1. CASE out.ok
      <4>1. got' = asked /\ heard = asked /\ toIni.payload = asked /\ toIni.intact
        BY <1>3, <2>1, <2>a, <3>1, AcceptedAnswer
      <4> QED
        BY <1>a, <2>2, <4>1
    <3>2. CASE ~out.ok
      BY <1>a, <2>1, <3>2
    <3> QED
      BY <3>1, <3>2
  <2> QED
    BY <1>3, <1>a, <2>2, <2>3, <2>4 DEF CInv, InitiatorReceive
<1>4. CASE InitiatorTimeout
  <2>1. iPc' # "waiting"
    BY <1>4 DEF InitiatorTimeout, InitiatorGivesUp
  <2> QED
    BY <1>4, <1>a, <2>1 DEF CInv, InitiatorTimeout
<1>5. CASE TargetReceive
  <2>1. PICK out \in ProcessOutcomes(tar, toTar) :
          /\ tar' = out.ctx /\ short' = (short \/ out.short)
          /\ IF out.ok THEN heard' = out.payload /\ tPc' = "replying"
                       ELSE TargetGivesUp /\ UNCHANGED heard
    BY <1>5 DEF TargetReceive
  <2>a. ~out.short
    BY <2>1, Zenon
  <2>2. toTar # NULL /\ toTar' = NULL /\ tPc = "receiving"
    BY <1>5 DEF TargetReceive
  <2>3. CASE out.ok
    <3>1. /\ heard' = toTar.payload /\ heard' \in heard + 1 .. asked
          /\ tar'.seq_n <= ini.seq_n
      BY <1>5, <2>1, <2>a, <2>3, AcceptedQuestion
    <3> QED
      BY <1>5, <1>a, <2>1, <2>2, <2>3, <3>1 DEF CInv, TargetReceive
  <2>4. CASE ~out.ok
    <3>1. tPc' # "replying" /\ heard' = heard
      BY <2>1, <2>4 DEF TargetGivesUp
    <3> QED
      BY <1>5, <1>a, <2>2, <3>1 DEF CInv, TargetReceive
  <2> QED
    BY <2>3, <2>4
<1>6. CASE TargetSend
  <2>1. /\ toIni'.payload = heard
        /\ toIni'.seq_n \in Nat /\ toIni'.seq_n <= tar.seq_n
    BY <1>6, <1>a, TargetSent, CreatedPacket DEF Packet
  <2> QED
    BY <1>6, <1>a, <2>1 DEF CInv, TargetSend
<1>7. CASE TargetTimeout
  <2>1. tPc' # "replying"
    BY <1>7 DEF TargetTimeout, TargetGivesUp
  <2> QED
    BY <1>7, <1>a, <2>1 DEF CInv, TargetTimeout
<1>8. CASE TargetSendUnheard
  <2>1. tPc' # "replying"
    BY <1>8 DEF TargetSendUnheard, TargetGivesUp
  <2> QED
    BY <1>8, <1>a, <2>1 DEF CInv, TargetSendUnheard
<1>9. CASE Lose
  BY <1>9, <1>a DEF CInv, Lose
<1>10. CASE Garble
  <2>1. /\ toTar' # toTar => ~toTar'.intact /\ toTar'.payload = toTar.payload /\ toTar # NULL
        /\ toIni' # toIni => ~toIni'.intact /\ toIni'.payload = toIni.payload /\ toIni # NULL
    BY <1>10, <1>a, GarbledPacket DEF Garble
  <2> QED
    BY <1>10, <1>a, <2>1 DEF CInv, Garble
<1>11. CASE UNCHANGED vars
  BY <1>11, <1>a DEF CInv, vars
<1> QED
  BY <1>1, <1>2, <1>3, <1>4, <1>5, <1>6, <1>7, <1>8, <1>9, <1>10, <1>11
  DEF Next, Initiator, Target

LEMMA CInvAlways ==
  ASSUME Authenticated
  PROVE  Spec /\ []~short => []CInv
<1>1. Init => CInv
  BY InitialTypes DEF Init, CInv, Ordered, RequestFresh, ReplyBehind, AnswerBehind
<1>2. CInv /\ TypeOK' /\ ~short' /\ [Next]_vars => CInv'
  BY CInvStep
<1> QED
  BY <1>1, <1>2, TypeCorrect, PTL DEF Spec

(* Every step of the session is one of the service or no step of it. *)
LEMMA ExchangeStep ==
  ASSUME CInv, Authenticated, [Next]_vars, ~short'
  PROVE  [E!ExchangeNext]_(E!evars)
<1> USE DEF E!ExchangeNext, E!evars
<1>1. CASE InitiatorSend \/ InitiatorSendFails
  BY <1>1 DEF InitiatorSend, InitiatorSendFails, E!Ask
<1>2. CASE InitiatorReceive
  <2>1. PICK out \in ProcessOutcomes(ini, toIni) :
          /\ short' = (short \/ out.short)
          /\ IF out.ok THEN got' = out.payload ELSE UNCHANGED got
    BY <1>2 DEF InitiatorReceive
  <2>a. ~out.short
    BY <2>1, Zenon
  <2>2. CASE out.ok
    <3>1. got' = asked /\ heard = asked
      BY <1>2, <2>1, <2>a, <2>2, AcceptedAnswer
    <3>2. got < asked
      BY <1>2 DEF InitiatorReceive, CInv, Ordered
    <3> QED
      BY <1>2, <3>1, <3>2 DEF InitiatorReceive, E!Get
  <2>3. CASE ~out.ok
    BY <1>2, <2>1, <2>3 DEF InitiatorReceive
  <2> QED
    BY <2>2, <2>3
<1>3. CASE TargetReceive
  <2>1. PICK out \in ProcessOutcomes(tar, toTar) :
          /\ short' = (short \/ out.short)
          /\ IF out.ok THEN heard' = out.payload ELSE UNCHANGED heard
    BY <1>3 DEF TargetReceive
  <2>a. ~out.short
    BY <2>1, Zenon
  <2>2. CASE out.ok
    <3>1. heard' \in heard + 1 .. asked
      BY <1>3, <2>1, <2>a, <2>2, AcceptedQuestion
    <3>2. heard \in Nat /\ asked \in Nat
      BY DEF CInv, TypeOK
    <3>3. heard' \in 1 .. asked /\ heard' > heard
      BY <3>1, <3>2
    <3> QED
      BY <1>3, <3>3 DEF TargetReceive, E!Hear
  <2>3. CASE ~out.ok
    BY <1>3, <2>1, <2>3 DEF TargetReceive
  <2> QED
    BY <2>2, <2>3
<1>4. CASE \/ InitiatorTimeout \/ TargetTimeout \/ TargetSend
           \/ TargetSendFails \/ TargetSendUnheard \/ Lose \/ Garble \/ UNCHANGED vars
  BY <1>4 DEF InitiatorTimeout, TargetTimeout, TargetSend, TargetSendFails, TargetSendUnheard,
              Lose, Garble, vars
<1> QED
  BY <1>1, <1>2, <1>3, <1>4 DEF Next, Initiator, Target

(* The session implements the question-and-answer service, whatever is     *)
(* lost, garbled or late, as long as memory does not run out.              *)
THEOREM Implementation ==
  ASSUME Authenticated
  PROVE  Spec /\ []~short => ImplementsExchange
<1>1. Init => E!ExchangeInit
  BY DEF Init, E!ExchangeInit
<1>2. CInv /\ ~short' /\ [Next]_vars => [E!ExchangeNext]_(E!evars)
  BY ExchangeStep
<1> QED
  BY <1>1, <1>2, CInvAlways, PTL DEF Spec, ImplementsExchange, E!ExchangeSpec

-----------------------------------------------------------------------------
(* The two contexts.                                                       *)

(* A context follows the packet just made from it. *)
LEMMA FollowsCreated ==
  ASSUME NEW ctx \in Context, NEW n \in Nat
  PROVE  Follows(NewPacket(ctx, n), AfterCreate(ctx))
<1>1. ctx.seq_n \in Nat
  BY DEF Context
<1> QED
  BY <1>1, CreatedPacket, NextByte DEF Follows

LEMMA AgreeStep ==
  ASSUME CInv, CInv', PacketsInStep, AgreeOnSuccess, Authenticated, [Next]_vars, ~short'
  PROVE  PacketsInStep' /\ AgreeOnSuccess'
<1> USE DEF PacketsInStep, AgreeOnSuccess, InStep
<1>a. /\ asked \in Nat /\ heard \in 0 .. asked /\ got \in 0 .. asked
      /\ ini \in Context /\ tar \in Context
      /\ Ordered /\ RequestFresh /\ AnswerBehind
      /\ TypeOK
  BY DEF CInv, TypeOK
<1>b. /\ asked' \in Nat /\ heard' \in 0 .. asked' /\ got' \in 0 .. asked'
      /\ Ordered' /\ RequestFresh' /\ AnswerBehind'
  BY DEF CInv, TypeOK
<1>1. CASE InitiatorSend
  <2>1. iPc' = "waiting" /\ asked' = asked + 1
    BY <1>1 DEF InitiatorSend
  <2>2. Follows(toTar', ini')
    BY <1>1, <1>a, InitiatorSent, FollowsCreated
  <2>3. toIni' # NULL /\ toIni'.intact => toIni'.payload # asked'
    BY <1>1, <1>a, <2>1 DEF InitiatorSend, AnswerBehind
  <2>4. heard' # asked'
    BY <1>1, <1>a, <2>1 DEF InitiatorSend
  <2> QED
    BY <2>1, <2>2, <2>3, <2>4
<1>2. CASE InitiatorSendFails \/ TargetSendFails
  BY <1>2 DEF InitiatorSendFails, TargetSendFails
<1>3. CASE InitiatorReceive
  <2>1. PICK out \in ProcessOutcomes(ini, toIni) :
          /\ ini' = out.ctx /\ short' = (short \/ out.short)
          /\ IF out.ok THEN got' = out.payload /\ iPc' = "idle"
                       ELSE InitiatorGivesUp /\ UNCHANGED got
    BY <1>3 DEF InitiatorReceive
  <2>a. ~out.short
    BY <2>1, Zenon
  <2>2. /\ iPc' # "waiting" /\ iPc = "waiting" /\ toIni # NULL
        /\ asked' = asked /\ tar' = tar
    BY <1>3, <2>1 DEF InitiatorReceive, InitiatorGivesUp
  <2>3. CASE out.ok
    <3>1. /\ toIni.payload = asked /\ toIni.intact
          /\ ini'.iv = toIni.iv + 1 /\ ini'.seq_n = toIni.seq_n + 1
      BY <1>3, <2>1, <2>a, <2>3, AcceptedAnswer
    <3>2. Follows(toIni, tar)
      BY <2>2, <3>1
    <3>3. InStep'
      BY <2>2, <3>1, <3>2 DEF Follows
    <3> QED
      BY <2>2, <3>3
  <2>4. CASE ~out.ok
    <3>1. got' # asked'
      BY <1>a, <2>1, <2>2, <2>4 DEF Ordered
    <3> QED
      BY <2>2, <3>1
  <2> QED
    BY <2>3, <2>4
<1>4. CASE InitiatorTimeout
  <2>1. iPc' # "waiting" /\ got' # asked'
    BY <1>4, <1>a DEF InitiatorTimeout, InitiatorGivesUp, Ordered
  <2> QED
    BY <2>1
<1>5. CASE TargetReceive
  <2>1. PICK out \in ProcessOutcomes(tar, toTar) :
          /\ tar' = out.ctx /\ short' = (short \/ out.short)
          /\ IF out.ok THEN heard' = out.payload /\ tPc' = "replying"
                       ELSE TargetGivesUp /\ UNCHANGED heard
    BY <1>5 DEF TargetReceive
  <2>a. ~out.short
    BY <2>1, Zenon
  <2>2. /\ toTar # NULL /\ toTar' = NULL
        /\ UNCHANGED <<ini, toIni, iPc, asked, got>>
    BY <1>5 DEF TargetReceive
  <2>3. heard < asked
    BY <1>a, <2>2 DEF RequestFresh
  <2>4. /\ toIni' # NULL /\ toIni'.intact => toIni'.payload # asked'
        /\ got' # asked'
    BY <1>a, <2>2, <2>3 DEF AnswerBehind, Ordered
  <2>5. CASE out.ok
    <3>1. /\ toTar.intact /\ tar'.iv = toTar.iv + 1 /\ tar'.seq_n = toTar.seq_n + 1
      BY <1>5, <2>1, <2>a, <2>5, AcceptedQuestion
    <3>2. iPc = "waiting" => Follows(toTar, ini)
      BY <2>2
    <3>3. iPc' = "waiting" => InStep'
      BY <2>2, <3>1, <3>2 DEF Follows
    <3> QED
      BY <2>2, <2>4, <3>3
  <2>6. CASE ~out.ok
    <3>1. tPc' # "replying"
      BY <2>1, <2>6 DEF TargetGivesUp
    <3> QED
      BY <2>2, <2>4, <3>1
  <2> QED
    BY <2>5, <2>6
<1>6. CASE TargetSend
  <2>1. Follows(toIni', tar')
    BY <1>6, <1>a, TargetSent, FollowsCreated
  <2>2. tPc' = "receiving" /\ got' # asked'
    BY <1>6, <1>a DEF TargetSend, Ordered
  <2> QED
    BY <1>6, <2>1, <2>2 DEF TargetSend
<1>7. CASE TargetSendUnheard
  <2>1. /\ tPc = "replying" /\ tPc' # "replying"
        /\ UNCHANGED <<ini, toTar, toIni, iPc, asked, heard, got>>
    BY <1>7 DEF TargetSendUnheard, TargetGivesUp
  <2>2. got' # asked'
    BY <1>a, <2>1 DEF Ordered
  <2>3. toIni' # NULL /\ toIni'.intact => toIni'.payload # asked'
    BY <1>a, <2>1 DEF AnswerBehind
  <2> QED
    BY <2>1, <2>2, <2>3
<1>8. CASE Lose
  BY <1>8 DEF Lose
<1>9. CASE Garble
  <2>1. /\ toTar' # toTar => /\ toTar # NULL /\ toTar'.payload = toTar.payload
                            /\ toTar'.iv = toTar.iv /\ ~toTar'.intact
        /\ toIni' # toIni => /\ toIni # NULL /\ toIni'.payload = toIni.payload
                            /\ toIni'.iv = toIni.iv /\ ~toIni'.intact
    BY <1>9, GarbledPacket DEF Garble, CInv, TypeOK
  <2> QED
    BY <1>9, <2>1 DEF Garble, Follows
<1>10. CASE UNCHANGED vars
  BY <1>10 DEF vars, Follows
<1>11. CASE TargetTimeout
  <2>1. /\ tPc = "receiving" /\ tPc' \in {"receiving", "stopped"}
        /\ UNCHANGED <<ini, tar, toTar, toIni, iPc, asked, heard, got>>
    BY <1>11 DEF TargetTimeout, TargetGivesUp
  <2> QED
    BY <2>1 DEF Follows
<1> QED
  BY <1>1, <1>2, <1>3, <1>4, <1>5, <1>6, <1>7, <1>8, <1>9, <1>10, <1>11
  DEF Next, Initiator, Target

(* A delivered request or an accepted answer leaves the two contexts with  *)
(* one IV and one sequence byte, whatever went wrong before it but memory.  *)
THEOREM ContextsAgree ==
  ASSUME Authenticated
  PROVE  Spec /\ []~short => []AgreeOnSuccess
<1>1. Init => PacketsInStep /\ AgreeOnSuccess
  BY DEF Init, PacketsInStep, AgreeOnSuccess, InStep
<1>2. /\ CInv /\ CInv' /\ PacketsInStep /\ AgreeOnSuccess /\ ~short' /\ [Next]_vars
      => PacketsInStep' /\ AgreeOnSuccess'
  BY AgreeStep
<1> QED
  BY <1>1, <1>2, CInvAlways, PTL DEF Spec

-----------------------------------------------------------------------------
(* Applications that stop at the first error.                              *)

(* A receiver at the packet's IV takes the packet with it or refuses.      *)
LEMMA TakenWithItsIv ==
  ASSUME NEW ctx \in Context, NEW p \in Packet, NEW out \in ProcessOutcomes(ctx, p),
         ctx.iv = p.iv, p.intact => p.iv_check_value = p.iv % CheckRange,
         out.ok, ~out.short
  PROVE  out.ctx.iv = p.iv + 1
<1> DEFINE next == [seq_n |-> ctx.seq_n + 1, iv |-> ctx.iv]
<1>1. ctx.seq_n \in Nat /\ ctx.iv \in Nat /\ [ctx EXCEPT !.seq_n = @ + 1] = next
  BY DEF Context
<1>2. ASSUME NEW c, NEW starved, out = Refused(c, starved)
      PROVE  FALSE
  BY <1>2, Zenon DEF Refused
<1>3. p.seq_n = ctx.seq_n /\ p.intact
  BY <1>2 DEF ProcessOutcomes
<1>4. PICK s \in SyncOutcomes(ctx.iv, p.iv_check_value) :
        out \in IF s.ok THEN DecryptOutcomes([next EXCEPT !.iv = s.iv], p, s.short)
                        ELSE {Refused([next EXCEPT !.iv = s.iv], TRUE)}
  BY <1>1, <1>3 DEF ProcessOutcomes
<1>5. s.iv = ctx.iv
  <2>1. 0 \in SyncMatches(ctx.iv, p.iv_check_value)
    BY <1>1, <1>3 DEF SyncMatches
  <2>2. \A a \in SyncSteps(ctx.iv, p.iv_check_value) : a = 0
    BY <2>1 DEF SyncSteps, SyncMatches
  <2>3. 0 \in SyncSteps(ctx.iv, p.iv_check_value)
    BY <2>1 DEF SyncSteps, SyncMatches
  <2>4. SyncStepsCutShort(ctx.iv, p.iv_check_value) = {}
    BY <2>3 DEF SyncStepsCutShort
  <2> QED
    BY <1>1, <2>2, <2>4 DEF SyncOutcomes
<1>6. [next EXCEPT !.iv = s.iv] = next
  BY <1>5
<1>7. out \in DecryptOutcomes(next, p, s.short)
  BY <1>2, <1>4, <1>6
<1>8. PICK after \in NextIv(ctx.iv) :
        out = Accepted([next EXCEPT !.iv = after.iv], Plaintext(next, p), s.short \/ after.short)
  BY <1>2, <1>7 DEF DecryptOutcomes
<1>9. ~after.short
  BY <1>8, Zenon DEF Accepted
<1>10. out.ctx.iv = after.iv
  BY <1>8 DEF Accepted
<1> QED
  BY <1>1, <1>9, <1>10, NextIvMoves

(* The check value of a packet made here is its IV's last byte, and        *)
(* garbling does not matter: what is not intact is refused.                *)
Stamped ==
  /\ toTar # NULL /\ toTar.intact => toTar.iv_check_value = toTar.iv % CheckRange
  /\ toIni # NULL /\ toIni.intact => toIni.iv_check_value = toIni.iv % CheckRange

LEMMA StampedStep ==
  ASSUME TypeOK, Stamped, [Next]_vars
  PROVE  Stamped'
<1> USE DEF Stamped
<1>1. CASE InitiatorSend
  <2>1. PICK out \in CreateOutcomes(ini, asked + 1) : toTar' = out.packet
    BY <1>1 DEF InitiatorSend
  <2> QED
    BY <1>1, <2>1, CreatedInAnyCase DEF InitiatorSend, TypeOK
<1>2. CASE TargetSend
  <2>1. PICK out \in CreateOutcomes(tar, heard) : toIni' = out.packet
    BY <1>2 DEF TargetSend
  <2> QED
    BY <1>2, <2>1, CreatedInAnyCase DEF TargetSend, TypeOK
<1>3. CASE Garble
  <2>1. /\ toTar' # toTar => ~toTar'.intact
        /\ toIni' # toIni => ~toIni'.intact
    BY <1>3, GarbledPacket DEF Garble, TypeOK
  <2> QED
    BY <2>1
<1>4. CASE \/ InitiatorSendFails \/ InitiatorReceive \/ InitiatorTimeout \/ TargetReceive
           \/ TargetTimeout \/ TargetSendFails \/ TargetSendUnheard \/ Lose \/ UNCHANGED vars
  BY <1>4 DEF InitiatorSendFails, InitiatorReceive, InitiatorTimeout, TargetReceive,
              TargetTimeout, TargetSendFails, TargetSendUnheard, Lose, vars
<1> QED
  BY <1>1, <1>2, <1>3, <1>4 DEF Next, Initiator, Target

LEMMA IvInvStep ==
  ASSUME TypeOK, TypeOK', Stamped, IvInv, ~Retries, [Next]_vars, ~short'
  PROVE  IvInv'
<1> USE DEF IvInv, QuietWhenIdle, RequestNewest, ReplyNext, AnswerNewest, UsedUpTo
<1>a. /\ used \subseteq Nat
      /\ ini \in Context /\ ini.iv \in Nat /\ tar \in Context /\ tar.iv \in Nat
      /\ toTar # NULL => toTar \in Packet /\ toTar.iv \in Nat
      /\ toIni # NULL => toIni \in Packet /\ toIni.iv \in Nat
  BY DEF TypeOK, Context, Packet
<1>1. CASE InitiatorSend
  <2>1. toTar'.iv = ini.iv /\ ini'.iv = ini.iv + 1
    BY <1>1, <1>a, InitiatorSent, CreatedPacket DEF TypeOK
  <2>2. /\ iPc = "idle" /\ iPc' = "waiting" /\ toIni' = NULL
        /\ tPc' = tPc /\ tPc # "replying" /\ tar' = tar
    BY <1>1 DEF InitiatorSend
  <2>3. \A u \in used' : u <= ini.iv
    BY <1>1, <1>a, <2>2 DEF InitiatorSend
  <2> QED
    BY <1>a, <2>1, <2>2, <2>3
<1>2. CASE InitiatorSendFails
  BY <1>2 DEF InitiatorSendFails
<1>3. CASE InitiatorReceive
  <2>1. PICK out \in ProcessOutcomes(ini, toIni) :
          /\ ini' = out.ctx /\ short' = (short \/ out.short)
          /\ IF out.ok THEN got' = out.payload /\ iPc' = "idle"
                       ELSE InitiatorGivesUp /\ UNCHANGED got
    BY <1>3 DEF InitiatorReceive
  <2>a. ~out.short
    BY <2>1, Zenon
  <2>2. /\ toIni # NULL /\ iPc = "waiting" /\ toIni' = NULL
        /\ UNCHANGED <<tar, toTar, tPc, used>>
    BY <1>3 DEF InitiatorReceive
  <2>3. CASE out.ok
    <3>1. ini'.iv = toIni.iv + 1
      BY <1>a, <2>1, <2>2, <2>3, TakenWithItsIv DEF Stamped
    <3>2. iPc' = "idle" /\ toTar = NULL /\ tPc # "replying"
      BY <2>1, <2>2, <2>3
    <3> QED
      BY <1>a, <2>2, <3>1, <3>2
  <2>4. CASE ~out.ok
    <3>1. iPc' = "stopped"
      BY <2>1, <2>4 DEF InitiatorGivesUp
    <3> QED
      BY <1>a, <2>2, <3>1
  <2> QED
    BY <2>3, <2>4
<1>4. CASE InitiatorTimeout
  BY <1>4, <1>a DEF InitiatorTimeout, InitiatorGivesUp
<1>5. CASE TargetReceive
  <2>1. PICK out \in ProcessOutcomes(tar, toTar) :
          /\ tar' = out.ctx /\ short' = (short \/ out.short)
          /\ IF out.ok THEN heard' = out.payload /\ tPc' = "replying"
                       ELSE TargetGivesUp /\ UNCHANGED heard
    BY <1>5 DEF TargetReceive
  <2>a. ~out.short
    BY <2>1, Zenon
  <2>2. /\ toTar # NULL /\ tPc = "receiving" /\ toTar' = NULL
        /\ UNCHANGED <<ini, toIni, iPc, used>>
    BY <1>5 DEF TargetReceive
  <2>3. CASE out.ok
    <3>1. tar'.iv = toTar.iv + 1
      BY <1>a, <2>1, <2>2, <2>3, TakenWithItsIv DEF Stamped
    <3>2. tPc' = "replying"
      BY <2>1, <2>3
    <3> QED
      BY <1>a, <2>2, <3>1, <3>2
  <2>4. CASE ~out.ok
    <3>1. tPc' = "stopped"
      BY <2>1, <2>4 DEF TargetGivesUp
    <3> QED
      BY <1>a, <2>2, <3>1
  <2> QED
    BY <2>3, <2>4
<1>6. CASE TargetSend
  <2>1. toIni'.iv = tar.iv /\ tar'.iv = tar.iv + 1
    BY <1>6, <1>a, TargetSent, CreatedPacket DEF TypeOK
  <2> QED
    BY <1>6, <1>a, <2>1 DEF TargetSend
<1>7. CASE TargetSendFails
  BY <1>7 DEF TargetSendFails
<1>8. CASE TargetSendUnheard
  BY <1>8, <1>a DEF TargetSendUnheard, TargetGivesUp
<1>9. CASE Lose
  BY <1>9, <1>a DEF Lose
<1>10. CASE Garble
  <2>1. /\ toTar' # toTar => toTar'.iv = toTar.iv /\ toTar # NULL
        /\ toIni' # toIni => toIni'.iv = toIni.iv /\ toIni # NULL
    BY <1>10, <1>a, GarbledPacket DEF Garble
  <2> QED
    BY <1>10, <1>a, <2>1 DEF Garble
<1>11. CASE UNCHANGED vars
  BY <1>11, <1>a DEF vars
<1>12. CASE TargetTimeout
  BY <1>12, <1>a DEF TargetTimeout, TargetGivesUp
<1> QED
  BY <1>1, <1>2, <1>3, <1>4, <1>5, <1>6, <1>7, <1>8, <1>9, <1>10, <1>11, <1>12
  DEF Next, Initiator, Target

(* Memory that ran out stays so. *)
LEMMA ShortStays ==
  ASSUME [Next]_vars, ~short'
  PROVE  ~short
<1>1. CASE \E b : short' = (short \/ b)
  BY <1>1, Zenon
<1>2. CASE short' = short \/ short' = TRUE
  BY <1>2, Zenon
<1> QED
  BY <1>1, <1>2 DEF Next, Initiator, Target, InitiatorSend, InitiatorSendFails, InitiatorReceive,
     InitiatorTimeout, TargetReceive, TargetTimeout, TargetSend, TargetSendFails,
     TargetSendUnheard, Lose, Garble, vars

(* Applications that stop at the first error never make two packets of a   *)
(* session with one IV while there is memory, with any cipher and whatever *)
(* else goes wrong.                                                        *)
THEOREM IvsUnique ==
  ASSUME ~Retries
  PROVE  Spec => IvUsedOnce
<1>1. Init => Stamped /\ IvInv
  BY DEF Init, Stamped, IvInv, QuietWhenIdle, RequestNewest, ReplyNext, AnswerNewest, UsedUpTo
<1>2. TypeOK /\ TypeOK' /\ Stamped /\ (~short => IvInv) /\ [Next]_vars
      => Stamped' /\ (~short' => IvInv')
  BY StampedStep, IvInvStep, ShortStays
<1>3. TypeOK /\ (~short => IvInv) =>
        /\ ~short /\ InitiatorSend => ini.iv \notin used
        /\ ~short /\ (TargetSend \/ TargetSendUnheard) => tar.iv \notin used
  <2> SUFFICES ASSUME TypeOK, IvInv
               PROVE  /\ InitiatorSend => ini.iv \notin used
                      /\ TargetSend \/ TargetSendUnheard => tar.iv \notin used
    OBVIOUS
  <2>1. ini.iv \in Nat /\ tar.iv \in Nat
    BY DEF TypeOK, Context
  <2>2. InitiatorSend => ini.iv \notin used
    BY <2>1 DEF InitiatorSend, IvInv, QuietWhenIdle, UsedUpTo
  <2>3. TargetSend \/ TargetSendUnheard => tar.iv \notin used
    BY <2>1 DEF TargetSend, TargetSendUnheard, IvInv, ReplyNext, UsedUpTo
  <2> QED
    BY <2>2, <2>3
<1> QED
  BY <1>1, <1>2, <1>3, TypeCorrect, PTL DEF Spec, IvUsedOnce

-----------------------------------------------------------------------------
(* Catching up.                                                            *)

(* Numbers less than a byte's range apart are told apart by their bytes.   *)
LEMMA BytesTell ==
  ASSUME NEW m \in Nat, NEW n \in Nat, m <= n, n - m < CheckRange,
         m % CheckRange = n % CheckRange
  PROVE  m = n
<1> DEFINE q == m \div CheckRange
           u == n \div CheckRange
           r == m % CheckRange
<1>1. m = CheckRange * q + r /\ n = CheckRange * u + r
  OBVIOUS
<1>2. q \in Nat /\ u \in Nat /\ r \in Nat
  OBVIOUS
<1> HIDE DEF q, u, r
<1>3. n - m = CheckRange * (u - q)
  BY <1>1, <1>2
<1>4. CASE u > q
  <2>1. \A k \in Nat : CheckRange * (k + 1) >= CheckRange
    OBVIOUS
  <2>2. u - q - 1 \in Nat /\ (u - q - 1) + 1 = u - q
    BY <1>2, <1>4
  <2>3. CheckRange * (u - q) >= CheckRange
    BY <2>1, <2>2
  <2> QED
    BY <1>3, <2>3
<1>5. CASE u = q
  BY <1>1, <1>5
<1>6. CASE u < q
  <2>1. \A k \in Nat : CheckRange * (k + 1) >= 1
    OBVIOUS
  <2>2. q - u - 1 \in Nat /\ (q - u - 1) + 1 = q - u
    BY <1>2, <1>6
  <2>3. CheckRange * (q - u) >= 1
    BY <2>1, <2>2
  <2>4. m - n = CheckRange * (q - u)
    BY <1>1, <1>2
  <2> QED
    BY <2>3, <2>4
<1> QED
  BY <1>2, <1>4, <1>5, <1>6

(* sync_iv stops at the packet's IV when it is in reach. *)
LEMMA SyncReaches ==
  ASSUME MAX_IV_SYNC_ATTEMPTS < CheckRange, NEW iv \in Nat,
         NEW d \in 0 .. MAX_IV_SYNC_ATTEMPTS,
         NEW s \in SyncOutcomes(iv, (iv + d) % CheckRange), ~s.short
  PROVE  s.iv = iv + d /\ s.ok
<1> DEFINE check == (iv + d) % CheckRange
<1>1. d \in SyncMatches(iv, check)
  BY DEF SyncMatches
<1>2. ASSUME NEW a \in SyncMatches(iv, check) PROVE a = d
  <2>1. a \in 0 .. MAX_IV_SYNC_ATTEMPTS /\ (iv + a) % CheckRange = check
    BY <1>2 DEF SyncMatches
  <2>a. iv + a \in Nat /\ iv + d \in Nat /\ (iv + a) % CheckRange = (iv + d) % CheckRange
    BY <2>1
  <2>2. CASE a <= d
    <3>1. iv + a <= iv + d /\ (iv + d) - (iv + a) < CheckRange
      BY <2>1, <2>2
    <3>2. iv + a = iv + d
      BY <2>a, <3>1, BytesTell
    <3> QED
      BY <2>1, <3>2
  <2>3. CASE d <= a
    <3>1. iv + d <= iv + a /\ (iv + a) - (iv + d) < CheckRange
      BY <2>1, <2>3
    <3>2. iv + d = iv + a
      BY <2>a, <3>1, BytesTell
    <3> QED
      BY <2>1, <3>2
  <2> QED
    BY <2>1, <2>2, <2>3
<1> HIDE DEF check
<1>3. \A a \in SyncSteps(iv, check) : a = d
  BY <1>1, <1>2 DEF SyncSteps
<1>4. CASE \E a \in SyncSteps(iv, check) : s = [iv |-> iv + a, ok |-> TRUE, short |-> FALSE]
  <2>1. s = [iv |-> iv + d, ok |-> TRUE, short |-> FALSE]
    BY <1>3, <1>4
  <2>2. s.iv = iv + d
    BY <2>1
  <2>3. s.ok
    BY <2>1, Zenon
  <2> QED
    BY <2>2, <2>3
<1>5. CASE \E a \in SyncStepsCutShort(iv, check), ok \in BOOLEAN :
             s = [iv |-> iv + a, ok |-> ok, short |-> TRUE]
  <2>1. PICK a, ok : s = [iv |-> iv + a, ok |-> ok, short |-> TRUE]
    BY <1>5
  <2>2. s.short
    BY <2>1, Zenon
  <2> QED
    BY <2>2
<1> QED
  BY <1>4, <1>5 DEF SyncOutcomes, check

(* What it takes to decrypt one that came with enough memory. *)
LEMMA DecryptedInReach ==
  ASSUME NEW c \in Context, NEW p \in Packet, NEW starved,
         NEW out \in DecryptOutcomes(c, p, starved), ~out.short
  PROVE  /\ ~starved
         /\ c.iv = p.iv => out.ok /\ out.payload = p.payload
<1>1. CASE out = Refused(c, starved) /\ c.iv # p.iv
  <2>1. ~starved
    BY <1>1, Zenon DEF Refused
  <2> QED
    BY <1>1, <2>1
<1>2. CASE \E d : out = Refused(d, TRUE)
  <2>1. PICK d : out = Refused(d, TRUE)
    BY <1>2
  <2>2. out.short
    BY <2>1, Zenon DEF Refused
  <2> QED
    BY <2>2
<1>3. CASE \E d, b : out = Accepted(d, Plaintext(c, p), starved \/ b)
  <2>1. PICK d, b : out = Accepted(d, Plaintext(c, p), starved \/ b)
    BY <1>3
  <2>2. ~starved
    BY <2>1, Zenon DEF Accepted
  <2>3. out.ok
    BY <2>1, Zenon DEF Accepted
  <2>4. out.payload = Plaintext(c, p)
    BY <2>1 DEF Accepted
  <2> QED
    BY <2>2, <2>3, <2>4 DEF Plaintext
<1> QED
  BY <1>1, <1>2, <1>3 DEF DecryptOutcomes

(* A receiver takes an intact packet in reach, with any cipher. *)
LEMMA ReceivedInReach ==
  ASSUME MAX_IV_SYNC_ATTEMPTS < CheckRange,
         NEW ctx \in Context, NEW p \in Packet, NEW out \in ProcessOutcomes(ctx, p),
         InReach(ctx, p), p.iv_check_value = p.iv % CheckRange, ~out.short
  PROVE  out.ok /\ out.payload = p.payload
<1> DEFINE d == p.iv - ctx.iv
           next == [seq_n |-> ctx.seq_n + 1, iv |-> ctx.iv]
<1>1. ctx.seq_n \in Nat /\ ctx.iv \in Nat /\ p.iv \in Nat
  BY DEF Context, Packet
<1>2. /\ p.seq_n = ctx.seq_n /\ p.intact
      /\ d \in 0 .. MAX_IV_SYNC_ATTEMPTS /\ ctx.iv + d = p.iv
  BY <1>1 DEF InReach
<1>3. [ctx EXCEPT !.seq_n = @ + 1] = next
  BY DEF Context
<1>4. PICK s \in SyncOutcomes(ctx.iv, p.iv_check_value) :
        out \in IF s.ok THEN DecryptOutcomes([next EXCEPT !.iv = s.iv], p, s.short)
                        ELSE {Refused([next EXCEPT !.iv = s.iv], TRUE)}
  BY <1>2, <1>3 DEF ProcessOutcomes
<1>5. s.iv \in Nat
  BY <1>1, <1>4 DEF SyncOutcomes, SyncSteps, SyncMatches, SyncStepsCutShort
<1> DEFINE synced == [seq_n |-> ctx.seq_n + 1, iv |-> s.iv]
<1>6. [next EXCEPT !.iv = s.iv] = synced /\ synced \in Context /\ synced.iv = s.iv
  BY <1>1, <1>5 DEF Context
<1> HIDE DEF d, next, synced
<1>7. ~(out = Refused(synced, TRUE))
  <2>1. Refused(synced, TRUE).short
    BY Zenon DEF Refused
  <2> QED
    BY <2>1
<1>8. out \in DecryptOutcomes(synced, p, s.short)
  BY <1>4, <1>6, <1>7
<1>9. ~s.short
  BY <1>6, <1>8, DecryptedInReach
<1>10. s.iv = p.iv
  BY <1>1, <1>2, <1>4, <1>9, SyncReaches
<1> QED
  BY <1>6, <1>8, <1>10, DecryptedInReach

LEMMA CatchStep ==
  ASSUME MAX_IV_SYNC_ATTEMPTS < CheckRange, TypeOK, Stamped, ~short'
  PROVE  /\ TargetReceive /\ InReach(tar, toTar) => tPc' = "replying"
         /\ InitiatorReceive /\ InReach(ini, toIni) => got' = toIni.payload
<1>1. ASSUME TargetReceive, InReach(tar, toTar) PROVE tPc' = "replying"
  <2>1. PICK out \in ProcessOutcomes(tar, toTar) :
          /\ short' = (short \/ out.short)
          /\ IF out.ok THEN tPc' = "replying" ELSE TargetGivesUp
    BY <1>1 DEF TargetReceive
  <2>2. ~out.short
    BY <2>1, Zenon
  <2>3. toTar \in Packet /\ toTar.iv_check_value = toTar.iv % CheckRange /\ tar \in Context
    BY <1>1 DEF TargetReceive, TypeOK, Stamped, InReach
  <2> QED
    BY <1>1, <2>1, <2>2, <2>3, ReceivedInReach
<1>2. ASSUME InitiatorReceive, InReach(ini, toIni) PROVE got' = toIni.payload
  <2>1. PICK out \in ProcessOutcomes(ini, toIni) :
          /\ short' = (short \/ out.short)
          /\ IF out.ok THEN got' = out.payload ELSE InitiatorGivesUp
    BY <1>2 DEF InitiatorReceive
  <2>2. ~out.short
    BY <2>1, Zenon
  <2>3. toIni \in Packet /\ toIni.iv_check_value = toIni.iv % CheckRange /\ ini \in Context
    BY <1>2 DEF InitiatorReceive, TypeOK, Stamped, InReach
  <2> QED
    BY <1>2, <2>1, <2>2, <2>3, ReceivedInReach
<1> QED
  BY <1>1, <1>2

(* A receiver takes the next intact packet as long as its IV is behind the *)
(* packet's by no more than sync_iv advances it, and memory does not run   *)
(* out.  It rests on the byte that travels telling that many IVs apart.    *)
THEOREM CatchUp ==
  ASSUME MAX_IV_SYNC_ATTEMPTS < CheckRange
  PROVE  Spec /\ []~short => CatchesUp
<1>1. Init => Stamped
  BY DEF Init, Stamped
<1>2. TypeOK /\ Stamped /\ [Next]_vars => Stamped'
  BY StampedStep
<1>3. TypeOK /\ Stamped /\ ~short' =>
        /\ TargetReceive /\ InReach(tar, toTar) => tPc' = "replying"
        /\ InitiatorReceive /\ InReach(ini, toIni) => got' = toIni.payload
  BY CatchStep
<1> QED
  BY <1>1, <1>2, <1>3, TypeCorrect, PTL DEF Spec, CatchesUp

-----------------------------------------------------------------------------
(***************************************************************************)
(* What SnfcChannelProofs shows of an established session holds of one     *)
(* whose target may still wait for the initiator's proof: taking a packet  *)
(* for the proof leaves both contexts alone, and what is sent back is no   *)
(* intact packet.                                                          *)
(***************************************************************************)


(* What a step is to the two contexts, the packets and the applications. *)
LEMMA SessionSteps ==
  ASSUME [SessionNext]_svars
  PROVE  [Next]_vars \/ TargetTakesProof \/ TargetProofTimesOut
<1>1. CASE InitiatorWorks \/ TargetWorks
  BY <1>1 DEF InitiatorWorks, TargetWorks, Next, Initiator, Target
<1>2. CASE Fault
  BY <1>2 DEF Fault, Next, Initiator, Target
<1>3. CASE CalmDown \/ UNCHANGED svars
  BY <1>3 DEF CalmDown, svars
<1> QED
  BY <1>1, <1>2, <1>3 DEF SessionNext

(* What the two steps of the proof leave of the packets. *)
LEMMA ProofTaken ==
  ASSUME TypeOK, TargetTakesProof
  PROVE  /\ toTar' = NULL
         /\ \/ toIni' = toIni
            \/ toIni' \in Packet /\ ~toIni'.intact /\ toIni'.payload = toTar.payload
<1>1. toTar \in Packet /\ toTar' = NULL
  BY DEF TypeOK, TargetTakesProof
<1> DEFINE back == [toTar EXCEPT !.intact = FALSE]
<1>2. back \in Packet
  BY <1>1 DEF Packet
<1>3. back.payload = toTar.payload
  BY <1>1 DEF Packet
<1>4. ~back.intact
  BY <1>1, Zenon DEF Packet
<1>5. toIni' = back \/ toIni' = toIni
  BY DEF TargetTakesProof
<1> HIDE DEF back
<1> QED
  BY <1>1, <1>2, <1>3, <1>4, <1>5

(* Both contexts and all packets keep their types while the target may     *)
(* still wait for the proof.                                               *)
THEOREM SessionTypeCorrect == SessionSpec => []TypeOK
<1>1. SessionInit => TypeOK /\ CarriesAsked
  BY InitialTypes DEF SessionInit, Init, CarriesAsked
<1>2. TypeOK /\ CarriesAsked /\ [SessionNext]_svars => (TypeOK /\ CarriesAsked)'
  <2> SUFFICES ASSUME TypeOK, CarriesAsked, [SessionNext]_svars
               PROVE  TypeOK' /\ CarriesAsked'
    OBVIOUS
  <2>1. CASE [Next]_vars
    BY <2>1, TypeStep
  <2>2. CASE TargetTakesProof
    BY <2>2, ProofTaken DEF TargetTakesProof, TypeOK, CarriesAsked
  <2>3. CASE TargetProofTimesOut
    BY <2>3 DEF TargetProofTimesOut, TypeOK, CarriesAsked
  <2> QED
    BY <2>1, <2>2, <2>3, SessionSteps
<1> QED
  BY <1>1, <1>2, PTL DEF SessionSpec

-----------------------------------------------------------------------------
(* A session without a failed allocation.                                  *)

LEMMA CreatedInMemory ==
  ASSUME "alloc" \notin Faults, NEW ctx, NEW n, NEW out \in CreateOutcomes(ctx, n)
  PROVE  ~out.short
<1>1. out = [ctx |-> AfterCreate(ctx), packet |-> NewPacket(ctx, n), short |-> FALSE]
  BY DEF CreateOutcomes
<1> QED
  BY <1>1, Zenon

LEMMA NextInMemory ==
  ASSUME "alloc" \notin Faults, NEW iv, NEW next \in NextIv(iv)
  PROVE  next.ok /\ ~next.short
<1>1. next = [iv |-> iv + 1, ok |-> TRUE, short |-> FALSE]
  BY DEF NextIv
<1> QED
  BY <1>1, Zenon

LEMMA SyncedInMemory ==
  ASSUME "alloc" \notin Faults, NEW iv, NEW check, NEW s \in SyncOutcomes(iv, check)
  PROVE  s.ok /\ ~s.short
<1>1. PICK a : s = [iv |-> iv + a, ok |-> TRUE, short |-> FALSE]
  BY DEF SyncOutcomes
<1> QED
  BY <1>1, Zenon

LEMMA DecryptedInMemory ==
  ASSUME "alloc" \notin Faults, NEW c, NEW p, NEW starved, ~starved,
         NEW out \in DecryptOutcomes(c, p, starved)
  PROVE  ~out.short
<1>1. CASE out = Refused(c, starved)
  BY <1>1, Zenon DEF Refused
<1>2. ASSUME NEW next \in NextIv(c.iv), NEW d,
             out = Accepted(d, Plaintext(c, p), starved \/ next.short)
      PROVE  ~out.short
  <2>1. ~next.short
    BY <1>2, NextInMemory
  <2>2. out.short = (starved \/ next.short)
    BY <1>2, Zenon DEF Accepted
  <2> QED
    BY <2>1, <2>2, Zenon
<1>3. \A next \in NextIv(c.iv) : next.ok
  BY NextInMemory
<1>4. CASE c.iv # p.iv /\ Authenticated
  BY <1>1, <1>4 DEF DecryptOutcomes
<1>5. CASE ~(c.iv # p.iv /\ Authenticated)
  <2>1. PICK next \in NextIv(c.iv) :
          out = IF next.ok
                THEN Accepted([c EXCEPT !.iv = next.iv], Plaintext(c, p), starved \/ next.short)
                ELSE Refused(c, TRUE)
    BY <1>5 DEF DecryptOutcomes
  <2>2. out = Accepted([c EXCEPT !.iv = next.iv], Plaintext(c, p), starved \/ next.short)
    BY <1>3, <2>1, Zenon
  <2> QED
    BY <1>2, <2>2
<1> QED
  BY <1>4, <1>5

LEMMA ProcessedInMemory ==
  ASSUME "alloc" \notin Faults, NEW ctx, NEW p, NEW out \in ProcessOutcomes(ctx, p)
  PROVE  ~out.short
<1>1. ASSUME NEW c, out = Refused(c, FALSE)
      PROVE  ~out.short
  BY <1>1, Zenon DEF Refused
<1>2. ASSUME NEW c, NEW s \in SyncOutcomes(ctx.iv, p.iv_check_value),
             out \in IF s.ok THEN DecryptOutcomes(c, p, s.short) ELSE {Refused(c, TRUE)}
      PROVE  ~out.short
  <2>1. s.ok /\ ~s.short
    BY <1>2, SyncedInMemory
  <2>2. out \in DecryptOutcomes(c, p, s.short)
    BY <1>2, <2>1
  <2> QED
    BY <2>1, <2>2, DecryptedInMemory
<1>3. CASE p.seq_n # ctx.seq_n \/ ~p.intact
  BY <1>1, <1>3 DEF ProcessOutcomes
<1>4. CASE p.seq_n = ctx.seq_n /\ p.intact
  BY <1>2, <1>4 DEF ProcessOutcomes
<1> QED
  BY <1>3, <1>4

(* Without failed allocations the condition of the theorems below is met:  *)
(* nothing else makes a TA report that memory ran out.                     *)
THEOREM MemoryLasts ==
  ASSUME "alloc" \notin Faults
  PROVE  SessionSpec => []~short
<1>1. SessionInit => ~short
  BY DEF SessionInit, Init
<1>2. ~short /\ [SessionNext]_svars => ~short'
  <2> SUFFICES ASSUME ~short, [SessionNext]_svars
               PROVE  ~short'
    OBVIOUS
  <2>a. ASSUME NEW b, ~b, short' = (short \/ b)
        PROVE  ~short'
    BY <2>a, Zenon
  <2>1. CASE InitiatorSend \/ TargetSend \/ TargetSendUnheard
    BY <2>1, <2>a, CreatedInMemory DEF InitiatorSend, TargetSend, TargetSendUnheard
  <2>2. CASE InitiatorReceive \/ TargetReceive
    BY <2>2, <2>a, ProcessedInMemory DEF InitiatorReceive, TargetReceive
  <2>3. CASE \/ InitiatorTimeout \/ TargetTimeout \/ Lose \/ Garble
             \/ TargetTakesProof \/ TargetProofTimesOut \/ UNCHANGED vars
    BY <2>3 DEF InitiatorTimeout, TargetTimeout, Lose, Garble, TargetTakesProof,
                TargetProofTimesOut, vars
  <2>4. CASE InitiatorSendFails \/ TargetSendFails
    BY <2>4 DEF InitiatorSendFails, TargetSendFails
  <2> QED
    BY <2>1, <2>2, <2>3, <2>4, SessionSteps DEF Next, Initiator, Target
<1> QED
  BY <1>1, <1>2, PTL DEF SessionSpec

-----------------------------------------------------------------------------
(* The session with an authenticated cipher.                               *)

LEMMA SessionCInvAlways ==
  ASSUME Authenticated
  PROVE  SessionSpec /\ []~short => []CInv
<1>1. SessionInit => CInv
  BY InitialTypes DEF SessionInit, Init, CInv, Ordered, RequestFresh, ReplyBehind, AnswerBehind
<1>2. CInv /\ TypeOK' /\ ~short' /\ [SessionNext]_svars => CInv'
  <2> SUFFICES ASSUME CInv, TypeOK', ~short', [SessionNext]_svars
               PROVE  CInv'
    OBVIOUS
  <2>1. CASE [Next]_vars
    BY <2>1, CInvStep
  <2>2. CASE TargetTakesProof
    <3>1. toTar' = NULL /\ (toIni' = toIni \/ ~toIni'.intact)
      BY <2>2, ProofTaken DEF CInv
    <3> QED
      BY <2>2, <3>1 DEF TargetTakesProof, CInv, Ordered, RequestFresh, ReplyBehind, AnswerBehind
  <2>3. CASE TargetProofTimesOut
    BY <2>3 DEF TargetProofTimesOut, CInv, Ordered, RequestFresh, ReplyBehind, AnswerBehind
  <2> QED
    BY <2>1, <2>2, <2>3, SessionSteps
<1> QED
  BY <1>1, <1>2, SessionTypeCorrect, PTL DEF SessionSpec

(* A packet taken for the proof leaves the service what it is: what is     *)
(* sent back for it is never accepted as an answer.                        *)
THEOREM SessionImplementation ==
  ASSUME Authenticated
  PROVE  SessionSpec /\ []~short => ImplementsExchange
<1>1. SessionInit => E!ExchangeInit
  BY DEF SessionInit, Init, E!ExchangeInit
<1>2. CInv /\ ~short' /\ [SessionNext]_svars => [E!ExchangeNext]_(E!evars)
  <2> SUFFICES ASSUME CInv, ~short', [SessionNext]_svars
               PROVE  [E!ExchangeNext]_(E!evars)
    OBVIOUS
  <2>1. CASE [Next]_vars
    BY <2>1, ExchangeStep
  <2>2. CASE TargetTakesProof \/ TargetProofTimesOut
    BY <2>2 DEF TargetTakesProof, TargetProofTimesOut, E!evars
  <2> QED
    BY <2>1, <2>2, SessionSteps
<1> QED
  BY <1>1, <1>2, SessionCInvAlways, PTL DEF SessionSpec, ImplementsExchange, E!ExchangeSpec

(* Nor does it put the contexts out of step where both sides succeed.      *)
THEOREM SessionContextsAgree ==
  ASSUME Authenticated
  PROVE  SessionSpec /\ []~short => []AgreeOnSuccess
<1>1. SessionInit => PacketsInStep /\ AgreeOnSuccess
  BY DEF SessionInit, Init, PacketsInStep, AgreeOnSuccess, InStep
<1>2. /\ CInv /\ CInv' /\ PacketsInStep /\ AgreeOnSuccess /\ ~short' /\ [SessionNext]_svars
      => PacketsInStep' /\ AgreeOnSuccess'
  <2> SUFFICES ASSUME CInv, CInv', PacketsInStep, AgreeOnSuccess, ~short', [SessionNext]_svars
               PROVE  PacketsInStep' /\ AgreeOnSuccess'
    OBVIOUS
  <2>1. CASE [Next]_vars
    BY <2>1, AgreeStep
  <2>2. CASE TargetTakesProof
    <3>1. toTar' = NULL /\ (toIni' = toIni \/ ~toIni'.intact)
      BY <2>2, ProofTaken DEF CInv
    <3> QED
      BY <2>2, <3>1 DEF TargetTakesProof, PacketsInStep, AgreeOnSuccess, InStep, Follows
  <2>3. CASE TargetProofTimesOut
    BY <2>3 DEF TargetProofTimesOut, PacketsInStep, AgreeOnSuccess, InStep, Follows
  <2> QED
    BY <2>1, <2>2, <2>3, SessionSteps
<1> QED
  BY <1>1, <1>2, SessionCInvAlways, PTL DEF SessionSpec

(* And a receiver behind by no more than sync_iv advances catches up, with *)
(* any cipher.                                                             *)
THEOREM SessionCatchUp ==
  ASSUME MAX_IV_SYNC_ATTEMPTS < CheckRange
  PROVE  SessionSpec /\ []~short => CatchesUp
<1>1. SessionInit => Stamped
  BY DEF SessionInit, Init, Stamped
<1>2. TypeOK /\ Stamped /\ [SessionNext]_svars => Stamped'
  <2> SUFFICES ASSUME TypeOK, Stamped, [SessionNext]_svars
               PROVE  Stamped'
    OBVIOUS
  <2>1. CASE [Next]_vars
    BY <2>1, StampedStep
  <2>2. CASE TargetTakesProof
    BY <2>2, ProofTaken DEF Stamped
  <2>3. CASE TargetProofTimesOut
    BY <2>3 DEF TargetProofTimesOut, Stamped
  <2> QED
    BY <2>1, <2>2, <2>3, SessionSteps
<1>3. TypeOK /\ Stamped /\ ~short' =>
        /\ TargetReceive /\ InReach(tar, toTar) => tPc' = "replying"
        /\ InitiatorReceive /\ InReach(ini, toIni) => got' = toIni.payload
  BY CatchStep
<1> QED
  BY <1>1, <1>2, <1>3, SessionTypeCorrect, PTL DEF SessionSpec, CatchesUp

=============================================================================
