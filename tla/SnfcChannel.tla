---------------------------- MODULE SnfcChannel -----------------------------
(***************************************************************************)
(* An established secure-NFC session: the packets of                       *)
(* secure_nfc/ta/snfc_ta_communication.c and the calls of                  *)
(* secure_nfc/host/snfc.c that carry them.  The initiator transceives, the *)
(* target receives and sends back; each side's TA keeps a sequence number  *)
(* and an IV that serve both directions, so the two sides stay usable only *)
(* while both numbers advance together.                                    *)
(*                                                                         *)
(* The n-th request carries the number n and the target sends back what it *)
(* received (as evaluator_target.c does), so that an answer names the      *)
(* request it answers.  IVs are counted from the one both sides derived in *)
(* the handshake; only their last byte travels in a packet.                *)
(***************************************************************************)
EXTENDS Integers, FiniteSets

CONSTANTS
  SeqRange,              \* values of the packet's uint8_t seq_n (256)
  CheckRange,            \* values of the IV's last byte (256)
  MAX_IV_SYNC_ATTEMPTS,  \* 10 in the code
  Authenticated,         \* whether the cipher is AES-GCM, not CTR or XTS
  Faults,                \* what may go wrong: timeout, loss, garble, alloc
  Retries,               \* whether the applications go on after a failed call
  MaxRequests,           \* bound on the requests of a session
  NULL                   \* no packet

ASSUME RangeAssumption ==
  /\ SeqRange \in Nat \ {0} /\ CheckRange \in Nat \ {0}
  /\ MAX_IV_SYNC_ATTEMPTS \in Nat \ {0}
ASSUME FaultsAssumption == Faults \subseteq {"timeout", "loss", "garble", "alloc"}
ASSUME FlagsAssumption == Authenticated \in BOOLEAN /\ Retries \in BOOLEAN
ASSUME BoundAssumption == MaxRequests \in Nat

(* A packet: the two header bytes, and of its ciphertext the IV it was     *)
(* made with and the number it carries; intact is whether the integrity    *)
(* check value still matches.                                              *)
Packet == [seq_n : 0 .. SeqRange - 1, iv_check_value : 0 .. CheckRange - 1,
           iv : Nat, payload : Nat, intact : BOOLEAN]

ASSUME NullPacketAssumption == NULL \notin Packet

(* The plaintext that decrypting with another IV yields. *)
GARBAGE == 0

VARIABLES
  ini, tar,       \* the two security contexts: [seq_n, iv]
  toTar, toIni,   \* the packet on the air in each direction
  iPc,            \* initiator: idle, waiting (in transceive), stopped
  tPc,            \* target: receiving, replying, stopped
  asked,          \* number of the last request the initiator made
  heard,          \* what the target's application last received
  got,            \* the last answer the initiator's application accepted
  used,           \* history: the IVs packets were made with
  short           \* history: whether memory ran out

vars == <<ini, tar, toTar, toIni, iPc, tPc, asked, heard, got, used, short>>

Init ==
  /\ ini = [seq_n |-> 0, iv |-> 0] /\ tar = [seq_n |-> 0, iv |-> 0]
  /\ toTar = NULL /\ toIni = NULL
  /\ iPc = "idle" /\ tPc = "receiving"
  /\ asked = 0 /\ heard = 0 /\ got = 0
  /\ used = {} /\ short = FALSE

-----------------------------------------------------------------------------
(* create_next_iv.  It fails when its first allocation does; when a later  *)
(* one does it reports success and leaves the IV as it is.                 *)

NextIv(iv) ==
  {[iv |-> iv + 1, ok |-> TRUE, short |-> FALSE]}
    \cup (IF "alloc" \in Faults
          THEN {[iv |-> iv, ok |-> ok, short |-> TRUE] : ok \in BOOLEAN}
          ELSE {})

-----------------------------------------------------------------------------
(* create_snfc_packet.                                                     *)

\* Wrong variants: the number is not cut down to a byte, or to seven bits.
NewPacketWide(ctx, n) ==
  [seq_n |-> ctx.seq_n, iv_check_value |-> ctx.iv % CheckRange,
   iv |-> ctx.iv, payload |-> n, intact |-> TRUE]
NewPacketSigned(ctx, n) ==
  [seq_n |-> ctx.seq_n % (SeqRange \div 2), iv_check_value |-> ctx.iv % CheckRange,
   iv |-> ctx.iv, payload |-> n, intact |-> TRUE]

NewPacket(ctx, n) ==
  [seq_n |-> ctx.seq_n % SeqRange, iv_check_value |-> ctx.iv % CheckRange,
   iv |-> ctx.iv, payload |-> n, intact |-> TRUE]

\* Wrong variant: the IV is not advanced after a packet was made.
AfterCreateSameIv(ctx) == [seq_n |-> ctx.seq_n + 1, iv |-> ctx.iv]

AfterCreate(ctx) == [seq_n |-> ctx.seq_n + 1, iv |-> ctx.iv + 1]

(* Without memory for the integrity check value the packet goes out with   *)
(* neither header nor check value, as a success.                           *)
UnsignedPacket(ctx, n) ==
  [seq_n |-> 0, iv_check_value |-> 0, iv |-> ctx.iv, payload |-> n, intact |-> FALSE]

CreateOutcomes(ctx, n) ==
  {[ctx |-> AfterCreate(ctx), packet |-> NewPacket(ctx, n), short |-> FALSE]}
    \cup (IF "alloc" \in Faults
          THEN {[ctx |-> ctx, packet |-> UnsignedPacket(ctx, n), short |-> TRUE]}
                 \cup {[ctx |-> [seq_n |-> ctx.seq_n + 1, iv |-> next.iv],
                        packet |-> NewPacket(ctx, n), short |-> TRUE] :
                       next \in {x \in NextIv(ctx.iv) : x.short /\ x.ok}}
          ELSE {})

(* What a call that makes a packet and does not send it leaves: nothing    *)
(* changed without memory for the packet or the cipher, the number but not *)
(* the IV advanced when create_next_iv failed, both when the host has no   *)
(* memory for the answer.                                                  *)
AfterFailedCreate(ctx) == {ctx, [seq_n |-> ctx.seq_n + 1, iv |-> ctx.iv], AfterCreate(ctx)}

-----------------------------------------------------------------------------
(* process_snfc_packet.                                                    *)

\* Wrong variant: the IV is advanced before it is compared.
SyncMatchesLate(iv, check) ==
  {a \in 1 .. MAX_IV_SYNC_ATTEMPTS : (iv + a) % CheckRange = check}

SyncMatches(iv, check) ==
  {a \in 0 .. MAX_IV_SYNC_ATTEMPTS : (iv + a) % CheckRange = check}

(* How many increments the loop of sync_iv makes: until the IV ends in the *)
(* packet's check byte, or all it may.  In either case the last increment  *)
(* succeeded, and so does sync_iv.                                         *)
SyncSteps(iv, check) ==
  {a \in SyncMatches(iv, check) \cup {MAX_IV_SYNC_ATTEMPTS} :
     \A b \in SyncMatches(iv, check) : a <= b}

(* Attempts that find no memory bring the loop less far; the result of     *)
(* sync_iv is that of the last one, and may be a success (NextIv).         *)
SyncStepsCutShort(iv, check) ==
  {a \in 0 .. MAX_IV_SYNC_ATTEMPTS - 1 : \A b \in SyncSteps(iv, check) : a < b}

SyncOutcomes(iv, check) ==
  {[iv |-> iv + a, ok |-> TRUE, short |-> FALSE] : a \in SyncSteps(iv, check)}
    \cup (IF "alloc" \in Faults
          THEN {[iv |-> iv + a, ok |-> ok, short |-> TRUE] :
                  a \in SyncStepsCutShort(iv, check), ok \in BOOLEAN}
          ELSE {})

Refused(ctx, starved) == [ctx |-> ctx, ok |-> FALSE, payload |-> GARBAGE, short |-> starved]
Accepted(ctx, n, starved) == [ctx |-> ctx, ok |-> TRUE, payload |-> n, short |-> starved]

(* Decryption with the synchronised IV, and the step to the next IV. *)

Plaintext(ctx, p) == IF ctx.iv = p.iv THEN p.payload ELSE GARBAGE

\* Wrong variant: the IV stays where the packet's was.
DecryptOutcomesSameIv(ctx, p, starved) ==
  {IF ctx.iv = p.iv THEN Accepted(ctx, p.payload, starved) ELSE Refused(ctx, starved)}

\* Wrong variant: the authentication tag is not looked at.
DecryptOutcomesUnchecked(ctx, p, starved) ==
  {Accepted([ctx EXCEPT !.iv = @ + 1], Plaintext(ctx, p), starved)}

DecryptOutcomes(ctx, p, starved) ==
  IF ctx.iv # p.iv /\ Authenticated THEN {Refused(ctx, starved)}
  ELSE {IF next.ok
        THEN Accepted([ctx EXCEPT !.iv = next.iv], Plaintext(ctx, p), starved \/ next.short)
        ELSE Refused(ctx, TRUE) : next \in NextIv(ctx.iv)}

ProcessOutcomes(ctx, p) ==
  LET next == [ctx EXCEPT !.seq_n = @ + 1]
  IN  IF p.seq_n # ctx.seq_n THEN {Refused(ctx, FALSE)}
      ELSE IF ~p.intact THEN {Refused(next, FALSE)}
      ELSE UNION {IF s.ok THEN DecryptOutcomes([next EXCEPT !.iv = s.iv], p, s.short)
                  ELSE {Refused([next EXCEPT !.iv = s.iv], TRUE)} :
                  s \in SyncOutcomes(ctx.iv, p.iv_check_value)}

-----------------------------------------------------------------------------
(* The initiator: snfc_initiator_transceive.                               *)

InitiatorGivesUp == iPc' = IF Retries THEN "idle" ELSE "stopped"

InitiatorSend ==
  /\ iPc = "idle" /\ asked < MaxRequests
  /\ asked' = asked + 1
  /\ \E out \in CreateOutcomes(ini, asked + 1) :
       toTar' = out.packet /\ ini' = out.ctx /\ short' = (short \/ out.short)
  /\ used' = used \cup {ini.iv}
  /\ iPc' = "waiting"
  /\ UNCHANGED <<tar, toIni, tPc, heard, got>>

InitiatorSendFails ==
  /\ "alloc" \in Faults
  /\ iPc = "idle" /\ asked < MaxRequests
  /\ asked' = asked + 1
  /\ ini' \in AfterFailedCreate(ini)
  /\ short' = TRUE
  /\ InitiatorGivesUp
  /\ UNCHANGED <<tar, toTar, toIni, tPc, heard, got, used>>

InitiatorReceive ==
  /\ iPc = "waiting" /\ toIni # NULL
  /\ toIni' = NULL
  /\ \E out \in ProcessOutcomes(ini, toIni) :
       /\ ini' = out.ctx /\ short' = (short \/ out.short)
       /\ IF out.ok THEN got' = out.payload /\ iPc' = "idle"
                    ELSE InitiatorGivesUp /\ UNCHANGED got
  /\ UNCHANGED <<tar, toTar, tPc, asked, heard, used>>

(* The transceive's timeout.  What is on the air stays there: the target   *)
(* may still read the request, and its late answer may be what the next    *)
(* transceive reads.                                                       *)
InitiatorTimeout ==
  /\ "timeout" \in Faults
  /\ iPc = "waiting"
  /\ InitiatorGivesUp
  /\ UNCHANGED <<ini, tar, toTar, toIni, tPc, asked, heard, got, used, short>>

-----------------------------------------------------------------------------
(* The target: snfc_target_receive and snfc_target_send.                   *)

TargetGivesUp == tPc' = IF Retries THEN "receiving" ELSE "stopped"

TargetReceive ==
  /\ tPc = "receiving" /\ toTar # NULL
  /\ toTar' = NULL
  /\ \E out \in ProcessOutcomes(tar, toTar) :
       /\ tar' = out.ctx /\ short' = (short \/ out.short)
       /\ IF out.ok THEN heard' = out.payload /\ tPc' = "replying"
                    ELSE TargetGivesUp /\ UNCHANGED heard
  /\ UNCHANGED <<ini, toIni, iPc, asked, got, used>>

(* The receive's timeout, or no memory for the packet. *)
TargetTimeout ==
  /\ Faults \cap {"timeout", "alloc"} # {}
  /\ tPc = "receiving"
  /\ TargetGivesUp
  /\ UNCHANGED <<ini, tar, toTar, toIni, iPc, asked, heard, got, used, short>>

TargetSend ==
  /\ tPc = "replying"
  /\ \E out \in CreateOutcomes(tar, heard) :
       toIni' = out.packet /\ tar' = out.ctx /\ short' = (short \/ out.short)
  /\ used' = used \cup {tar.iv}
  /\ tPc' = "receiving"
  /\ UNCHANGED <<ini, toTar, iPc, asked, heard, got>>

TargetSendFails ==
  /\ "alloc" \in Faults
  /\ tPc = "replying"
  /\ tar' \in AfterFailedCreate(tar)
  /\ short' = TRUE
  /\ TargetGivesUp
  /\ UNCHANGED <<ini, toTar, toIni, iPc, asked, heard, got, used>>

(* The packet is made, but nfc_target_send_bytes reports that the          *)
(* initiator did not take it.                                              *)
TargetSendUnheard ==
  /\ "loss" \in Faults
  /\ tPc = "replying"
  /\ used' = used \cup {tar.iv}
  /\ \E out \in CreateOutcomes(tar, heard) : tar' = out.ctx /\ short' = (short \/ out.short)
  /\ TargetGivesUp
  /\ UNCHANGED <<ini, toTar, toIni, iPc, asked, heard, got>>

-----------------------------------------------------------------------------
(* The air.                                                                *)

Lose ==
  /\ "loss" \in Faults
  /\ \/ toTar # NULL /\ toTar' = NULL /\ UNCHANGED toIni
     \/ toIni # NULL /\ toIni' = NULL /\ UNCHANGED toTar
  /\ UNCHANGED <<ini, tar, iPc, tPc, asked, heard, got, used, short>>

Garbled(p) == {[p EXCEPT !.seq_n = s, !.intact = FALSE] : s \in 0 .. SeqRange - 1}

Garble ==
  /\ "garble" \in Faults
  /\ \/ toTar # NULL /\ toTar.intact /\ toTar' \in Garbled(toTar) /\ UNCHANGED toIni
     \/ toIni # NULL /\ toIni.intact /\ toIni' \in Garbled(toIni) /\ UNCHANGED toTar
  /\ UNCHANGED <<ini, tar, iPc, tPc, asked, heard, got, used, short>>

-----------------------------------------------------------------------------
Initiator == InitiatorSend \/ InitiatorSendFails \/ InitiatorReceive \/ InitiatorTimeout
Target ==
  TargetReceive \/ TargetTimeout \/ TargetSend \/ TargetSendFails \/ TargetSendUnheard
Next == Initiator \/ Target \/ Lose \/ Garble

Spec == Init /\ [][Next]_vars

=============================================================================
