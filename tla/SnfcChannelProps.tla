-------------------------- MODULE SnfcChannelProps --------------------------
(***************************************************************************)
(* What must be true of an established secure-NFC session.                 *)
(***************************************************************************)
EXTENDS SnfcChannel

Context == [seq_n : Nat, iv : Nat]

(* Types of all variables. *)
TypeOK ==
  /\ ini \in Context /\ tar \in Context
  /\ toTar \in Packet \cup {NULL} /\ toIni \in Packet \cup {NULL}
  /\ iPc \in {"idle", "waiting", "stopped"}
  /\ tPc \in {"receiving", "replying", "stopped"}
  /\ asked \in 0 .. MaxRequests /\ heard \in 0 .. asked /\ got \in 0 .. asked
  /\ used \subseteq Nat /\ short \in BOOLEAN

(* With an authenticated cipher the session is, as long as there is        *)
(* memory, the service of Exchange: a request is delivered at most         *)
(* once, and an answer is only ever accepted for the request being made,   *)
(* late and garbled packets and both sides' retries notwithstanding.       *)
E == INSTANCE Exchange
ImplementsExchange == E!ExchangeSpec

(* The counters two accepting sides rely on: equal IVs, and sequence       *)
(* numbers that agree in the byte a packet carries.                        *)
InStep == ini.iv = tar.iv /\ ini.seq_n % SeqRange = tar.seq_n % SeqRange

(* Whatever went wrong before, a delivered request or an accepted answer   *)
(* leaves both contexts equal.  It fails if process_snfc_packet and        *)
(* create_snfc_packet do not advance the same counters by the same amount. *)
AgreeOnSuccess ==
  /\ tPc = "replying" /\ heard = asked /\ iPc = "waiting" => InStep
  /\ tPc = "receiving" /\ iPc = "idle" /\ got = asked => InStep

(* Both directions share one key and one IV counter.  As long as the       *)
(* applications give up at the first error, as the payment client and      *)
(* server do, and memory has not run out, which create_next_iv may report  *)
(* as a success, no two packets of a session are made with the same IV.    *)
IvUsedOnce ==
  [][/\ ~short /\ InitiatorSend => ini.iv \notin used
     /\ ~short /\ (TargetSend \/ TargetSendUnheard) => tar.iv \notin used]_vars

(* An intact packet with the expected number is refused only when its IV   *)
(* is out of sync_iv's reach: the receiver can be behind by up to          *)
(* MAX_IV_SYNC_ATTEMPTS garbled packets and still catch up.                *)
InReach(ctx, p) ==
  p.intact /\ p.seq_n = ctx.seq_n /\ p.iv - ctx.iv \in 0 .. MAX_IV_SYNC_ATTEMPTS

CatchesUp ==
  [][/\ TargetReceive /\ InReach(tar, toTar) => tPc' = "replying"
     /\ InitiatorReceive /\ InReach(ini, toIni) => got' = toIni.payload]_vars

-----------------------------------------------------------------------------
(* What the types rest on: packets carry numbers that were asked for.      *)
CarriesAsked ==
  /\ toTar # NULL => toTar.payload <= asked
  /\ toIni # NULL => toIni.payload <= asked

(* The inductive invariant of a session with an authenticated cipher,      *)
(* while there is memory: how the packets on the air relate to what was    *)
(* asked, heard and accepted.                                              *)

Ordered ==
  /\ got <= heard
  /\ iPc = "waiting" => got < asked
  /\ tPc = "replying" => got < heard

(* A request on the air was not heard yet, and its number is behind the    *)
(* initiator's.                                                            *)
RequestFresh ==
  toTar # NULL =>
    /\ toTar.payload \in heard + 1 .. asked
    /\ iPc = "waiting" => toTar.payload = asked
    /\ toTar.intact => toTar.seq_n < ini.seq_n

(* An answer, made or about to be made, to an earlier question has a       *)
(* number behind the one the initiator waits for.  What is not intact is   *)
(* no answer: it is never accepted.                                        *)
ReplyBehind ==
  tPc = "replying" =>
    /\ tar.seq_n <= ini.seq_n
    /\ iPc = "waiting" /\ heard < asked => tar.seq_n < ini.seq_n

AnswerBehind ==
  toIni # NULL /\ toIni.intact =>
    /\ toIni.payload \in 1 .. heard
    /\ tPc = "replying" => toIni.payload < heard
    /\ toIni.seq_n <= ini.seq_n
    /\ iPc = "waiting" /\ toIni.payload < asked => toIni.seq_n < ini.seq_n

CInv == TypeOK /\ Ordered /\ RequestFresh /\ ReplyBehind /\ AnswerBehind

(* What a receiver of the current request or answer will be in step with.  *)
Follows(p, ctx) ==
  ctx.iv = p.iv + 1 /\ (p.intact => (p.seq_n + 1) % SeqRange = ctx.seq_n % SeqRange)

PacketsInStep ==
  /\ iPc = "waiting" /\ toTar # NULL => Follows(toTar, ini)
  /\ iPc = "waiting" /\ toIni # NULL /\ toIni.intact /\ toIni.payload = asked
     => Follows(toIni, tar)

-----------------------------------------------------------------------------
(* The inductive invariant of applications that stop at the first error,   *)
(* while there is memory: one packet, or one side about to make one,       *)
(* carries the newest IV.                                                  *)

UsedUpTo(iv) == \A u \in used : u <= iv

QuietWhenIdle ==
  iPc = "idle" =>
    /\ toTar = NULL /\ toIni = NULL /\ tPc # "replying"
    /\ UsedUpTo(ini.iv - 1)
    /\ tPc = "receiving" => tar.iv = ini.iv

RequestNewest ==
  toTar # NULL =>
    /\ toIni = NULL /\ tPc # "replying"
    /\ UsedUpTo(toTar.iv)
    /\ tPc = "receiving" => tar.iv = toTar.iv
    /\ iPc = "waiting" => ini.iv = toTar.iv + 1

ReplyNext ==
  tPc = "replying" =>
    /\ toIni = NULL
    /\ UsedUpTo(tar.iv - 1)
    /\ iPc = "waiting" => ini.iv = tar.iv

AnswerNewest ==
  toIni # NULL =>
    /\ UsedUpTo(toIni.iv)
    /\ tPc = "receiving" => tar.iv = toIni.iv + 1
    /\ iPc = "waiting" => ini.iv = toIni.iv

IvInv == QuietWhenIdle /\ RequestNewest /\ ReplyNext /\ AnswerNewest

=============================================================================
