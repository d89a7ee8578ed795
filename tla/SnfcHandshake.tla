---------------------------- MODULE SnfcHandshake ----------------------------
(***************************************************************************)
(* How a secure-NFC session comes about: the handshake of snfc_start on    *)
(* both devices (secure_nfc/host/snfc.c) and the commands of the trusted   *)
(* application they call (snfc_ta_handshake.c, snfc_ta_authentication.c).  *)
(* Each device has one instance of the TA with one security context, which *)
(* outlives a handshake: the next one is done over what the last one left. *)
(*                                                                         *)
(* A key is named by the device that made it and the number of the start;  *)
(* a shared secret is the pair of keys it was derived from.  Both devices  *)
(* carry the same certificate, compiled in.  A call of the TA is a set of  *)
(* outcomes, with more than one where an allocation may fail.              *)
(***************************************************************************)
EXTENDS Naturals

CONSTANTS
  Spis,        \* security associations in use
  AuthFlags,   \* values of the flags argument, TRUE for non-zero
  Faults,      \* what may go wrong: "loss", "garble", "timeout", "alloc"
  Closes,      \* whether programs call snfc_security_context_close
  MaxStarts,   \* bound: how often the initiator starts a session
  NULL,
  NOISE        \* what a garbled field of a message holds

ASSUME FaultsAssumption == Faults \subseteq {"loss", "garble", "timeout", "alloc"}
ASSUME FlagsAssumption == AuthFlags \subseteq BOOLEAN /\ Closes \in BOOLEAN

VARIABLES
  ctx,      \* the security_context of each device
  iPc,      \* initiator: idle, reply (awaited), ack (awaited), started, failed,
            \* closed
  tPc,      \* target: listening, request, proof (awaited), started, failed,
            \* closed
  auth,     \* the flags the initiator started with, FALSE between starts
  linked,   \* whether the radio link of this start is up
  toTar, toIni,  \* the message on the air in each direction
  starts,   \* number of the current start
  damage,   \* history: what happened to this start: lost, garbled, early,
            \* failed (a command refused), short (of memory)
  proved    \* history: the devices that verified their peer in this start

vars == <<ctx, iPc, tPc, auth, linked, toTar, toIni, starts, damage, proved>>

Sides == {"ini", "tar"}
Pointers == {"ecdh_key", "encrypt_handle", "decrypt_handle", "mac_handle", "iv", "peer_pub_key"}
Ciphers == {"encrypt_handle", "decrypt_handle", "mac_handle"}

(* The keys of each device's starts; what a message may carry for one, and *)
(* the secrets keys are derived from.                                      *)
Keys == Sides \X (1 .. MaxStarts)
Values == Keys \cup {NOISE, NULL}
Secrets == [keys : SUBSET (Keys \cup {NOISE}), sa : Spis]

ASSUME StartsAssumption == MaxStarts \in Nat
ASSUME NullAssumption ==
  /\ NULL \notin Spis \cup Keys \cup Secrets \cup [type : {"proof"}, proof : Values]
  /\ NULL \notin {NOISE, "certificate"} /\ NOISE \notin Keys \cup {"certificate"}

(* held: what each pointer of the struct points to.  session and iv: what  *)
(* the handles are keyed with and the IV was computed from.                *)
NoContext ==
  [sa |-> NULL, own |-> NULL, session |-> NULL, iv |-> NULL, seq_n |-> 0, peer |-> FALSE,
   held |-> [p \in Pointers |-> "null"], alive |-> TRUE]

NoMemory == "alloc" \in Faults

Init ==
  /\ ctx = [s \in Sides |-> NoContext]
  /\ iPc = "idle" /\ tPc = "listening" /\ auth = FALSE /\ linked = FALSE
  /\ toTar = NULL /\ toIni = NULL
  /\ starts = 0 /\ damage = {} /\ proved = {}

-----------------------------------------------------------------------------
(* The parts of the TA's commands.                                         *)

(* The context it leaves, the result it reports, whether memory ran out    *)
(* and, of a command asked for a proof, whether it wrote one.              *)
Done(c) == [ctx |-> c, ok |-> TRUE, short |-> FALSE, signed |-> TRUE]
Failed(c) == [Done(c) EXCEPT !.ok = FALSE]
IfNoMemory(S) == IF NoMemory THEN {[o EXCEPT !.short = TRUE] : o \in S} ELSE {}
Blame(o) == IF o.short THEN {"short"} ELSE IF o.ok THEN {} ELSE {"failed"}

(* The calls of Then follow where those of S succeeded. *)
Then(S, Op(_)) ==
  UNION {IF o.ok THEN {[e EXCEPT !.short = @ \/ o.short] : e \in Op(o.ctx)} ELSE {o} : o \in S}

Holding(c, ps) == [c EXCEPT !.held = [p \in Pointers |-> IF p \in ps THEN "live" ELSE @[p]]]
Freed(c, ps) == [c EXCEPT !.held = [p \in Pointers |-> IF p \in ps THEN "freed" ELSE @[p]]]

(* A TA that panicked answers TEE_ERROR_TARGET_DEAD from then on. *)
Panicked == [NoContext EXCEPT !.alive = FALSE]

(* create_ecdh_key may fail before or after it has the object. *)
create_ecdh_key(c, key) ==
  {Done(Holding([c EXCEPT !.own = key], {"ecdh_key"}))}
  \cup IfNoMemory({Failed(c), Failed(Holding([c EXCEPT !.own = NULL], {"ecdh_key"}))})

set_security_parameters(c, key, spi) == create_ecdh_key([c EXCEPT !.sa = spi], key)

\* Wrong variant: the IV is computed when its buffer is allocated.
iv_initOnce(c, kep) ==
  {Done(IF c.held["iv"] = "null" THEN Holding([c EXCEPT !.iv = kep], {"iv"}) ELSE c)}

(* The buffer is allocated once and kept, whoever may have freed it. *)
iv_init(c, kep) ==
  LET d == IF c.held["iv"] = "null" THEN Holding(c, {"iv"}) ELSE c
  IN  {Done([d EXCEPT !.iv = kep])} \cup IfNoMemory({Failed(c), Failed(d)})

(* security_context_init frees what it has allocated when it fails, and    *)
(* leaves the pointers.                                                    *)
security_context_init(c, secret) ==
  {Done(Holding([c EXCEPT !.session = secret, !.seq_n = 0], Ciphers))}
  \cup IfNoMemory({Failed(c),
                   Failed(Freed([c EXCEPT !.session = NULL], {"encrypt_handle"})),
                   Failed(Freed([c EXCEPT !.session = NULL], {"encrypt_handle", "decrypt_handle"}))})

(* The session keys: cut out of the secret both values yield, by the sizes *)
(* of the security association.                                            *)
derive_session_keys(c, kep) == [keys |-> {c.own, kep}, sa |-> c.sa]

(* A value that is not on the curve makes TEE_DeriveKey panic.  Without    *)
(* memory for its digest derive_session_keys succeeds with key handles     *)
(* nobody set: the TEE panics, or takes a null handle for no key at all.   *)
process_key_exchange(c, kep) ==
  security_context_init(c, derive_session_keys(c, kep))
  \cup (IF kep = NOISE THEN {Failed(Panicked)} ELSE {})
  \cup IfNoMemory({Failed(Panicked)} \cup security_context_init(c, NULL))

(* The compiled-in public key and its signature. *)
create_authentication_id == "certificate"

(* The TEE panics when it is to write to a buffer nobody got. *)
OutOfMemory(c) == IfNoMemory({Failed(c), Failed(Panicked)})

(* The received key is compared with the compiled-in signature: only the   *)
(* key both devices carry passes.                                          *)
process_authentication_id(c, id) ==
  IF id = create_authentication_id
  THEN {Done(Holding([c EXCEPT !.peer = TRUE], {"peer_pub_key"}))} \cup OutOfMemory(c)
  ELSE {Failed(c)}

(* Without memory for the signature it succeeds and writes none. *)
create_authentication_proof(c) ==
  {Done(c)} \cup IfNoMemory({Failed(c), [Done(c) EXCEPT !.signed = FALSE]})

(* The peer's signature must be over the key exchange value this device sent. *)
process_authentication_proof(c, proof) ==
  (IF c.peer /\ proof # NULL /\ proof = c.own THEN {Done(c)} ELSE {Failed(c)})
  \cup OutOfMemory(c)

-----------------------------------------------------------------------------
(* The commands.                                                           *)

Command(c, outcomes) == IF c.alive THEN outcomes ELSE {Failed(c)}

create_handshake_request(c) == iv_init(c, c.own)

process_handshake_request(c, m, key) ==
  Then(set_security_parameters(c, key, m.spi), LAMBDA c1 :
  Then(process_key_exchange(c1, m.kep), LAMBDA c2 :
  Then(iv_init(c2, m.kep), LAMBDA c3 :
    IF m.flags THEN Then(process_authentication_id(c3, m.id), create_authentication_proof)
    ELSE {Done(c3)})))

process_handshake_reply(c, m) ==
  Then(process_key_exchange(c, m.kep), LAMBDA c1 :
    IF auth THEN Then(process_authentication_id(c1, m.id), LAMBDA c2 :
                 Then(process_authentication_proof(c2, m.proof), create_authentication_proof))
    ELSE {Done(c1)})

(* security_context_close frees what the pointers point to and keeps them. *)
NonNull(c) == {p \in Pointers : c.held[p] # "null"}
security_context_close(c) == Freed([c EXCEPT !.session = NULL, !.seq_n = 0], NonNull(c))

-----------------------------------------------------------------------------
(* The messages.                                                           *)

Request(spi, flag, key) ==
  [type |-> "request", spi |-> spi, flags |-> flag, kep |-> key,
   id |-> IF flag THEN create_authentication_id ELSE NULL]

\* Wrong variant: the target signs the value it sends itself.
ReplyOwnProof(key, m, signed) ==
  [type |-> "reply", kep |-> key, id |-> IF m.flags THEN create_authentication_id ELSE NULL,
   proof |-> IF m.flags /\ signed THEN key ELSE NULL]

(* The reply to m: the target's value, and a signature over the one received. *)
Reply(key, m, signed) ==
  [type |-> "reply", kep |-> key, id |-> IF m.flags THEN create_authentication_id ELSE NULL,
   proof |-> IF m.flags /\ signed THEN m.kep ELSE NULL]

Proof(p) == [type |-> "proof", proof |-> p]
Ack == [type |-> "ack"]         \* ten bytes of whatever was received
Packet == [type |-> "packet", proof |-> NULL]

Quiet == toIni = NULL /\ (toTar = NULL \/ tPc \notin {"request", "proof"})

-----------------------------------------------------------------------------
(* The initiator: snfc_initiator_start and the programs around it.         *)

(* nfc_initiator_select_dep_target finds the target in nfc_target_init;    *)
(* initiator_handshake up to its first transceive.                         *)
InitiatorStarts(flag, spi) ==
  /\ iPc = "idle" /\ tPc = "listening" /\ starts < MaxStarts
  /\ starts' = starts + 1 /\ auth' = flag /\ linked' = TRUE /\ tPc' = "request"
  /\ proved' = {} /\ toIni' = NULL
  /\ LET key == <<"ini", starts + 1>>
     IN \E o \in Command(ctx["ini"],
                         Then(set_security_parameters(ctx["ini"], key, spi),
                              create_handshake_request)) :
          /\ ctx' = [ctx EXCEPT !["ini"] = o.ctx]
          /\ damage' = Blame(o)
          /\ IF o.ok THEN iPc' = "reply" /\ toTar' = Request(spi, flag, key)
             ELSE iPc' = "failed" /\ toTar' = NULL

(* With authentication the result of process_handshake_reply is replaced   *)
(* by that of the second transceive, made in any case.                     *)
InitiatorProves ==
  /\ iPc = "reply" /\ toIni # NULL
  /\ \E o \in Command(ctx["ini"], process_handshake_reply(ctx["ini"], toIni)) :
       /\ ctx' = [ctx EXCEPT !["ini"] = o.ctx]
       /\ damage' = damage \cup Blame(o)
       /\ proved' = IF o.ok /\ auth THEN proved \cup {"ini"} ELSE proved
       /\ IF auth THEN iPc' = "ack" /\ toTar' = Proof(IF o.ok /\ o.signed THEN toIni.kep ELSE NULL)
          ELSE iPc' = (IF o.ok THEN "started" ELSE "failed") /\ UNCHANGED toTar
  /\ toIni' = NULL
  /\ UNCHANGED <<tPc, auth, linked, starts>>

InitiatorAcked ==
  /\ iPc = "ack" /\ toIni # NULL
  /\ iPc' = "started" /\ toIni' = NULL
  /\ UNCHANGED <<ctx, tPc, auth, linked, toTar, starts, damage, proved>>

(* A transceive gives up, perhaps early.  Waiting for the acknowledgement  *)
(* it may also fail for another reason than time.                          *)
InitiatorTimesOut ==
  /\ iPc \in {"reply", "ack"}
  /\ \/ Quiet /\ UNCHANGED damage
     \/ "timeout" \in Faults /\ damage' = damage \cup {"early"}
  /\ iPc' \in IF iPc = "reply" THEN {"failed"} ELSE {"started", "failed"}
  /\ UNCHANGED <<ctx, tPc, auth, linked, toTar, toIni, starts, proved>>

(* The application's first packet, for what it may be taken for. *)
InitiatorSends ==
  /\ iPc = "started" /\ linked /\ toTar = NULL
  /\ ctx["ini"].session # NULL /\ ctx["ini"].seq_n = 0
  /\ toTar' = Packet /\ ctx' = [ctx EXCEPT !["ini"].seq_n = 1]
  /\ UNCHANGED <<iPc, tPc, auth, linked, toIni, starts, damage, proved>>

\* Wrong variant: what is on the air stays there.
InitiatorStartsOverKeeps ==
  /\ iPc \in {"started", "closed"}
  /\ iPc' = "idle" /\ auth' = FALSE /\ linked' = FALSE /\ damage' = {} /\ proved' = {}
  /\ UNCHANGED <<ctx, tPc, toTar, toIni, starts>>

(* The end of a start: of its link, its messages and its history. *)
StartOver ==
  /\ iPc' = "idle" /\ auth' = FALSE /\ linked' = FALSE
  /\ toTar' = NULL /\ toIni' = NULL /\ damage' = {} /\ proved' = {}

(* evaluator_initiator starts anew in the same session of the TA.          *)
InitiatorStartsOver ==
  /\ iPc \in {"started", "closed"}
  /\ StartOver
  /\ UNCHANGED <<ctx, tPc, starts>>

(* The program ends, its session closes and TA_DestroyEntryPoint runs.     *)
InitiatorExits ==
  /\ iPc \in {"started", "failed", "closed"}
  /\ StartOver
  /\ ctx' = [ctx EXCEPT !["ini"] = NoContext]
  /\ UNCHANGED <<tPc, starts>>

-----------------------------------------------------------------------------
(* The target: snfc_target_start and the programs around it.               *)

\* Wrong variant: the target always waits for a proof.
NextWaitProof(m) == "proof"

NextWait(m) == IF m.flags THEN "proof" ELSE "started"

(* A send that is seen to fail fails the start. *)
TargetAnswers ==
  /\ tPc = "request" /\ toTar # NULL
  /\ LET key == <<"tar", starts>>
     IN \E o \in Command(ctx["tar"], process_handshake_request(ctx["tar"], toTar, key)) :
          /\ ctx' = [ctx EXCEPT !["tar"] = o.ctx]
          /\ \/ /\ o.ok /\ tPc' = NextWait(toTar) /\ toIni' = Reply(key, toTar, o.signed)
                /\ damage' = damage \cup Blame(o)
             \/ /\ o.ok /\ "loss" \in Faults /\ tPc' = "failed" /\ UNCHANGED toIni
                /\ damage' = damage \cup Blame(o) \cup {"lost"}
             \/ /\ ~o.ok /\ tPc' = "failed" /\ UNCHANGED toIni
                /\ damage' = damage \cup Blame(o)
  /\ toTar' = NULL
  /\ UNCHANGED <<iPc, auth, linked, starts, proved>>

(* Whatever arrives is acknowledged and taken for the proof; the start     *)
(* succeeds whether it is one or not.                                      *)
TargetConcludes ==
  /\ tPc = "proof" /\ toTar # NULL
  /\ \E o \in Command(ctx["tar"], process_authentication_proof(ctx["tar"], toTar.proof)) :
       /\ ctx' = [ctx EXCEPT !["tar"] = o.ctx]
       /\ damage' = damage \cup Blame(o)
       /\ proved' = IF o.ok THEN proved \cup {"tar"} ELSE proved
  /\ tPc' = "started" /\ toIni' = Ack /\ toTar' = NULL
  /\ UNCHANGED <<iPc, auth, linked, starts>>

(* Without the link a receive fails; evaluator_target starts anew.         *)
TargetStartsOver ==
  /\ tPc = "failed" \/ (~linked /\ tPc # "listening")
  /\ tPc' = "listening"
  /\ UNCHANGED <<ctx, iPc, auth, linked, toTar, toIni, starts, damage, proved>>

(* hce_server ends instead.                                                *)
TargetExits ==
  /\ tPc = "failed" \/ (~linked /\ tPc # "listening")
  /\ tPc' = "listening"
  /\ ctx' = [ctx EXCEPT !["tar"] = NoContext]
  /\ UNCHANGED <<iPc, auth, linked, toTar, toIni, starts, damage, proved>>

(* snfc_security_context_close, by the application of either device.       *)
CloseContext(s) ==
  /\ Closes /\ ctx[s].alive
  /\ IF s = "ini" THEN iPc = "started" /\ iPc' = "closed" /\ UNCHANGED tPc
     ELSE tPc = "started" /\ tPc' = "closed" /\ UNCHANGED iPc
  /\ ctx' = [ctx EXCEPT ![s] = security_context_close(@)]
  /\ UNCHANGED <<auth, linked, toTar, toIni, starts, damage, proved>>

-----------------------------------------------------------------------------
(* The link.                                                               *)

Lose ==
  /\ "loss" \in Faults
  /\ \/ toTar # NULL /\ toTar' = NULL /\ UNCHANGED toIni
     \/ toIni # NULL /\ toIni' = NULL /\ UNCHANGED toTar
  /\ damage' = damage \cup {"lost"}
  /\ UNCHANGED <<ctx, iPc, tPc, auth, linked, starts, proved>>

(* A message with one of its fields damaged.  One without a value is none  *)
(* its receiver accepts as it is.                                          *)
Garbled(m) ==
  {[m EXCEPT ![f] = NOISE] : f \in {g \in {"kep", "id", "proof"} \cap DOMAIN m : m[g] # NULL}}
  \cup (IF m.type = "request"
        THEN {[m EXCEPT !.flags = ~@]} \cup {[m EXCEPT !.spi = i] : i \in Spis \ {m.spi}}
        ELSE {})

(* What nobody waits for is left out: it is never read. *)
Garble ==
  /\ "garble" \in Faults
  /\ \/ tPc \in {"request", "proof"} /\ toTar # NULL /\ toTar' \in Garbled(toTar) /\ UNCHANGED toIni
     \/ iPc \in {"reply", "ack"} /\ toIni # NULL /\ toIni' \in Garbled(toIni) /\ UNCHANGED toTar
  /\ damage' = damage \cup {"garbled"}
  /\ UNCHANGED <<ctx, iPc, tPc, auth, linked, starts, proved>>

-----------------------------------------------------------------------------
Initiates == InitiatorProves \/ InitiatorAcked \/ InitiatorTimesOut
Answers == TargetAnswers \/ TargetConcludes

Next ==
  \/ \E flag \in AuthFlags, spi \in Spis : InitiatorStarts(flag, spi)
  \/ Initiates \/ Answers
  \/ InitiatorSends \/ InitiatorStartsOver \/ InitiatorExits
  \/ TargetStartsOver \/ TargetExits
  \/ \E s \in Sides : CloseContext(s)
  \/ Lose \/ Garble

Spec == Init /\ [][Next]_vars

(* The two programs take their next step in a handshake they have begun.   *)
FairSpec == Spec /\ WF_vars(Initiates) /\ WF_vars(Answers)

=============================================================================
