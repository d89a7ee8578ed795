----------------------------- MODULE SnfcSession ----------------------------
(***************************************************************************)
(* An NFC session from the return of snfc_initiator_start on.  The         *)
(* initiator's start succeeds whether or not its authentication proof was  *)
(* heard (secure_nfc/host/snfc.c:97), so that the target may still be in   *)
(* target_handshake, waiting for the proof, while requests come in.        *)
(*                                                                         *)
(* Faults end at some moment that nobody chooses (calm), after which one   *)
(* may ask what the session recovers from.                                 *)
(***************************************************************************)
EXTENDS SnfcChannelProps

VARIABLES
  proof,   \* whether the target still waits for the initiator's proof
  calm     \* history: whether nothing goes wrong any more

svars == <<vars, proof, calm>>

SessionInit ==
  /\ Init
  /\ proof \in (IF "loss" \in Faults THEN BOOLEAN ELSE {FALSE})
  /\ calm = FALSE

(* The next packet is taken for the proof.  Its first ten bytes are sent   *)
(* back, which the initiator reads as an answer with the request's header; *)
(* then process_authentication_proof fails, and its result is overwritten. *)
TargetTakesProof ==
  /\ proof /\ tPc = "receiving" /\ toTar # NULL
  /\ proof' = FALSE
  /\ toTar' = NULL
  /\ \/ toIni' = [toTar EXCEPT !.intact = FALSE]
     \/ "loss" \in Faults /\ ~calm /\ UNCHANGED toIni
  /\ UNCHANGED <<ini, tar, iPc, tPc, asked, heard, got, used, short, calm>>

(* The receive for the proof fails, and with it the target's start. *)
TargetProofTimesOut ==
  /\ "timeout" \in Faults /\ ~calm
  /\ proof /\ tPc = "receiving"
  /\ tPc' = "stopped"
  /\ UNCHANGED <<ini, tar, toTar, toIni, iPc, asked, heard, got, used, short, proof, calm>>

InitiatorWorks == (InitiatorSend \/ InitiatorReceive) /\ UNCHANGED <<proof, calm>>
TargetWorks == ~proof /\ (TargetReceive \/ TargetSend) /\ UNCHANGED <<proof, calm>>

Fault ==
  /\ ~calm
  /\ \/ InitiatorSendFails \/ InitiatorTimeout \/ Lose \/ Garble
     \/ ~proof /\ (TargetTimeout \/ TargetSendFails \/ TargetSendUnheard)
  /\ UNCHANGED <<proof, calm>>

CalmDown == ~calm /\ calm' = TRUE /\ UNCHANGED <<vars, proof>>

SessionNext ==
  \/ InitiatorWorks \/ TargetWorks \/ TargetTakesProof \/ TargetProofTimesOut
  \/ Fault \/ CalmDown

(* Both programs' blocked calls return once there is a packet, and a       *)
(* target that received something answers.                                 *)
SessionSpec ==
  /\ SessionInit /\ [][SessionNext]_svars
  /\ WF_svars(InitiatorReceive /\ UNCHANGED <<proof, calm>>)
  /\ WF_svars(TargetWorks)
  /\ WF_svars(TargetTakesProof)

-----------------------------------------------------------------------------
(* Whatever was lost, garbled, late or taken for the proof before, a       *)
(* request the target can still catch up with is answered once nothing     *)
(* goes wrong any more; up to the wrap, after which the 32-bit numbers     *)
(* never again equal the byte that carries them.                           *)
Answerable(n) ==
  /\ calm /\ ~proof
  /\ iPc = "waiting" /\ asked = n /\ ini.seq_n < SeqRange
  /\ tPc = "receiving" /\ toTar # NULL /\ InReach(tar, toTar)
  /\ toIni = NULL

AnsweredOnceCalm == \A n \in 1 .. MaxRequests : Answerable(n) ~> (got = n)

=============================================================================
