------------------------- MODULE SnfcHandshakeProps -------------------------
(***************************************************************************)
(* What must be true of the handshake.                                     *)
(***************************************************************************)
EXTENDS SnfcHandshake

IsContext(c) ==
  /\ c.sa \in Spis \cup {NULL} /\ c.own \in Keys \cup {NULL} /\ c.iv \in Values
  /\ c.session # NULL => /\ c.session.sa \in Spis
                         /\ c.session.keys \subseteq Keys \cup {NOISE}
  /\ c.seq_n \in {0, 1} /\ c.peer \in BOOLEAN /\ c.alive \in BOOLEAN
  /\ c.held \in [Pointers -> {"null", "live", "freed"}]
  /\ c.session # NULL => \A p \in Ciphers : c.held[p] = "live"

(* Types of the variables; a message on the air belongs to the running     *)
(* start, and the target is past listening while one runs.                 *)
TypeOK ==
  /\ \A s \in Sides : IsContext(ctx[s])
  /\ iPc \in {"idle", "reply", "ack", "started", "failed", "closed"}
  /\ tPc \in {"listening", "request", "proof", "started", "failed", "closed"}
  /\ iPc \in {"reply", "ack"} => linked
  /\ toTar # NULL => linked /\ toTar.type \in {"request", "proof", "packet"}
  /\ toIni # NULL => linked /\ toIni.type \in {"reply", "ack"}
  /\ auth \in BOOLEAN /\ linked \in BOOLEAN
  /\ damage \subseteq {"lost", "garbled", "failed", "short", "early"} /\ proved \subseteq Sides

(* Both programs were told that the running start succeeded.               *)
BothStarted == linked /\ iPc = "started" /\ tPc = "started"

(* Then the devices are where SnfcChannel begins: one shared secret under  *)
(* one security association, one IV, no packet processed.  Nothing of an   *)
(* earlier start survives in that.  Garbled values escape notice, a failed *)
(* command does where its result is overwritten, and a device short of     *)
(* memory may be left without any key; without authentication never with   *)
(* another one than its peer.                                              *)
KeysAgree ==
  BothStarted =>
    \/ "garbled" \in damage
    \/ auth /\ damage \cap {"failed", "short"} # {}
    \/ "short" \in damage /\ \E s \in Sides : ctx[s].session = NULL
    \/ /\ ctx["ini"].session # NULL /\ ctx["ini"].session = ctx["tar"].session
       /\ ctx["ini"].iv = ctx["tar"].iv
       /\ ctx["tar"].seq_n = 0

(* Both also verified each other when they were to, unless a message was   *)
(* lost or garbled or memory short; for the initiator a loss is no excuse: *)
(* it is the target that takes the first packet for a lost proof.          *)
ProofsExplained ==
  BothStarted /\ auth =>
    /\ "ini" \in proved \/ damage \cap {"garbled", "short"} # {}
    /\ "tar" \in proved \/ damage \cap {"lost", "garbled", "short"} # {}

(* A start that begins succeeds on both devices unless something went      *)
(* wrong with it: they never wait for each other, nor disagree on whether  *)
(* there is more to come.  (A program may close its context at once.)      *)
StartCompletes == (iPc = "reply") ~> (BothStarted \/ damage # {} \/ tPc = "closed")

=============================================================================
