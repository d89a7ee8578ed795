------------------------- MODULE SnfcHandshakeProofs -------------------------
(***************************************************************************)
(* That a start of which both devices were told it succeeded leaves them   *)
(* with the same secret and the same IV, and proves them to each other,    *)
(* unless what damaged it is named in the history; for any number of       *)
(* starts, security associations and faults.                               *)
(*                                                                         *)
(* The invariant follows a start through its messages: what the initiator  *)
(* has sent and awaits (Awaiting), what the target has answered and awaits *)
(* (Challenged), and where both are when only the target's acknowledgement *)
(* is missing (Concluding, Verified).  Turns says whose turn it is, so     *)
(* that nothing of an earlier start, or of the other kind, is on the air.  *)
(***************************************************************************)
EXTENDS SnfcHandshakeProps, TLAPS

(* The contexts and the messages there may be. *)
Context ==
  [sa : Spis \cup {NULL}, own : Keys \cup {NULL}, session : Secrets \cup {NULL},
   iv : Values, seq_n : {0, 1}, peer : BOOLEAN,
   held : [Pointers -> {"null", "live", "freed"}], alive : BOOLEAN]

(* A context with session keys has the handles they were set in. *)
Sound(c) == c \in Context /\ (c.session # NULL => \A p \in Ciphers : c.held[p] = "live")

Ids == {create_authentication_id, NULL, NOISE}
Requests == [type : {"request"}, spi : Spis, flags : BOOLEAN, kep : Keys \cup {NOISE}, id : Ids]
Replies == [type : {"reply"}, kep : Keys \cup {NOISE}, id : Ids, proof : Values]
Proofs == [type : {"proof", "packet"}, proof : Values]
Acks == [type : {"ack"}]

(* All variables have their types, and both contexts are sound. *)
Typed ==
  /\ ctx \in [Sides -> Context] /\ \A s \in Sides : Sound(ctx[s])
  /\ iPc \in {"idle", "reply", "ack", "started", "failed", "closed"}
  /\ tPc \in {"listening", "request", "proof", "started", "failed", "closed"}
  /\ toTar \in Requests \cup Proofs \cup {NULL} /\ toIni \in Replies \cup Acks \cup {NULL}
  /\ auth \in BOOLEAN /\ linked \in BOOLEAN /\ starts \in 0 .. MaxStarts
  /\ damage \subseteq {"lost", "garbled", "failed", "short", "early"} /\ proved \subseteq Sides

(* Each device waits for the kind of message that may be on the air; while *)
(* the initiator awaits a reply its request is all the target can be sent. *)
Turns ==
  /\ linked <=> iPc # "idle"
  /\ ~linked => toTar = NULL /\ toIni = NULL
  /\ linked => starts >= 1
  /\ tPc = "request" => /\ iPc \in {"idle", "reply", "failed"}
                        /\ toTar \in Requests \cup {NULL} /\ toIni = NULL
  /\ tPc = "proof" => toTar \in Proofs \cup {NULL}
  /\ iPc = "reply" => /\ toIni \in Replies \cup {NULL}
                      /\ tPc # "request" => toTar = NULL
  /\ iPc = "ack" => toIni \in Acks \cup {NULL}

(* The key a device makes in this start, and what went wrong with it. *)
Key(s) == <<s, starts>>
Damaged == "garbled" \in damage
Short == "short" \in damage
Excused == auth /\ damage \cap {"failed", "short"} # {}

Ini == ctx["ini"]
Tar == ctx["tar"]

(* The initiator has sent its key and waits for the target's: the reply on *)
(* the air is to this request, and a target that has answered derived its  *)
(* session from it.                                                        *)
Awaiting ==
  iPc = "reply" =>
    /\ Ini.alive /\ Ini.own = Key("ini") /\ Ini.sa \in Spis /\ Ini.iv = Key("ini")
    /\ ~Damaged =>
         /\ tPc = "request" /\ toTar # NULL => toTar = Request(Ini.sa, auth, Key("ini"))
         /\ toIni # NULL => /\ toIni.kep = Key("tar")
                            /\ auth => /\ toIni.id = create_authentication_id
                                       /\ toIni.proof = Key("ini") \/ Short
         /\ auth => tPc # "started"
         /\ tPc \in {"proof", "started"} =>
              \/ Short /\ Tar.session = NULL
              \/ /\ Tar.session = [keys |-> {Key("ini"), Key("tar")}, sa |-> Ini.sa]
                 /\ Tar.iv = Key("ini") /\ Tar.seq_n = 0

(* The target has answered and waits for the initiator's proof. *)
Challenged ==
  tPc = "proof" /\ linked /\ ~Damaged /\ ~Short =>
    Tar.alive /\ Tar.peer /\ Tar.own = Key("tar")

(* The initiator is done but for the target's proof: the target has kept   *)
(* what it answered with.                                                  *)
Concluding ==
  iPc \in {"ack", "started"} /\ ~Damaged /\ tPc \in {"proof", "started"} =>
    \/ Excused
    \/ Short /\ \E s \in Sides : ctx[s].session = NULL
    \/ /\ Ini.session # NULL /\ Ini.session = Tar.session
       /\ Ini.iv = Tar.iv /\ Tar.seq_n = 0

(* Who has verified whom, and what the target has yet to verify. *)
Verified ==
  iPc \in {"ack", "started"} /\ auth =>
    /\ "ini" \in proved \/ damage \cap {"garbled", "short"} # {}
    /\ tPc = "started" => "tar" \in proved \/ damage \cap {"lost", "garbled", "short"} # {}
    /\ tPc = "proof" => toTar = Proof(Key("tar")) \/ damage \cap {"lost", "garbled", "short"} # {}

HandshakeInv == Typed /\ Turns /\ Awaiting /\ Challenged /\ Concluding /\ Verified
-----------------------------------------------------------------------------
USE FaultsAssumption, FlagsAssumption, StartsAssumption, NullAssumption

(* The outcomes of a command, and of its parts: a sound context is left    *)
(* sound, and only a lack of memory loses a signature.                     *)
Outcome == [ctx : Context, ok : BOOLEAN, short : BOOLEAN, signed : BOOLEAN]
Fit(o) == o \in Outcome /\ Sound(o.ctx) /\ (~o.signed => o.short)

(* o is what the calls E leave after the call that left p. *)
Follows(o, p, E) ==
  IF p.ok THEN \E e \in E : o = [e EXCEPT !.short = @ \/ p.short] ELSE o = p

LEMMA FollowsFits ==
  ASSUME NEW o, NEW p, NEW E, Follows(o, p, E), Fit(p), \A e \in E : Fit(e)
  PROVE  /\ Fit(o)
         /\ p.ok => \E e \in E : /\ o.ctx = e.ctx /\ o.ok = e.ok /\ o.signed = e.signed
                                 /\ o.short <=> e.short \/ p.short
         /\ ~p.ok => o = p
<1>1. CASE ~p.ok
  BY <1>1 DEF Follows
<1>2. CASE p.ok
  <2>1. PICK e \in E : o = [e EXCEPT !.short = @ \/ p.short]
    BY <1>2 DEF Follows
  <2>2. e \in Outcome /\ p \in Outcome /\ Fit(e)
    BY DEF Fit
  <2>3. /\ o \in Outcome /\ o.ctx = e.ctx /\ o.ok = e.ok /\ o.signed = e.signed
        /\ o.short <=> e.short \/ p.short
    BY <2>1, <2>2 DEF Outcome
  <2> QED
    BY <1>2, <2>2, <2>3 DEF Fit
<1> QED
  BY <1>1, <1>2

LEMMA DoneFits ==
  ASSUME NEW c, Sound(c)
  PROVE  /\ Fit(Done(c)) /\ Done(c).ctx = c /\ Done(c).ok /\ ~Done(c).short /\ Done(c).signed
         /\ Fit(Failed(c)) /\ Failed(c).ctx = c /\ ~Failed(c).ok /\ ~Failed(c).short
         /\ Failed(c).signed
<1>1. /\ Done(c) \in Outcome /\ Done(c).ctx = c /\ Done(c).ok
      /\ ~Done(c).short /\ Done(c).signed
  BY DEF Done, Outcome, Sound
<1>2. /\ Failed(c) \in Outcome /\ Failed(c).ctx = c /\ ~Failed(c).ok
      /\ ~Failed(c).short /\ Failed(c).signed
  BY <1>1 DEF Failed, Outcome
<1> QED
  BY <1>1, <1>2 DEF Fit

(* An outcome of which memory is short differs in nothing else. *)
LEMMA ShortFits ==
  ASSUME NEW S, \A p \in S : Fit(p) \/ (p \in Outcome /\ Sound(p.ctx)), NEW o \in IfNoMemory(S)
  PROVE  /\ Fit(o) /\ o.short
         /\ \E p \in S : o.ctx = p.ctx /\ o.ok = p.ok /\ o.signed = p.signed
<1>1. PICK p \in S : o = [p EXCEPT !.short = TRUE]
  BY DEF IfNoMemory
<1>2. p \in Outcome /\ Sound(p.ctx)
  BY DEF Fit
<1>3. o \in Outcome /\ o.ctx = p.ctx /\ o.ok = p.ok /\ o.signed = p.signed /\ o.short
  BY <1>1, <1>2 DEF Outcome
<1> QED
  BY <1>2, <1>3 DEF Fit

(* The same context but for its pointers. *)
Alike(d, c) ==
  /\ d.sa = c.sa /\ d.own = c.own /\ d.session = c.session /\ d.iv = c.iv
  /\ d.seq_n = c.seq_n /\ d.peer = c.peer /\ d.alive = c.alive

LEMMA HoldingSound ==
  ASSUME NEW c \in Context, NEW ps \in SUBSET Pointers, Sound(c) \/ Ciphers \subseteq ps
  PROVE  Sound(Holding(c, ps)) /\ Alike(Holding(c, ps), c)
<1>1. c.held \in [Pointers -> {"null", "live", "freed"}]
  BY DEF Context
<1> DEFINE h == [p \in Pointers |-> IF p \in ps THEN "live" ELSE c.held[p]]
<1>2. h \in [Pointers -> {"null", "live", "freed"}] /\ \A p \in ps : h[p] = "live"
  BY <1>1
<1>3. \A p \in Ciphers : c.held[p] = "live" => h[p] = "live"
  BY DEF Ciphers, Pointers
<1>4. Holding(c, ps) = [c EXCEPT !.held = h]
  BY DEF Holding
<1> HIDE DEF h
<1> QED
  BY <1>1, <1>2, <1>3, <1>4 DEF Sound, Context, Alike

LEMMA FreedSound ==
  ASSUME NEW c, Sound(c), c.session = NULL, NEW ps \in SUBSET Pointers
  PROVE  Sound(Freed(c, ps)) /\ Freed(c, ps).session = NULL
<1>1. c.held \in [Pointers -> {"null", "live", "freed"}] /\ c \in Context
  BY DEF Sound, Context
<1> DEFINE h == [p \in Pointers |-> IF p \in ps THEN "freed" ELSE c.held[p]]
<1>2. h \in [Pointers -> {"null", "live", "freed"}]
  BY <1>1
<1>4. Freed(c, ps) = [c EXCEPT !.held = h]
  BY DEF Freed
<1> HIDE DEF h
<1> QED
  BY <1>1, <1>2, <1>4 DEF Sound, Context

LEMMA NoContextSound ==
  /\ Sound(NoContext) /\ NoContext.session = NULL /\ NoContext.alive
  /\ Sound(Panicked) /\ Panicked.session = NULL
<1> DEFINE h == [p \in Pointers |-> "null"]
<1>1. h \in [Pointers -> {"null", "live", "freed"}]
  OBVIOUS
<1>2. NoContext = [sa |-> NULL, own |-> NULL, session |-> NULL, iv |-> NULL, seq_n |-> 0,
                   peer |-> FALSE, held |-> h, alive |-> TRUE]
  BY DEF NoContext
<1> HIDE DEF h
<1>3. NoContext \in Context /\ NoContext.session = NULL /\ NoContext.alive
  BY <1>1, <1>2 DEF Context, Values
<1>4. Panicked \in Context /\ Panicked.session = NULL
  BY <1>3 DEF Panicked, Context
<1> QED
  BY <1>3, <1>4 DEF Sound


-----------------------------------------------------------------------------
(* The parts of the commands: what each leaves when it succeeds, and why   *)
(* it does not.                                                            *)

LEMMA KeyCreated ==
  ASSUME NEW c, Sound(c), NEW key \in Keys, NEW spi \in Spis,
         NEW o \in set_security_parameters(c, key, spi)
  PROVE  /\ Fit(o) /\ o.signed
         /\ o.ok => o.ctx.own = key /\ o.ctx.sa = spi /\ o.ctx.alive = c.alive
         /\ ~o.ok => o.short
<1> DEFINE d == [c EXCEPT !.sa = spi]
           e == [d EXCEPT !.own = key]
           g == [d EXCEPT !.own = NULL]
<1>1. /\ Sound(d) /\ Sound(e) /\ Sound(g)
      /\ e.own = key /\ e.sa = spi /\ e.alive = c.alive
  BY DEF Sound, Context
<1>2. o \in {Done(Holding(e, {"ecdh_key"}))}
            \cup IfNoMemory({Failed(d), Failed(Holding(g, {"ecdh_key"}))})
  BY DEF set_security_parameters, create_ecdh_key
<1> HIDE DEF d, e, g
<1>3. /\ Sound(Holding(e, {"ecdh_key"})) /\ Alike(Holding(e, {"ecdh_key"}), e)
      /\ Sound(Holding(g, {"ecdh_key"}))
  BY <1>1, HoldingSound DEF Sound, Pointers
<1>4. CASE o = Done(Holding(e, {"ecdh_key"}))
  BY <1>1, <1>3, <1>4, DoneFits DEF Alike
<1>5. CASE o \in IfNoMemory({Failed(d), Failed(Holding(g, {"ecdh_key"}))})
  <2>1. \A p \in {Failed(d), Failed(Holding(g, {"ecdh_key"}))} : Fit(p) /\ ~p.ok /\ p.signed
    BY <1>1, <1>3, DoneFits
  <2> QED
    BY <1>5, <2>1, ShortFits
<1> QED
  BY <1>2, <1>4, <1>5

LEMMA IvComputed ==
  ASSUME NEW c, Sound(c), NEW kep \in Keys \cup {NOISE}, NEW o \in iv_init(c, kep)
  PROVE  /\ Fit(o) /\ o.signed
         /\ o.ok => /\ o.ctx.iv = kep /\ o.ctx.sa = c.sa /\ o.ctx.own = c.own
                    /\ o.ctx.session = c.session /\ o.ctx.seq_n = c.seq_n
                    /\ o.ctx.peer = c.peer /\ o.ctx.alive = c.alive
         /\ ~o.ok => o.short
<1> DEFINE d == IF c.held["iv"] = "null" THEN Holding(c, {"iv"}) ELSE c
           e == [d EXCEPT !.iv = kep]
<1>1. Sound(d) /\ Alike(d, c)
  BY HoldingSound DEF Sound, Pointers, Alike
<1>2. o \in {Done(e)} \cup IfNoMemory({Failed(c), Failed(d)})
  BY DEF iv_init
<1> HIDE DEF d
<1>3. /\ Sound(e) /\ e.iv = kep /\ e.sa = c.sa /\ e.own = c.own /\ e.session = c.session
      /\ e.seq_n = c.seq_n /\ e.peer = c.peer /\ e.alive = c.alive
  BY <1>1 DEF Sound, Context, Values, Alike
<1> HIDE DEF e
<1>4. CASE o = Done(e)
  BY <1>3, <1>4, DoneFits
<1>5. CASE o \in IfNoMemory({Failed(c), Failed(d)})
  <2>1. \A p \in {Failed(c), Failed(d)} : Fit(p) /\ ~p.ok /\ p.signed
    BY <1>1, DoneFits
  <2> QED
    BY <1>5, <2>1, ShortFits
<1> QED
  BY <1>2, <1>4, <1>5

LEMMA SessionBegun ==
  ASSUME NEW c, Sound(c), NEW secret \in Secrets \cup {NULL},
         NEW o \in security_context_init(c, secret)
  PROVE  /\ Fit(o) /\ o.signed
         /\ o.ok => /\ o.ctx.session = secret /\ o.ctx.seq_n = 0
                    /\ o.ctx.sa = c.sa /\ o.ctx.own = c.own /\ o.ctx.iv = c.iv
                    /\ o.ctx.peer = c.peer /\ o.ctx.alive = c.alive
         /\ ~o.ok => o.short
<1> DEFINE d == [c EXCEPT !.session = secret, !.seq_n = 0]
           e == [c EXCEPT !.session = NULL]
           e1 == Freed(e, {"encrypt_handle"})
           e2 == Freed(e, {"encrypt_handle", "decrypt_handle"})
           h == Holding(d, Ciphers)
<1>1. /\ d \in Context /\ Sound(e) /\ e.session = NULL
      /\ d.session = secret /\ d.seq_n = 0 /\ d.sa = c.sa /\ d.own = c.own /\ d.iv = c.iv
      /\ d.peer = c.peer /\ d.alive = c.alive
  BY DEF Sound, Context
<1>2. o \in {Done(h)} \cup IfNoMemory({Failed(c), Failed(e1), Failed(e2)})
  BY DEF security_context_init
<1> HIDE DEF d, e
<1>3. Sound(e1) /\ Sound(e2)
  BY <1>1, FreedSound DEF Pointers
<1>4. Sound(h) /\ Alike(h, d)
  BY <1>1, HoldingSound DEF Ciphers, Pointers
<1> HIDE DEF e1, e2, h
<1>5. CASE o = Done(h)
  BY <1>1, <1>4, <1>5, DoneFits DEF Alike
<1>6. CASE o \in IfNoMemory({Failed(c), Failed(e1), Failed(e2)})
  <2>1. \A p \in {Failed(c), Failed(e1), Failed(e2)} : Fit(p) /\ ~p.ok /\ p.signed
    BY <1>3, DoneFits
  <2> QED
    BY <1>6, <2>1, ShortFits
<1> QED
  BY <1>2, <1>5, <1>6

LEMMA KeyExchanged ==
  ASSUME NEW c, Sound(c), c.own \in Keys, c.sa \in Spis, NEW kep \in Keys \cup {NOISE},
         NEW o \in process_key_exchange(c, kep)
  PROVE  /\ Fit(o) /\ o.signed
         /\ o.ok => /\ \/ o.ctx.session = [keys |-> {c.own, kep}, sa |-> c.sa]
                       \/ o.short /\ o.ctx.session = NULL
                    /\ o.ctx.seq_n = 0
                    /\ o.ctx.sa = c.sa /\ o.ctx.own = c.own /\ o.ctx.iv = c.iv
                    /\ o.ctx.peer = c.peer /\ o.ctx.alive = c.alive
         /\ ~o.ok => o.short \/ kep = NOISE
<1> DEFINE secret == derive_session_keys(c, kep)
           S == {Failed(Panicked)} \cup security_context_init(c, NULL)
<1>1. secret \in Secrets /\ secret = [keys |-> {c.own, kep}, sa |-> c.sa]
  BY DEF derive_session_keys, Secrets
<1>2. \/ o \in security_context_init(c, secret)
      \/ kep = NOISE /\ o = Failed(Panicked)
      \/ o \in IfNoMemory(S)
  BY DEF process_key_exchange
<1> HIDE DEF secret
<1>3. CASE o \in security_context_init(c, secret)
  BY <1>1, <1>3, SessionBegun
<1>4. CASE kep = NOISE /\ o = Failed(Panicked)
  BY <1>4, NoContextSound, DoneFits
<1>5. CASE o \in IfNoMemory(S)
  <2>1. \A p \in S : /\ Fit(p) /\ p.signed
                     /\ p.ok => /\ p.ctx.session = NULL /\ p.ctx.seq_n = 0
                                /\ p.ctx.sa = c.sa /\ p.ctx.own = c.own /\ p.ctx.iv = c.iv
                                /\ p.ctx.peer = c.peer /\ p.ctx.alive = c.alive
    BY SessionBegun, NoContextSound, DoneFits
  <2> HIDE DEF S
  <2>2. Fit(o) /\ o.short
    BY <1>5, <2>1, ShortFits
  <2>3. PICK p \in S : o.ctx = p.ctx /\ o.ok = p.ok /\ o.signed = p.signed
    BY <1>5, <2>1, ShortFits
  <2> QED
    BY <2>1, <2>2, <2>3
<1> QED
  BY <1>2, <1>3, <1>4, <1>5

LEMMA OutOfMemoryFits ==
  ASSUME NEW c, Sound(c), NEW o \in OutOfMemory(c)
  PROVE  Fit(o) /\ o.signed /\ ~o.ok /\ o.short /\ o.ctx \in {c, Panicked}
<1>1. \A p \in {Failed(c), Failed(Panicked)} :
        Fit(p) /\ ~p.ok /\ p.signed /\ p.ctx \in {c, Panicked}
  BY DoneFits, NoContextSound
<1> QED
  BY <1>1, ShortFits DEF OutOfMemory

LEMMA IdProcessed ==
  ASSUME NEW c, Sound(c), NEW id, NEW o \in process_authentication_id(c, id)
  PROVE  /\ Fit(o) /\ o.signed
         /\ o.ok => /\ o.ctx.peer
                    /\ o.ctx.sa = c.sa /\ o.ctx.own = c.own /\ o.ctx.iv = c.iv
                    /\ o.ctx.session = c.session /\ o.ctx.seq_n = c.seq_n
                    /\ o.ctx.alive = c.alive
         /\ ~o.ok => o.short \/ id # create_authentication_id
<1> DEFINE d == [c EXCEPT !.peer = TRUE]
           h == Holding(d, {"peer_pub_key"})
<1>1. /\ Sound(d) /\ d.peer
      /\ d.sa = c.sa /\ d.own = c.own /\ d.iv = c.iv
      /\ d.session = c.session /\ d.seq_n = c.seq_n /\ d.alive = c.alive
  BY DEF Sound, Context
<1>2. \/ o = Done(h) \/ o \in OutOfMemory(c)
      \/ id # create_authentication_id /\ o = Failed(c)
  BY DEF process_authentication_id
<1> HIDE DEF d
<1>3. Sound(h) /\ Alike(h, d)
  BY <1>1, HoldingSound DEF Pointers, Sound
<1> HIDE DEF h
<1>4. CASE o = Done(h)
  BY <1>1, <1>3, <1>4, DoneFits DEF Alike
<1>5. CASE o \in OutOfMemory(c)
  BY <1>5, OutOfMemoryFits
<1>6. CASE id # create_authentication_id /\ o = Failed(c)
  BY <1>6, DoneFits
<1> QED
  BY <1>2, <1>4, <1>5, <1>6

LEMMA ProofCreated ==
  ASSUME NEW c, Sound(c), NEW o \in create_authentication_proof(c)
  PROVE  Fit(o) /\ o.ctx = c /\ (~o.ok \/ ~o.signed => o.short)
<1> DEFINE u == [Done(c) EXCEPT !.signed = FALSE]
<1>1. u \in Outcome /\ u.ctx = c
  <2>1. Done(c) \in Outcome /\ Done(c).ctx = c
    BY DoneFits DEF Fit
  <2> QED
    BY <2>1 DEF Outcome
<1>2. o = Done(c) \/ o \in IfNoMemory({Failed(c), u})
  BY DEF create_authentication_proof
<1> HIDE DEF u
<1>3. CASE o = Done(c)
  BY <1>3, DoneFits
<1>4. CASE o \in IfNoMemory({Failed(c), u})
  <2>1. \A p \in {Failed(c), u} : p \in Outcome /\ Sound(p.ctx) /\ p.ctx = c
    BY <1>1, DoneFits DEF Fit
  <2> QED
    BY <1>4, <2>1, ShortFits
<1> QED
  BY <1>2, <1>3, <1>4

LEMMA ProofProcessed ==
  ASSUME NEW c, Sound(c), NEW proof, NEW o \in process_authentication_proof(c, proof)
  PROVE  /\ Fit(o) /\ o.signed
         /\ o.ok => o.ctx = c
         /\ ~o.ok => /\ o.ctx = c \/ (o.short /\ o.ctx = Panicked)
                     /\ o.short \/ ~c.peer \/ proof = NULL \/ proof # c.own
<1>1. \/ o = Done(c) \/ o \in OutOfMemory(c)
      \/ (~c.peer \/ proof = NULL \/ proof # c.own) /\ o = Failed(c)
  BY DEF process_authentication_proof
<1>2. CASE o = Done(c)
  BY <1>2, DoneFits
<1>3. CASE o \in OutOfMemory(c)
  BY <1>3, OutOfMemoryFits
<1>4. CASE (~c.peer \/ proof = NULL \/ proof # c.own) /\ o = Failed(c)
  BY <1>4, DoneFits
<1> QED
  BY <1>1, <1>2, <1>3, <1>4

-----------------------------------------------------------------------------
(* The commands. *)

LEMMA RequestOutcome ==
  ASSUME NEW c, Sound(c), NEW key \in Keys, NEW spi \in Spis,
         NEW o \in Command(c, Then(set_security_parameters(c, key, spi), create_handshake_request))
  PROVE  /\ Fit(o)
         /\ o.ok => /\ o.ctx.own = key /\ o.ctx.sa = spi /\ o.ctx.iv = key /\ o.ctx.alive
         /\ ~o.ok /\ c.alive => o.short
<1>1. CASE ~c.alive
  BY <1>1, DoneFits DEF Command
<1>2. CASE c.alive
  <2>1. PICK p \in set_security_parameters(c, key, spi) : Follows(o, p, iv_init(p.ctx, p.ctx.own))
    BY <1>2 DEF Command, Then, Follows, create_handshake_request
  <2>2. /\ Fit(p) /\ p.signed
        /\ p.ok => p.ctx.own = key /\ p.ctx.sa = spi /\ p.ctx.alive = c.alive
        /\ ~p.ok => p.short
    BY KeyCreated
  <2>3. CASE ~p.ok
    BY <2>1, <2>2, <2>3 DEF Follows
  <2>4. CASE p.ok
    <3>1. \A e \in iv_init(p.ctx, p.ctx.own) :
            /\ Fit(e)
            /\ e.ok => /\ e.ctx.iv = key /\ e.ctx.sa = spi /\ e.ctx.own = key
                       /\ e.ctx.alive = c.alive
            /\ ~e.ok => e.short
      BY <2>2, <2>4, IvComputed DEF Fit
    <3>2. Fit(o)
      BY <2>1, <2>2, <3>1, FollowsFits
    <3>3. PICK e \in iv_init(p.ctx, p.ctx.own) :
               o.ctx = e.ctx /\ o.ok = e.ok /\ (o.short <=> e.short \/ p.short)
      BY <2>1, <2>2, <2>4, <3>1, FollowsFits
    <3>4. o.ok => /\ o.ctx.iv = key /\ o.ctx.sa = spi /\ o.ctx.own = key
                  /\ o.ctx.alive = c.alive
      BY <3>1, <3>3
    <3>5. ~o.ok => o.short
      BY <3>1, <3>3
    <3> QED
      BY <1>2, <3>2, <3>4, <3>5, Zenon
  <2> QED
    BY <2>3, <2>4
<1> QED
  BY <1>1, <1>2

(* What process_handshake_request does after its first call, its second    *)
(* and its third.                                                          *)
AfterIv(c, m) ==
  IF m.flags THEN Then(process_authentication_id(c, m.id), create_authentication_proof)
  ELSE {Done(c)}
AfterExchange(c, m) == Then(iv_init(c, m.kep), LAMBDA c1 : AfterIv(c1, m))
AfterKey(c, m) == Then(process_key_exchange(c, m.kep), LAMBDA c1 : AfterExchange(c1, m))

(* The session of a target that took kep for the peer's value. *)
Keyed(o, own, kep, spi) ==
  \/ o.ctx.session = [keys |-> {own, kep}, sa |-> spi]
  \/ o.short /\ o.ctx.session = NULL

LEMMA AfterIvOutcome ==
  ASSUME NEW c, Sound(c), NEW m \in Requests, NEW o \in AfterIv(c, m)
  PROVE  /\ Fit(o)
         /\ o.ok => /\ o.ctx.sa = c.sa /\ o.ctx.own = c.own /\ o.ctx.iv = c.iv
                    /\ o.ctx.session = c.session /\ o.ctx.seq_n = c.seq_n
                    /\ o.ctx.alive = c.alive
                    /\ m.flags => o.ctx.peer
<1>1. CASE ~m.flags
  BY <1>1, DoneFits DEF AfterIv
<1>2. CASE m.flags
  <2>1. PICK p \in process_authentication_id(c, m.id) :
             Follows(o, p, create_authentication_proof(p.ctx))
    BY <1>2 DEF AfterIv, Then, Follows
  <2>2. /\ Fit(p)
        /\ p.ok => /\ p.ctx.peer
                   /\ p.ctx.sa = c.sa /\ p.ctx.own = c.own /\ p.ctx.iv = c.iv
                   /\ p.ctx.session = c.session /\ p.ctx.seq_n = c.seq_n
                   /\ p.ctx.alive = c.alive
    BY IdProcessed
  <2>3. \A e \in create_authentication_proof(p.ctx) : Fit(e) /\ e.ctx = p.ctx
    BY <2>2, ProofCreated DEF Fit
  <2> QED
    BY <2>1, <2>2, <2>3, FollowsFits
<1> QED
  BY <1>1, <1>2

LEMMA AfterExchangeOutcome ==
  ASSUME NEW c, Sound(c), NEW m \in Requests, NEW o \in AfterExchange(c, m)
  PROVE  /\ Fit(o)
         /\ o.ok => /\ o.ctx.sa = c.sa /\ o.ctx.own = c.own /\ o.ctx.iv = m.kep
                    /\ o.ctx.session = c.session /\ o.ctx.seq_n = c.seq_n
                    /\ o.ctx.alive = c.alive
                    /\ m.flags => o.ctx.peer
<1>1. PICK p \in iv_init(c, m.kep) : Follows(o, p, AfterIv(p.ctx, m))
  BY DEF AfterExchange, Then, Follows
<1>2. /\ Fit(p)
      /\ p.ok => /\ p.ctx.iv = m.kep /\ p.ctx.sa = c.sa /\ p.ctx.own = c.own
                 /\ p.ctx.session = c.session /\ p.ctx.seq_n = c.seq_n
                 /\ p.ctx.alive = c.alive
  BY IvComputed DEF Requests
<1>3. \A e \in AfterIv(p.ctx, m) :
        /\ Fit(e)
        /\ e.ok => /\ e.ctx.sa = p.ctx.sa /\ e.ctx.own = p.ctx.own /\ e.ctx.iv = p.ctx.iv
                   /\ e.ctx.session = p.ctx.session /\ e.ctx.seq_n = p.ctx.seq_n
                   /\ e.ctx.alive = p.ctx.alive
                   /\ m.flags => e.ctx.peer
  BY <1>2, AfterIvOutcome DEF Fit
<1> QED
  BY <1>1, <1>2, <1>3, FollowsFits

LEMMA AfterKeyOutcome ==
  ASSUME NEW c, Sound(c), c.own \in Keys, c.sa \in Spis, NEW m \in Requests,
         NEW o \in AfterKey(c, m)
  PROVE  /\ Fit(o)
         /\ o.ok => /\ o.ctx.sa = c.sa /\ o.ctx.own = c.own /\ o.ctx.iv = m.kep
                    /\ Keyed(o, c.own, m.kep, c.sa) /\ o.ctx.seq_n = 0
                    /\ o.ctx.alive = c.alive
                    /\ m.flags => o.ctx.peer
<1>1. PICK p \in process_key_exchange(c, m.kep) : Follows(o, p, AfterExchange(p.ctx, m))
  BY DEF AfterKey, Then, Follows
<1>2. /\ Fit(p)
      /\ p.ok => /\ Keyed(p, c.own, m.kep, c.sa)
                 /\ p.ctx.sa = c.sa /\ p.ctx.own = c.own
                 /\ p.ctx.seq_n = 0 /\ p.ctx.alive = c.alive
  BY KeyExchanged DEF Requests, Keyed
<1>3. \A e \in AfterExchange(p.ctx, m) :
        /\ Fit(e)
        /\ e.ok => /\ e.ctx.sa = p.ctx.sa /\ e.ctx.own = p.ctx.own /\ e.ctx.iv = m.kep
                   /\ e.ctx.session = p.ctx.session /\ e.ctx.seq_n = p.ctx.seq_n
                   /\ e.ctx.alive = p.ctx.alive
                   /\ m.flags => e.ctx.peer
  BY <1>2, AfterExchangeOutcome DEF Fit
<1> QED
  BY <1>1, <1>2, <1>3, FollowsFits DEF Keyed

(* The target's answer: keyed with the value of the request, under its     *)
(* security association.                                                   *)
LEMMA AnswerOutcome ==
  ASSUME NEW c, Sound(c), NEW m \in Requests, NEW key \in Keys,
         NEW o \in Command(c, process_handshake_request(c, m, key))
  PROVE  /\ Fit(o)
         /\ o.ok => /\ o.ctx.sa = m.spi /\ o.ctx.own = key /\ o.ctx.iv = m.kep
                    /\ Keyed(o, key, m.kep, m.spi) /\ o.ctx.seq_n = 0
                    /\ o.ctx.alive
                    /\ m.flags => o.ctx.peer
<1>1. CASE ~c.alive
  BY <1>1, DoneFits DEF Command
<1>2. CASE c.alive
  <2>1. PICK p \in set_security_parameters(c, key, m.spi) : Follows(o, p, AfterKey(p.ctx, m))
    BY <1>2 DEF Command, process_handshake_request, Then, Follows,
       AfterKey, AfterExchange, AfterIv
  <2>2. /\ Fit(p)
        /\ p.ok => p.ctx.own = key /\ p.ctx.sa = m.spi /\ p.ctx.alive = c.alive
    BY KeyCreated DEF Requests
  <2>3. CASE ~p.ok
    BY <2>1, <2>2, <2>3 DEF Follows
  <2>4. CASE p.ok
    <3>1. p.ctx.own \in Keys /\ p.ctx.sa \in Spis /\ Sound(p.ctx)
      BY <2>2, <2>4 DEF Fit, Requests
    <3>2. \A e \in AfterKey(p.ctx, m) :
            /\ Fit(e)
            /\ e.ok => /\ e.ctx.sa = m.spi /\ e.ctx.own = key /\ e.ctx.iv = m.kep
                       /\ Keyed(e, key, m.kep, m.spi) /\ e.ctx.seq_n = 0
                       /\ e.ctx.alive = c.alive
                       /\ m.flags => e.ctx.peer
      BY <2>2, <2>4, <3>1, AfterKeyOutcome
    <3>3. Fit(o)
      BY <2>1, <2>2, <3>2, FollowsFits
    <3>4. PICK e \in AfterKey(p.ctx, m) :
               o.ctx = e.ctx /\ o.ok = e.ok /\ (o.short <=> e.short \/ p.short)
      BY <2>1, <2>2, <2>4, <3>2, FollowsFits
    <3>5. o.ok => Keyed(o, key, m.kep, m.spi)
      BY <3>2, <3>4 DEF Keyed
    <3>6. o.ok => e.ok
      BY <3>4
    <3>7. e.ok => /\ e.ctx.sa = m.spi /\ e.ctx.own = key /\ e.ctx.iv = m.kep
                  /\ e.ctx.seq_n = 0 /\ e.ctx.alive = c.alive
      BY <3>2, Zenon
    <3>8. o.ok => /\ o.ctx.sa = m.spi /\ o.ctx.own = key /\ o.ctx.iv = m.kep
                  /\ o.ctx.seq_n = 0 /\ o.ctx.alive = c.alive
      BY <3>4, <3>6, <3>7, Zenon
    <3>9. o.ok /\ m.flags => o.ctx.peer
      BY <3>2, <3>4
    <3> QED
      BY <1>2, <3>3, <3>5, <3>8, <3>9, Zenon
  <2> QED
    BY <2>3, <2>4
<1> QED
  BY <1>1, <1>2

(* What process_handshake_reply does after its first call and its second.  *)
AfterReplyId(c, m) == Then(process_authentication_proof(c, m.proof), create_authentication_proof)
AfterReplyKey(c, m) ==
  IF auth THEN Then(process_authentication_id(c, m.id), LAMBDA c1 : AfterReplyId(c1, m))
  ELSE {Done(c)}

(* A reply that cannot be from the target to the request of this device.   *)
NoAnswer(c, m) ==
  m.kep = NOISE
    \/ (auth /\ (m.id # create_authentication_id \/ m.proof = NULL \/ m.proof # c.own))

LEMMA ReplyIdOutcome ==
  ASSUME NEW c, Sound(c), c.peer, NEW m \in Replies, NEW o \in AfterReplyId(c, m)
  PROVE  /\ Fit(o)
         /\ o.ok => o.ctx = c
         /\ ~o.ok => o.short \/ m.proof = NULL \/ m.proof # c.own
<1>1. PICK p \in process_authentication_proof(c, m.proof) :
           Follows(o, p, create_authentication_proof(p.ctx))
  BY DEF AfterReplyId, Then, Follows
<1>2. /\ Fit(p) /\ p.ok => p.ctx = c
      /\ ~p.ok => p.short \/ m.proof = NULL \/ m.proof # c.own
  BY ProofProcessed
<1>3. \A e \in create_authentication_proof(p.ctx) : Fit(e) /\ e.ctx = p.ctx /\ (~e.ok => e.short)
  BY <1>1, ProofProcessed, ProofCreated DEF Fit
<1> QED
  BY <1>1, <1>2, <1>3, ProofProcessed, FollowsFits

LEMMA ReplyKeyOutcome ==
  ASSUME NEW c, Sound(c), auth \in BOOLEAN, NEW m \in Replies, NEW o \in AfterReplyKey(c, m)
  PROVE  /\ Fit(o)
         /\ o.ok => /\ o.ctx.session = c.session /\ o.ctx.iv = c.iv
         /\ ~o.ok => o.short \/ NoAnswer(c, m)
<1>1. CASE ~auth
  BY <1>1, DoneFits DEF AfterReplyKey
<1>2. CASE auth
  <2>1. PICK p \in process_authentication_id(c, m.id) : Follows(o, p, AfterReplyId(p.ctx, m))
    BY <1>2 DEF AfterReplyKey, Then, Follows
  <2>2. /\ Fit(p)
        /\ p.ok => /\ p.ctx.peer /\ p.ctx.own = c.own
                   /\ p.ctx.session = c.session /\ p.ctx.iv = c.iv
        /\ ~p.ok => p.short \/ m.id # create_authentication_id
    BY IdProcessed
  <2>3. CASE ~p.ok
    BY <1>2, <2>1, <2>2, <2>3 DEF Follows, NoAnswer
  <2>4. CASE p.ok
    <3>1. \A e \in AfterReplyId(p.ctx, m) :
            /\ Fit(e) /\ (e.ok => e.ctx = p.ctx)
            /\ ~e.ok => e.short \/ m.proof = NULL \/ m.proof # c.own
      BY <2>2, <2>4, ReplyIdOutcome DEF Fit
    <3> QED
      BY <1>2, <2>1, <2>2, <2>4, <3>1, FollowsFits DEF NoAnswer
  <2> QED
    BY <2>3, <2>4
<1> QED
  BY <1>1, <1>2

(* The initiator, having the reply.                                        *)
LEMMA ReplyOutcome ==
  ASSUME NEW c, Sound(c), c.alive, c.own \in Keys, c.sa \in Spis, auth \in BOOLEAN,
         NEW m \in Replies, NEW o \in Command(c, process_handshake_reply(c, m))
  PROVE  /\ Fit(o)
         /\ o.ok => Keyed(o, c.own, m.kep, c.sa) /\ o.ctx.iv = c.iv
         /\ ~o.ok => o.short \/ NoAnswer(c, m)
<1>1. PICK p \in process_key_exchange(c, m.kep) : Follows(o, p, AfterReplyKey(p.ctx, m))
  BY DEF Command, process_handshake_reply, Then, Follows, AfterReplyKey, AfterReplyId
<1>2. /\ Fit(p)
      /\ p.ok => /\ Keyed(p, c.own, m.kep, c.sa)
                 /\ p.ctx.own = c.own /\ p.ctx.iv = c.iv
      /\ ~p.ok => p.short \/ m.kep = NOISE
  BY KeyExchanged DEF Replies, Keyed
<1>3. CASE ~p.ok
  BY <1>1, <1>2, <1>3 DEF Follows, NoAnswer
<1>4. CASE p.ok
  <2>1. \A e \in AfterReplyKey(p.ctx, m) :
          /\ Fit(e)
          /\ e.ok => /\ e.ctx.session = p.ctx.session /\ e.ctx.iv = p.ctx.iv
          /\ ~e.ok => e.short \/ NoAnswer(p.ctx, m)
    BY <1>2, <1>4, ReplyKeyOutcome DEF Fit
  <2> QED
    BY <1>1, <1>2, <1>4, <2>1, FollowsFits DEF Keyed, NoAnswer
<1> QED
  BY <1>3, <1>4

-----------------------------------------------------------------------------
(* The steps. *)

LEMMA InvInit == Init => HandshakeInv
<1> SUFFICES ASSUME Init PROVE HandshakeInv
  OBVIOUS
<1>1. ctx \in [Sides -> Context] /\ \A s \in Sides : Sound(ctx[s])
  BY NoContextSound DEF Init, Sound
<1>2. starts \in 0 .. MaxStarts
  BY DEF Init
<1>3. Typed
  BY <1>1, <1>2, Zenon DEF Typed, Init
<1> QED
  BY <1>3 DEF HandshakeInv, Turns, Awaiting, Challenged, Concluding, Verified, Init

(* Messages are none of each other's kind.                                 *)
LEMMA Kinds ==
  /\ \A m \in Requests : m.type = "request" /\ m.kep \in Keys \cup {NOISE} /\ m.spi \in Spis
                         /\ m.flags \in BOOLEAN
  /\ \A m \in Replies : m.type = "reply"
  /\ \A m \in Proofs : m.type \in {"proof", "packet"}
  /\ \A m \in Acks : m.type = "ack"
  /\ \A p \in Values : NULL # Proof(p)
BY DEF Requests, Replies, Proofs, Acks, Proof

LEMMA AckedKept == HandshakeInv /\ InitiatorAcked => HandshakeInv'
<1> SUFFICES ASSUME HandshakeInv, InitiatorAcked PROVE HandshakeInv'
  OBVIOUS
<1>1. Typed'
  BY DEF HandshakeInv, InitiatorAcked, Typed
<1>2. Turns'
  BY DEF HandshakeInv, InitiatorAcked, Turns, Typed
<1>3. Awaiting' /\ Challenged'
  BY DEF HandshakeInv, InitiatorAcked, Awaiting, Challenged, Key, Damaged, Short, Ini, Tar
<1>4. Concluding' /\ Verified'
  BY DEF HandshakeInv, InitiatorAcked, Concluding, Verified, Key, Damaged, Short, Excused, Ini, Tar
<1> QED
  BY <1>1, <1>2, <1>3, <1>4 DEF HandshakeInv

LEMMA TimesOutKept == HandshakeInv /\ InitiatorTimesOut => HandshakeInv'
<1> SUFFICES ASSUME HandshakeInv, InitiatorTimesOut PROVE HandshakeInv'
  OBVIOUS
<1>0. /\ \/ iPc = "reply" /\ iPc' = "failed"
         \/ iPc = "ack" /\ iPc' \in {"started", "failed"}
      /\ damage' = damage \/ damage' = damage \cup {"early"}
      /\ UNCHANGED <<ctx, tPc, auth, linked, toTar, toIni, starts, proved>>
  BY DEF InitiatorTimesOut
<1>1. Typed'
  BY <1>0 DEF HandshakeInv, Typed
<1>2. Turns'
  BY <1>0 DEF HandshakeInv, Turns, Typed
<1>3. Awaiting' /\ Challenged'
  BY <1>0 DEF HandshakeInv, Awaiting, Challenged, Key, Damaged, Short, Ini, Tar
<1>4. Concluding' /\ Verified'
  BY <1>0 DEF HandshakeInv, Concluding, Verified, Key, Damaged, Short, Excused, Ini, Tar
<1> QED
  BY <1>1, <1>2, <1>3, <1>4 DEF HandshakeInv

LEMMA SendsKept == HandshakeInv /\ InitiatorSends => HandshakeInv'
<1> SUFFICES ASSUME HandshakeInv, InitiatorSends PROVE HandshakeInv'
  OBVIOUS
<1>0. /\ iPc = "started" /\ linked /\ toTar = NULL /\ toTar' = Packet
      /\ UNCHANGED <<iPc, tPc, auth, linked, toIni, starts, damage, proved>>
      /\ ctx' = [ctx EXCEPT !["ini"].seq_n = 1]
  BY DEF InitiatorSends
<1>1. /\ Tar' = Tar /\ Ini'.session = Ini.session /\ Ini'.iv = Ini.iv
      /\ \A s \in Sides : Sound(ctx'[s])
      /\ ctx' \in [Sides -> Context]
  <2>1. ctx \in [Sides -> Context] /\ Sound(Ini) /\ Sound(Tar)
    BY DEF HandshakeInv, Typed, Sides, Ini, Tar
  <2>2. Tar' = Tar /\ Ini' = [Ini EXCEPT !.seq_n = 1]
    BY <1>0, <2>1 DEF Ini, Tar, Sides
  <2>3. Ini' \in Context /\ Ini'.session = Ini.session /\ Ini'.iv = Ini.iv /\ Ini'.held = Ini.held
    BY <2>1, <2>2 DEF Sound, Context
  <2>4. ctx' = [ctx EXCEPT !["ini"] = Ini']
    BY <1>0, <2>1, <2>2 DEF Ini, Sides
  <2> QED
    <3>1. ctx' \in [Sides -> Context]
      BY <2>1, <2>3, <2>4
    <3>2. Sound(Ini') /\ Sound(Tar')
      BY <2>1, <2>2, <2>3 DEF Sound
    <3> QED
      BY <2>2, <2>3, <3>1, <3>2 DEF Sides, Ini, Tar
<1>2. Packet \in Proofs
  BY DEF Packet, Proofs, Values
<1>3. Typed'
  BY <1>0, <1>1, <1>2 DEF HandshakeInv, Typed
<1>4. Turns'
  BY <1>0, <1>2 DEF HandshakeInv, Turns, Typed
<1>5. Awaiting' /\ Challenged'
  BY <1>0, <1>1 DEF HandshakeInv, Awaiting, Challenged, Key, Damaged, Short
<1>6. Concluding'
  <2>1. \A s \in Sides : ctx'[s].session = ctx[s].session
    BY <1>1 DEF Sides, Ini, Tar
  <2> QED
    BY <1>0, <1>1, <2>1 DEF HandshakeInv, Concluding, Damaged, Short, Excused
<1>7. Verified'
  <2>1. tPc = "proof" /\ iPc = "started" => toTar # Proof(Key("tar"))
    <3>1. iPc = "started" => Key("tar") \in Values
      BY DEF HandshakeInv, Turns, Typed, Key, Keys, Values, Sides
    <3> QED
      BY <1>0, <3>1, Kinds
  <2> QED
    BY <1>0, <2>1 DEF HandshakeInv, Verified, Key
<1> QED
  BY <1>3, <1>4, <1>5, <1>6, <1>7 DEF HandshakeInv

(* The ends of a start, on either device. *)
LEMMA InitiatorEndsKept ==
  HandshakeInv /\ (InitiatorStartsOver \/ InitiatorExits) => HandshakeInv'
<1> SUFFICES ASSUME HandshakeInv, InitiatorStartsOver \/ InitiatorExits PROVE HandshakeInv'
  OBVIOUS
<1>0. /\ iPc \in {"started", "failed", "closed"} /\ iPc' = "idle" /\ auth' = FALSE /\ ~linked'
      /\ toTar' = NULL /\ toIni' = NULL /\ damage' = {} /\ proved' = {}
      /\ UNCHANGED <<tPc, starts>> /\ linked' \in BOOLEAN
      /\ ctx' = ctx \/ ctx' = [ctx EXCEPT !["ini"] = NoContext]
  BY DEF InitiatorStartsOver, InitiatorExits, StartOver
<1>1. ctx' \in [Sides -> Context] /\ \A s \in Sides : Sound(ctx'[s])
  BY <1>0, NoContextSound DEF HandshakeInv, Typed, Sound, Sides
<1>2. Typed'
  BY <1>0, <1>1 DEF HandshakeInv, Typed
<1>3. Turns'
  BY <1>0 DEF HandshakeInv, Turns
<1>4. Awaiting' /\ Challenged' /\ Concluding' /\ Verified'
  BY <1>0 DEF Awaiting, Challenged, Concluding, Verified
<1> QED
  BY <1>2, <1>3, <1>4 DEF HandshakeInv

LEMMA TargetEndsKept ==
  HandshakeInv /\ (TargetStartsOver \/ TargetExits) => HandshakeInv'
<1> SUFFICES ASSUME HandshakeInv, TargetStartsOver \/ TargetExits PROVE HandshakeInv'
  OBVIOUS
<1>0. /\ tPc' = "listening"
      /\ tPc = "failed" \/ (~linked /\ tPc # "listening")
      /\ UNCHANGED <<iPc, auth, linked, toTar, toIni, starts, damage, proved>>
      /\ ctx' = ctx \/ ctx' = [ctx EXCEPT !["tar"] = NoContext]
  BY DEF TargetStartsOver, TargetExits
<1>1. /\ ctx' \in [Sides -> Context] /\ \A s \in Sides : Sound(ctx'[s])
      /\ Ini' = Ini
  BY <1>0, NoContextSound DEF HandshakeInv, Typed, Sound, Sides, Ini
<1>2. Typed'
  BY <1>0, <1>1 DEF HandshakeInv, Typed
<1>3. Turns'
  BY <1>0 DEF HandshakeInv, Turns
<1>4. Awaiting'
  BY <1>0, <1>1 DEF HandshakeInv, Awaiting, Damaged, Short, Key
<1>5. Challenged' /\ Concluding' /\ Verified'
  BY <1>0 DEF HandshakeInv, Challenged, Concluding, Verified
<1> QED
  BY <1>2, <1>3, <1>4, <1>5 DEF HandshakeInv

(* A context put in place of another. *)
LEMMA Replaced ==
  ASSUME Typed, NEW s \in Sides, NEW c, Sound(c), ctx' = [ctx EXCEPT ![s] = c]
  PROVE  /\ ctx' \in [Sides -> Context] /\ \A t \in Sides : Sound(ctx'[t])
         /\ ctx'[s] = c /\ \A t \in Sides \ {s} : ctx'[t] = ctx[t]
BY DEF Typed, Sound

LEMMA StartsKept ==
  ASSUME HandshakeInv, NEW flag \in AuthFlags, NEW spi \in Spis, InitiatorStarts(flag, spi)
  PROVE  HandshakeInv'
<1> DEFINE key == <<"ini", starts + 1>>
<1>0. /\ iPc = "idle" /\ starts < MaxStarts
      /\ starts' = starts + 1 /\ auth' = flag /\ linked' = TRUE /\ tPc' = "request"
      /\ proved' = {} /\ toIni' = NULL
  BY DEF InitiatorStarts
<1>1. PICK o \in Command(ctx["ini"], Then(set_security_parameters(ctx["ini"], key, spi),
                                          create_handshake_request)) :
           /\ ctx' = [ctx EXCEPT !["ini"] = o.ctx]
           /\ damage' = Blame(o)
           /\ IF o.ok THEN iPc' = "reply" /\ toTar' = Request(spi, flag, key)
              ELSE iPc' = "failed" /\ toTar' = NULL
  BY DEF InitiatorStarts
<1>2. key \in Keys /\ starts' \in 1 .. MaxStarts /\ key = Key("ini")'
  BY <1>0 DEF HandshakeInv, Typed, Keys, Sides, Key
<1>3. Typed /\ Sound(ctx["ini"])
  BY DEF HandshakeInv, Typed, Sides
<1> HIDE DEF key
<1>4. /\ Fit(o)
      /\ o.ok => /\ o.ctx.own = key /\ o.ctx.sa = spi /\ o.ctx.iv = key /\ o.ctx.alive
  BY <1>1, <1>2, <1>3, RequestOutcome
<1>5. /\ ctx' \in [Sides -> Context] /\ \A s \in Sides : Sound(ctx'[s])
      /\ Ini' = o.ctx
  BY <1>1, <1>3, <1>4, Replaced DEF Fit, Sides, Ini
<1>6. flag \in BOOLEAN /\ Request(spi, flag, key) \in Requests
  BY <1>2 DEF Request, Requests, Ids
<1>7. Blame(o) \subseteq {"failed", "short"} /\ ~Damaged'
  BY <1>1 DEF Blame, Damaged
<1>8. iPc' \in {"reply", "failed"} /\ toTar' \in Requests \cup {NULL}
  BY <1>1, <1>6
<1>9. Typed'
  BY <1>0, <1>1, <1>2, <1>3, <1>5, <1>6, <1>7, <1>8 DEF Typed
<1>10. Turns'
  BY <1>0, <1>2, <1>8 DEF Turns
<1>11. Awaiting'
  <2>1. iPc' = "reply" => o.ok /\ toTar' = Request(spi, flag, key)
    BY <1>1
  <2> QED
    BY <1>0, <1>2, <1>4, <1>5, <2>1 DEF Awaiting
<1>12. Challenged' /\ Concluding' /\ Verified'
  BY <1>0, <1>8 DEF Challenged, Concluding, Verified
<1> QED
  BY <1>9, <1>10, <1>11, <1>12 DEF HandshakeInv

LEMMA CloseKept ==
  ASSUME HandshakeInv, NEW s \in Sides, CloseContext(s)
  PROVE  HandshakeInv'
<1>0. /\ \/ s = "ini" /\ iPc = "started" /\ iPc' = "closed" /\ UNCHANGED tPc
         \/ s = "tar" /\ tPc = "started" /\ tPc' = "closed" /\ UNCHANGED iPc
      /\ ctx' = [ctx EXCEPT ![s] = security_context_close(ctx[s])]
      /\ UNCHANGED <<auth, linked, toTar, toIni, starts, damage, proved>>
  BY DEF CloseContext, Sides
<1>1. Typed /\ Sound(ctx[s])
  BY DEF HandshakeInv, Typed
<1>2. Sound(security_context_close(ctx[s]))
  <2> DEFINE d == [ctx[s] EXCEPT !.session = NULL, !.seq_n = 0]
  <2>1. Sound(d) /\ d.session = NULL
    BY <1>1 DEF Sound, Context
  <2>2. security_context_close(ctx[s]) = Freed(d, NonNull(ctx[s]))
    BY DEF security_context_close
  <2> HIDE DEF d
  <2> QED
    BY <2>1, <2>2, FreedSound DEF NonNull
<1>3. /\ ctx' \in [Sides -> Context] /\ \A t \in Sides : Sound(ctx'[t])
      /\ \A t \in Sides \ {s} : ctx'[t] = ctx[t]
  BY <1>0, <1>1, <1>2, Replaced
<1>4. Typed'
  BY <1>0, <1>3 DEF HandshakeInv, Typed
<1>5. Turns'
  BY <1>0 DEF HandshakeInv, Turns
<1>6. Awaiting'
  <2>1. CASE s = "ini"
    BY <1>0, <2>1 DEF HandshakeInv, Awaiting
  <2>2. CASE s = "tar"
    <3>1. Ini' = Ini
      BY <1>3, <2>2 DEF Ini, Sides
    <3> QED
      BY <1>0, <2>2, <3>1 DEF HandshakeInv, Awaiting, Damaged, Short, Key
  <2> QED
    BY <2>1, <2>2 DEF Sides
<1>7. Challenged'
  <2>1. tPc' = "proof" => s = "ini" /\ tPc = "proof"
    BY <1>0
  <2>2. s = "ini" => Tar' = Tar
    BY <1>3 DEF Tar, Sides
  <2> QED
    BY <1>0, <2>1, <2>2 DEF HandshakeInv, Challenged, Damaged, Short, Key
<1>8. Concluding'
  BY <1>0 DEF Concluding
<1>9. Verified'
  BY <1>0 DEF HandshakeInv, Verified, Key
<1> QED
  BY <1>4, <1>5, <1>6, <1>7, <1>8, <1>9 DEF HandshakeInv

LEMMA LoseKept == HandshakeInv /\ Lose => HandshakeInv'
<1> SUFFICES ASSUME HandshakeInv, Lose PROVE HandshakeInv'
  OBVIOUS
<1>0. /\ \/ toTar' = NULL /\ UNCHANGED toIni
         \/ toIni' = NULL /\ UNCHANGED toTar
      /\ damage' = damage \cup {"lost"}
      /\ UNCHANGED <<ctx, iPc, tPc, auth, linked, starts, proved>>
  BY DEF Lose
<1>1. Typed'
  BY <1>0 DEF HandshakeInv, Typed
<1>2. Turns'
  BY <1>0 DEF HandshakeInv, Turns
<1>3. Awaiting' /\ Challenged'
  BY <1>0 DEF HandshakeInv, Awaiting, Challenged, Key, Damaged, Short, Ini, Tar
<1>4. Concluding' /\ Verified'
  BY <1>0 DEF HandshakeInv, Concluding, Verified, Key, Damaged, Short, Excused, Ini, Tar
<1> QED
  BY <1>1, <1>2, <1>3, <1>4 DEF HandshakeInv

(* A garbled message is still of its kind. *)
LEMMA GarbledKind ==
  /\ \A m \in Requests : Garbled(m) \subseteq Requests
  /\ \A m \in Replies : Garbled(m) \subseteq Replies
  /\ \A m \in Proofs : Garbled(m) \subseteq Proofs
  /\ \A m \in Acks : Garbled(m) \subseteq Acks
<1>1. ASSUME NEW m \in Requests, NEW n \in Garbled(m) PROVE n \in Requests
  <2>1. \/ n = [m EXCEPT !["kep"] = NOISE] \/ n = [m EXCEPT !["id"] = NOISE]
        \/ n = [m EXCEPT !.flags = ~m.flags] \/ \E i \in Spis : n = [m EXCEPT !.spi = i]
    BY DEF Garbled, Requests
  <2> QED
    BY <2>1 DEF Requests, Ids
<1>2. ASSUME NEW m \in Replies, NEW n \in Garbled(m) PROVE n \in Replies
  <2>1. \/ n = [m EXCEPT !["kep"] = NOISE] \/ n = [m EXCEPT !["id"] = NOISE]
        \/ n = [m EXCEPT !["proof"] = NOISE]
    BY DEF Garbled, Replies
  <2> QED
    BY <2>1 DEF Replies, Ids, Values
<1>3. ASSUME NEW m \in Proofs, NEW n \in Garbled(m) PROVE n \in Proofs
  <2>1. n = [m EXCEPT !["proof"] = NOISE]
    BY DEF Garbled, Proofs
  <2> QED
    BY <2>1 DEF Proofs, Values
<1>4. ASSUME NEW m \in Acks, NEW n \in Garbled(m) PROVE n \in Acks
  BY DEF Garbled, Acks
<1> QED
  BY <1>1, <1>2, <1>3, <1>4

LEMMA GarbleKept == HandshakeInv /\ Garble => HandshakeInv'
<1> SUFFICES ASSUME HandshakeInv, Garble PROVE HandshakeInv'
  OBVIOUS
<1>0. /\ \/ toTar # NULL /\ toTar' \in Garbled(toTar) /\ UNCHANGED toIni
         \/ toIni # NULL /\ toIni' \in Garbled(toIni) /\ UNCHANGED toTar
      /\ damage' = damage \cup {"garbled"}
      /\ UNCHANGED <<ctx, iPc, tPc, auth, linked, starts, proved>>
  BY DEF Garble
<1>1. /\ toTar \in Requests \cup {NULL} => toTar' \in Requests \cup {NULL}
      /\ toTar \in Proofs \cup {NULL} => toTar' \in Proofs \cup {NULL}
      /\ toIni \in Replies \cup {NULL} => toIni' \in Replies \cup {NULL}
      /\ toIni \in Acks \cup {NULL} => toIni' \in Acks \cup {NULL}
      /\ toTar = NULL => toTar' = NULL
      /\ toIni = NULL => toIni' = NULL
  BY <1>0, GarbledKind
<1>2. Typed'
  BY <1>0, <1>1 DEF HandshakeInv, Typed
<1>3. Turns'
  BY <1>0, <1>1 DEF HandshakeInv, Turns
<1>4. Awaiting' /\ Challenged' /\ Concluding' /\ Verified'
  BY <1>0 DEF HandshakeInv, Awaiting, Challenged, Concluding, Verified, Key, Damaged, Ini, Tar
<1> QED
  BY <1>2, <1>3, <1>4 DEF HandshakeInv

(* The initiator has the reply: keyed alike, or told so by the history.    *)
LEMMA ProvesKept == HandshakeInv /\ InitiatorProves => HandshakeInv'
<1> SUFFICES ASSUME HandshakeInv, InitiatorProves PROVE HandshakeInv'
  OBVIOUS
<1>1. /\ iPc = "reply" /\ toIni # NULL
      /\ toIni' = NULL
      /\ UNCHANGED <<tPc, auth, linked, starts>>
  BY DEF InitiatorProves
<1>2. PICK o \in Command(ctx["ini"], process_handshake_reply(ctx["ini"], toIni)) :
       /\ ctx' = [ctx EXCEPT !["ini"] = o.ctx]
       /\ damage' = damage \cup Blame(o)
       /\ proved' = IF o.ok /\ auth THEN proved \cup {"ini"} ELSE proved
       /\ IF auth THEN iPc' = "ack" /\ toTar' = Proof(IF o.ok /\ o.signed THEN toIni.kep ELSE NULL)
          ELSE iPc' = (IF o.ok THEN "started" ELSE "failed") /\ UNCHANGED toTar
  BY DEF InitiatorProves
<1>3. /\ Typed /\ Sound(Ini) /\ Ini.alive /\ Ini.own = Key("ini") /\ Ini.own \in Keys
      /\ Ini.sa \in Spis /\ Ini.iv = Key("ini")
      /\ toIni \in Replies /\ auth \in BOOLEAN /\ linked
  <2>1. toIni \in Replies /\ linked /\ starts \in 1 .. MaxStarts
    BY <1>1 DEF HandshakeInv, Turns, Typed
  <2>2. Key("ini") \in Keys
    BY <2>1 DEF Key, Keys, Sides
  <2> QED
    BY <1>1, <2>1, <2>2 DEF HandshakeInv, Typed, Awaiting, Sides, Ini
<1>4. /\ Fit(o)
      /\ o.ok => Keyed(o, Ini.own, toIni.kep, Ini.sa) /\ o.ctx.iv = Ini.iv
      /\ ~o.ok => o.short \/ NoAnswer(Ini, toIni)
  BY <1>2, <1>3, ReplyOutcome DEF Ini
<1>5. /\ ctx' \in [Sides -> Context] /\ \A s \in Sides : Sound(ctx'[s])
      /\ Ini' = o.ctx /\ Tar' = Tar
  BY <1>2, <1>3, <1>4, Replaced DEF Fit, Sides, Ini, Tar
<1>6. /\ Blame(o) \subseteq {"failed", "short"}
      /\ o.short => "short" \in damage'
      /\ ~o.ok => damage' \cap {"failed", "short"} # {}
      /\ damage \subseteq damage' /\ ("garbled" \in damage' => "garbled" \in damage)
      /\ ("lost" \in damage' => "lost" \in damage)
  BY <1>2 DEF Blame
<1>7. iPc' \in {"ack", "started", "failed"} /\ (iPc' = "ack" <=> auth)
  BY <1>2, <1>3
<1>8. /\ toTar' \in Proofs \cup {toTar} /\ toTar' \in Requests \cup Proofs \cup {NULL}
      /\ auth => toTar' \in Proofs
  BY <1>2, <1>3 DEF Proof, Proofs, Values, Replies, Typed
<1>9. Typed'
  BY <1>1, <1>2, <1>3, <1>5, <1>6, <1>7, <1>8 DEF Typed, Sides
<1>10. Turns'
  <2>1. tPc # "request"
    BY <1>1, <1>3 DEF HandshakeInv, Turns
  <2> QED
    BY <1>1, <1>3, <1>7, <1>8, <2>1 DEF HandshakeInv, Turns
<1>11. Awaiting'
  BY <1>7 DEF Awaiting
<1>12. Challenged'
  BY <1>1, <1>5, <1>6 DEF HandshakeInv, Challenged, Damaged, Short, Key
(* What an answer to this request is. *)
<1>13. ~Damaged => /\ toIni.kep = Key("tar")
                   /\ auth => /\ toIni.id = create_authentication_id
                              /\ toIni.proof = Key("ini") \/ Short
  BY <1>1 DEF HandshakeInv, Awaiting
<1>14. ~Damaged' => o.ok \/ Short'
  <2>1. Key("tar") # NOISE /\ Key("ini") # NULL
    BY <1>3 DEF Key, Keys, Values, Sides, HandshakeInv, Turns, Typed
  <2> QED
    BY <1>3, <1>4, <1>6, <1>13, <2>1 DEF NoAnswer, Damaged, Short
<1>15. Concluding'
  <2> SUFFICES ASSUME iPc' \in {"ack", "started"}, ~Damaged', tPc' \in {"proof", "started"},
                      ~Excused'
               PROVE  \/ Short' /\ \E s \in Sides : ctx'[s].session = NULL
                      \/ /\ Ini'.session # NULL /\ Ini'.session = Tar'.session
                         /\ Ini'.iv = Tar'.iv /\ Tar'.seq_n = 0
    BY DEF Concluding
  <2>1. o.ok /\ ~Damaged
    BY <1>1, <1>2, <1>3, <1>6, <1>7 DEF Excused, Damaged
  <2>2. Keyed(o, Key("ini"), Key("tar"), Ini.sa) /\ o.ctx.iv = Key("ini")
    BY <1>3, <1>4, <1>13, <2>1
  <2>3. \/ Short /\ Tar.session = NULL
        \/ /\ Tar.session = [keys |-> {Key("ini"), Key("tar")}, sa |-> Ini.sa]
           /\ Tar.iv = Key("ini") /\ Tar.seq_n = 0
    BY <1>1, <2>1 DEF HandshakeInv, Awaiting
  <2>4. CASE o.short /\ o.ctx.session = NULL
    BY <1>5, <1>6, <2>4 DEF Short, Ini, Sides
  <2>5. CASE Short /\ Tar.session = NULL
    BY <1>5, <1>6, <2>5 DEF Short, Tar, Sides
  <2>6. CASE /\ o.ctx.session = [keys |-> {Key("ini"), Key("tar")}, sa |-> Ini.sa]
             /\ Tar.session = [keys |-> {Key("ini"), Key("tar")}, sa |-> Ini.sa]
             /\ Tar.iv = Key("ini") /\ Tar.seq_n = 0
    <3>1. Tar.session \in Secrets
      BY <1>1, <1>3, <2>6 DEF HandshakeInv, Turns, Typed, Secrets, Key, Keys, Sides
    <3> QED
      BY <1>5, <2>2, <2>6, <3>1
  <2> QED
    BY <2>2, <2>3, <2>4, <2>5, <2>6 DEF Keyed
<1>16. Verified'
  <2> SUFFICES ASSUME auth, iPc' = "ack"
               PROVE  /\ "ini" \in proved' \/ damage' \cap {"garbled", "short"} # {}
                      /\ tPc' = "started" =>
                           "tar" \in proved' \/ damage' \cap {"lost", "garbled", "short"} # {}
                      /\ tPc' = "proof" => \/ toTar' = Proof(Key("tar")')
                                           \/ damage' \cap {"lost", "garbled", "short"} # {}
    BY <1>1, <1>7 DEF Verified
  <2>1. "ini" \in proved' \/ damage' \cap {"garbled", "short"} # {}
    BY <1>2, <1>14 DEF Damaged, Short
  <2>2. tPc' = "started" => "garbled" \in damage'
    BY <1>1, <1>6 DEF HandshakeInv, Awaiting, Damaged
  <2>3. damage' \cap {"garbled", "short"} # {} \/ toTar' = Proof(Key("tar"))
    BY <1>2, <1>4, <1>6, <1>13, <1>14 DEF Damaged, Short, Fit
  <2> QED
    BY <1>1, <2>1, <2>2, <2>3 DEF Key
<1> QED
  BY <1>9, <1>10, <1>11, <1>12, <1>15, <1>16 DEF HandshakeInv

(* The target answers. *)
LEMMA AnswersKept == HandshakeInv /\ TargetAnswers => HandshakeInv'
<1> SUFFICES ASSUME HandshakeInv, TargetAnswers PROVE HandshakeInv'
  OBVIOUS
<1> DEFINE key == <<"tar", starts>>
<1>1. /\ tPc = "request" /\ toTar # NULL
      /\ toTar' = NULL
      /\ UNCHANGED <<iPc, auth, linked, starts, proved>>
  BY DEF TargetAnswers
<1>2. PICK o \in Command(ctx["tar"], process_handshake_request(ctx["tar"], toTar, key)) :
       /\ ctx' = [ctx EXCEPT !["tar"] = o.ctx]
       /\ damage' = damage \cup Blame(o) \/ damage' = damage \cup Blame(o) \cup {"lost"}
       /\ \/ o.ok /\ tPc' = NextWait(toTar) /\ toIni' = Reply(key, toTar, o.signed)
          \/ tPc' = "failed" /\ UNCHANGED toIni
  BY DEF TargetAnswers
<1>3. /\ Typed /\ Sound(Ini) /\ Sound(Tar) /\ key = Key("tar") /\ key \in Keys /\ linked
      /\ Key("ini") \in Keys /\ toTar \in Requests /\ toIni = NULL
      /\ iPc \in {"idle", "reply", "failed"}
  <2>1. toTar \in Requests /\ linked /\ starts \in 1 .. MaxStarts
    BY <1>1 DEF HandshakeInv, Turns, Typed
  <2> QED
    BY <1>1, <2>1 DEF HandshakeInv, Turns, Typed, Sides, Ini, Tar, Key, Keys
<1>4. /\ Fit(o)
      /\ o.ok => /\ o.ctx.own = key /\ o.ctx.iv = toTar.kep
                 /\ Keyed(o, key, toTar.kep, toTar.spi) /\ o.ctx.seq_n = 0
                 /\ o.ctx.alive
                 /\ toTar.flags => o.ctx.peer
  BY <1>2, <1>3, AnswerOutcome DEF Tar
<1> HIDE DEF key
<1>5. /\ ctx' \in [Sides -> Context] /\ \A s \in Sides : Sound(ctx'[s])
      /\ Tar' = o.ctx /\ Ini' = Ini
  BY <1>2, <1>3, <1>4, Replaced DEF Fit, Sides, Ini, Tar
<1>6. /\ damage' \subseteq damage \cup {"failed", "short", "lost"}
      /\ o.short => "short" \in damage'
      /\ damage \subseteq damage' /\ ("garbled" \in damage' => "garbled" \in damage)
  BY <1>2 DEF Blame
<1>7. toTar.flags \in BOOLEAN /\ toTar.kep \in Keys \cup {NOISE} /\ toTar.spi \in Spis
  BY <1>3, Kinds
<1>8. /\ Reply(key, toTar, o.signed) \in Replies
      /\ Reply(key, toTar, o.signed).kep = key
      /\ toTar.flags => /\ Reply(key, toTar, o.signed).id = create_authentication_id
                        /\ o.signed => Reply(key, toTar, o.signed).proof = toTar.kep
  BY <1>3, <1>7 DEF Reply, Replies, Ids, Values
<1>9. /\ tPc' \in {"proof", "started", "failed"} /\ toIni' \in Replies \cup {NULL}
      /\ tPc' = "proof" => o.ok /\ toTar.flags
      /\ tPc' = "started" => o.ok /\ ~toTar.flags
      /\ toIni' # NULL => o.ok /\ toIni' = Reply(key, toTar, o.signed)
  BY <1>2, <1>3, <1>8 DEF NextWait
<1>10. Typed'
  BY <1>1, <1>3, <1>5, <1>6, <1>9 DEF Typed
<1>11. Turns'
  BY <1>1, <1>3, <1>9 DEF HandshakeInv, Turns
<1>12. Awaiting'
  <2> SUFFICES ASSUME iPc = "reply"
               PROVE  Awaiting'
    BY <1>1 DEF Awaiting
  <2>1. Ini'.alive /\ Ini'.own = Key("ini")' /\ Ini'.sa \in Spis /\ Ini'.iv = Key("ini")'
    BY <1>1, <1>5 DEF HandshakeInv, Awaiting, Key
  <2>2. ASSUME ~Damaged' PROVE toTar = Request(Ini.sa, auth, Key("ini"))
    BY <1>1, <1>6, <2>2 DEF HandshakeInv, Awaiting, Damaged
  <2>3. ASSUME ~Damaged' PROVE toTar.spi = Ini.sa /\ toTar.flags = auth /\ toTar.kep = Key("ini")
    BY <2>2, <2>3 DEF Request
  <2>4. ASSUME ~Damaged', toIni' # NULL
        PROVE  /\ toIni'.kep = Key("tar")'
               /\ auth => /\ toIni'.id = create_authentication_id
                          /\ toIni'.proof = Key("ini")' \/ Short'
    <3>1. toIni'.kep = Key("tar")'
      BY <1>1, <1>3, <1>8, <1>9, <2>4 DEF Key
    <3>2. auth => toIni'.id = create_authentication_id
      BY <1>8, <1>9, <2>3, <2>4
    <3>3. auth /\ o.signed => toIni'.proof = Key("ini")'
      BY <1>1, <1>8, <1>9, <2>3, <2>4 DEF Key
    <3>4. ~o.signed => Short'
      BY <1>4, <1>6 DEF Fit, Short
    <3> QED
      BY <3>1, <3>2, <3>3, <3>4
  <2>5. ASSUME ~Damaged' PROVE auth => tPc' # "started"
    BY <1>9, <2>3, <2>5
  <2>6. ASSUME ~Damaged', tPc' \in {"proof", "started"}
        PROVE  \/ Short' /\ Tar'.session = NULL
               \/ /\ Tar'.session = [keys |-> {Key("ini")', Key("tar")'}, sa |-> Ini'.sa]
                  /\ Tar'.iv = Key("ini")' /\ Tar'.seq_n = 0
    <3>1. o.ok
      BY <1>9, <2>6
    <3>2. Keyed(o, Key("tar"), Key("ini"), Ini.sa) /\ o.ctx.iv = Key("ini") /\ o.ctx.seq_n = 0
      BY <1>3, <1>4, <2>3, <2>6, <3>1
    <3>3. CASE o.short /\ o.ctx.session = NULL
      BY <1>5, <1>6, <3>3 DEF Short
    <3>4. CASE o.ctx.session = [keys |-> {Key("tar"), Key("ini")}, sa |-> Ini.sa]
      <4>1. {Key("tar"), Key("ini")} = {Key("ini"), Key("tar")}
        OBVIOUS
      <4> QED
        BY <1>1, <1>5, <3>2, <3>4, <4>1 DEF Key
    <3> QED
      BY <3>2, <3>3, <3>4 DEF Keyed
  <2> QED
    BY <1>1, <2>1, <2>4, <2>5, <2>6 DEF Awaiting
<1>13. Challenged'
  BY <1>1, <1>3, <1>4, <1>5, <1>9 DEF Challenged, Key
<1>14. Concluding' /\ Verified'
  BY <1>1, <1>3 DEF Concluding, Verified
<1> QED
  BY <1>10, <1>11, <1>12, <1>13, <1>14 DEF HandshakeInv

(* The target takes what arrives for the initiator's proof. *)
LEMMA ConcludesKept == HandshakeInv /\ TargetConcludes => HandshakeInv'
<1> SUFFICES ASSUME HandshakeInv, TargetConcludes PROVE HandshakeInv'
  OBVIOUS
<1>1. /\ tPc = "proof" /\ toTar # NULL
      /\ tPc' = "started" /\ toIni' = Ack /\ toTar' = NULL
      /\ UNCHANGED <<iPc, auth, linked, starts>>
  BY DEF TargetConcludes
<1>2. PICK o \in Command(ctx["tar"], process_authentication_proof(ctx["tar"], toTar.proof)) :
       /\ ctx' = [ctx EXCEPT !["tar"] = o.ctx]
       /\ damage' = damage \cup Blame(o)
       /\ proved' = IF o.ok THEN proved \cup {"tar"} ELSE proved
  BY DEF TargetConcludes
<1>3. /\ Typed /\ Sound(Ini) /\ Sound(Tar) /\ toTar \in Proofs /\ linked
      /\ Key("tar") \in Keys /\ iPc # "reply"
  <2>1. toTar \in Proofs /\ linked /\ starts \in 1 .. MaxStarts /\ iPc # "reply"
    BY <1>1 DEF HandshakeInv, Turns, Typed
  <2> QED
    BY <2>1 DEF HandshakeInv, Typed, Sides, Ini, Tar, Key, Keys
<1>4. /\ Fit(o)
      /\ o.ok => o.ctx = Tar
      /\ ~o.ok => /\ o.ctx = Tar \/ (o.short /\ o.ctx = Panicked)
                  /\ \/ o.short \/ ~Tar.alive \/ ~Tar.peer
                     \/ toTar.proof = NULL \/ toTar.proof # Tar.own
  <2>1. CASE Tar.alive
    BY <1>2, <1>3, <2>1, ProofProcessed DEF Command, Tar
  <2>2. CASE ~Tar.alive
    BY <1>2, <1>3, <2>2, DoneFits DEF Command, Tar
  <2> QED
    BY <2>1, <2>2
<1>5. /\ ctx' \in [Sides -> Context] /\ \A s \in Sides : Sound(ctx'[s])
      /\ Tar' = o.ctx /\ Ini' = Ini
  BY <1>2, <1>3, <1>4, Replaced DEF Fit, Sides, Ini, Tar
<1>6. /\ damage' \subseteq damage \cup {"failed", "short"}
      /\ o.short => "short" \in damage'
      /\ damage \subseteq damage' /\ ("garbled" \in damage' => "garbled" \in damage)
  BY <1>2 DEF Blame
<1>7. Typed'
  BY <1>1, <1>2, <1>3, <1>5, <1>6 DEF Typed, Sides, Ack, Acks
<1>8. Turns'
  BY <1>1, <1>3 DEF HandshakeInv, Turns, Ack, Acks
<1>9. Awaiting' /\ Challenged'
  BY <1>1, <1>3 DEF Awaiting, Challenged
<1>10. Concluding'
  <2> SUFFICES ASSUME iPc \in {"ack", "started"}, ~Damaged', ~Excused'
               PROVE  \/ Short' /\ \E s \in Sides : ctx'[s].session = NULL
                      \/ /\ Ini'.session # NULL /\ Ini'.session = Tar'.session
                         /\ Ini'.iv = Tar'.iv /\ Tar'.seq_n = 0
    BY <1>1 DEF Concluding
  <2>1. ~Damaged /\ ~Excused /\ (Short => Short')
    BY <1>1, <1>6 DEF Damaged, Excused, Short
  <2>2. CASE o.ctx = Tar
    <3>1. \A s \in Sides : ctx'[s] = ctx[s]
      BY <1>5, <2>2 DEF Sides, Ini, Tar
    <3> QED
      BY <1>1, <1>5, <2>1, <2>2, <3>1 DEF HandshakeInv, Concluding
  <2>3. CASE o.short /\ o.ctx = Panicked
    BY <1>5, <1>6, <2>3, NoContextSound DEF Short, Tar, Sides
  <2> QED
    BY <1>4, <2>2, <2>3
<1>11. Verified'
  <2> SUFFICES ASSUME iPc \in {"ack", "started"}, auth
               PROVE  /\ "ini" \in proved' \/ damage' \cap {"garbled", "short"} # {}
                      /\ "tar" \in proved' \/ damage' \cap {"lost", "garbled", "short"} # {}
    BY <1>1 DEF Verified
  <2>1. "ini" \in proved' \/ damage' \cap {"garbled", "short"} # {}
    BY <1>2, <1>6 DEF HandshakeInv, Verified
  <2>2. CASE damage' \cap {"lost", "garbled", "short"} = {}
    <3>1. ~Damaged /\ ~Short /\ toTar = Proof(Key("tar"))
      BY <1>1, <1>6, <2>2 DEF HandshakeInv, Verified, Damaged, Short
    <3>2. toTar.proof = Key("tar") /\ Key("tar") # NULL
      BY <1>3, <3>1 DEF Proof
    <3>3. Tar.alive /\ Tar.peer /\ Tar.own = Key("tar")
      BY <1>1, <1>3, <3>1 DEF HandshakeInv, Challenged
    <3>4. o.ok
      BY <1>4, <1>6, <2>2, <3>2, <3>3
    <3> QED
      BY <1>2, <2>1, <3>4
  <2> QED
    BY <2>1, <2>2
<1> QED
  BY <1>7, <1>8, <1>9, <1>10, <1>11 DEF HandshakeInv

LEMMA InvKept == HandshakeInv /\ [Next]_vars => HandshakeInv'
<1> SUFFICES ASSUME HandshakeInv, [Next]_vars PROVE HandshakeInv'
  OBVIOUS
<1>1. CASE UNCHANGED vars
  BY <1>1 DEF vars, HandshakeInv, Typed, Turns, Awaiting, Challenged, Concluding, Verified,
     Key, Damaged, Short, Excused, Ini, Tar
<1> QED
  BY <1>1, StartsKept, ProvesKept, AckedKept, TimesOutKept, AnswersKept, ConcludesKept,
     SendsKept, InitiatorEndsKept, TargetEndsKept, CloseKept, LoseKept, GarbleKept
  DEF Next, Initiates, Answers

(* A start is as far as its messages say, in every handshake.              *)
THEOREM HandshakeCorrect == Spec => []HandshakeInv
  BY InvInit, InvKept, PTL DEF Spec

LEMMA ContextTyped ==
  ASSUME NEW c, Sound(c)
  PROVE  IsContext(c)
<1>1. c.session # NULL => c.session \in Secrets
  BY DEF Sound, Context
<1> QED
  BY <1>1 DEF Sound, Context, Secrets, IsContext

(* Types of all variables; a context that has session keys has the handles *)
(* they were set in, and a message on the air is of the running start.     *)
THEOREM TypeCorrect == Spec => []TypeOK
<1>1. HandshakeInv => TypeOK
  <2> SUFFICES ASSUME HandshakeInv PROVE TypeOK
    OBVIOUS
  <2>1. \A s \in Sides : IsContext(ctx[s])
    BY ContextTyped DEF HandshakeInv, Typed
  <2>2. toTar # NULL => linked /\ toTar.type \in {"request", "proof", "packet"}
    BY Kinds DEF HandshakeInv, Typed, Turns
  <2>3. toIni # NULL => linked /\ toIni.type \in {"reply", "ack"}
    BY Kinds DEF HandshakeInv, Typed, Turns
  <2> QED
    BY <2>1, <2>2, <2>3 DEF HandshakeInv, Typed, Turns, TypeOK
<1> QED
  BY HandshakeCorrect, <1>1, PTL

(* Devices that were both told that their start succeeded share the secret *)
(* and the IV, unless a field was garbled, a failure was overwritten, or a *)
(* device short of memory has no keys.                                     *)
THEOREM KeysAgreed == Spec => []KeysAgree
<1>1. HandshakeInv => KeysAgree
  BY DEF HandshakeInv, Concluding, KeysAgree, BothStarted, Damaged, Short, Excused, Ini, Tar
<1> QED
  BY HandshakeCorrect, <1>1, PTL

(* And they have verified each other when they were to, unless a message   *)
(* was lost, garbled, or memory short.                                     *)
THEOREM PeersVerified == Spec => []ProofsExplained
<1>1. HandshakeInv => ProofsExplained
  BY DEF HandshakeInv, Verified, ProofsExplained, BothStarted
<1> QED
  BY HandshakeCorrect, <1>1, PTL
=============================================================================
