--------------------------- MODULE LifetimesProofs --------------------------
(***************************************************************************)
(* That a program's handshake is not disturbed and that no card is lost    *)
(* when the programs of a device come and go, for any number of them.      *)
(*                                                                         *)
(* Both are consequences of which sessions are open: a program that has    *)
(* the context of the secure NFC TA keeps a session with that TA, and one  *)
(* that stores cards keeps one with the data store, its own or the         *)
(* THCE's.  LifetimeInv says so of every program, from where it is (pc)    *)
(* and from where the THCE's entry points are (thce).                      *)
(***************************************************************************)
EXTENDS Lifetimes, TLAPS

TAs == {"THCE", "TDS", "SNFC"}

States == {"off", "opening", "opened", "connected", "ready", "started",
           "closing", "closed", "leaving", "using"} \cup Gone

Typed ==
  /\ pc \in [Programs -> States]
  /\ sessions \subseteq (Programs \cup {"THCE"}) \X TAs
  /\ thce \in DOMAIN Links
  /\ device \in Programs \cup {NULL} /\ ctx \in Programs \cup {NULL}
  /\ mem \subseteq Programs /\ disk \subseteq Programs /\ stored \subseteq Programs

(* The THCE's own sessions. *)
ThceLinked == \A t \in TAs : <<"THCE", t>> \in sessions <=> t \in Links[thce]

Engaged(p) == pc[p] = "opening" \/ <<p, "THCE">> \in sessions

(* The THCE serves one program: while it is created for it, and then while *)
(* the program's session is open.                                          *)
ThceServesOne ==
  /\ \A p \in Programs : pc[p] = "opening" => thce \in {"creating", "linking"}
  /\ \A p \in Programs : <<p, "THCE">> \in sessions => thce = "up"
  /\ \A p, q \in Programs : Engaged(p) /\ Engaged(q) => p = q
  /\ thce \in {"creating", "linking", "up"} => \E p \in Programs : Engaged(p)

HasSnfc == {"connected", "ready", "started", "closing", "closed"}
HasDevice == {"ready", "started", "closing"}

(* What a program has open where it is. *)
ProgramHolds(p) ==
  /\ pc[p] \in {"opened", "leaving"} => <<p, "THCE">> \in sessions
  /\ pc[p] \in HasSnfc =>
       /\ <<p, "SNFC">> \in sessions
       /\ Kind[p] = "pay" => <<p, "THCE">> \in sessions
  /\ pc[p] \in HasDevice => device = p
  /\ pc[p] = "using" => <<p, "TDS">> \in sessions
  /\ pc[p] = "ended" => device # p /\ \A t \in TAs : <<p, t>> \notin sessions

SessionsFit ==
  Typed /\ ThceLinked /\ ThceServesOne /\ \A p \in Programs : ProgramHolds(p)

LifetimeInv == SessionsFit /\ ContextUndisturbed /\ CardsKept

(* A run that has ended: all programs, and the THCE's last entry point. *)
EndedSaved ==
  (\A p \in Programs : pc[p] = "ended") /\ thce \notin {"destroying", "unlinking"}
    => sessions = {} /\ device = NULL /\ thce = "down" /\ disk = stored

-----------------------------------------------------------------------------
USE ProgramsAssumption

(* What opening and closing a session do to the open sessions, to the      *)
(* context and to the cards, whoever it is that opens or closes it.        *)
LEMMA Opened ==
  ASSUME Typed, NEW o, NEW t, OpenSession(o, t)
  PROVE  /\ sessions' = sessions \cup {<<o, t>>}
         /\ mem' \subseteq Programs /\ disk' \subseteq Programs
         /\ stored' \subseteq Programs /\ ctx' = ctx
BY DEF OpenSession, LoadedMem, LoadFails, Typed

LEMMA Closed ==
  ASSUME Typed, NEW o, NEW t, CloseSession(o, t)
  PROVE  /\ sessions' = sessions \ {<<o, t>>}
         /\ mem' \subseteq Programs /\ disk' \subseteq Programs
         /\ stored' \subseteq Programs /\ ctx' \in {ctx, NULL}
<1>1. ctx' \in {ctx, NULL}
  BY DEF CloseSession, CtxAfter
<1>2. mem' \subseteq Programs /\ disk' \subseteq Programs /\ stored' \subseteq Programs
  BY DEF CloseSession, Saved, SaveFails, Typed
<1> QED
  BY <1>1, <1>2 DEF CloseSession

(* A program moves. *)
LEMMA Moved ==
  ASSUME Typed, NEW p \in Programs, NEW w \in States, Goes(p, w)
  PROVE  /\ pc' \in [Programs -> States]
         /\ pc'[p] = w
         /\ \A q \in Programs \ {p} : pc'[q] = pc[q]
BY DEF Typed, Goes

(* A step of one program that leaves the THCE alone, its own session with  *)
(* it included, and the sessions and the device of the other programs.     *)
LEMMA ProgramStep ==
  ASSUME SessionsFit, Typed', NEW p \in Programs,
         thce' = thce,
         pc'[p] = "opening" <=> pc[p] = "opening",
         <<p, "THCE">> \in sessions' <=> <<p, "THCE">> \in sessions,
         \A q \in Programs \ {p} : pc'[q] = pc[q] /\ (device' = q <=> device = q),
         \A o \in (Programs \cup {"THCE"}) \ {p}, t \in TAs :
           <<o, t>> \in sessions' <=> <<o, t>> \in sessions,
         ProgramHolds(p)'
  PROVE  SessionsFit'
<1>1. "THCE" \notin Programs
  OBVIOUS
<1>2. ThceLinked'
  BY <1>1 DEF SessionsFit, ThceLinked
<1>3. \A q \in Programs :
        /\ Engaged(q)' <=> Engaged(q)
        /\ pc'[q] = "opening" <=> pc[q] = "opening"
        /\ <<q, "THCE">> \in sessions' <=> <<q, "THCE">> \in sessions
  BY DEF Engaged, TAs
<1>4. ThceServesOne'
  BY <1>3 DEF SessionsFit, ThceServesOne
<1>5. ASSUME NEW q \in Programs \ {p} PROVE ProgramHolds(q)'
  BY <1>5 DEF SessionsFit, ProgramHolds, TAs
<1> QED
  BY <1>2, <1>4, <1>5 DEF SessionsFit
-----------------------------------------------------------------------------
(* A program that only moves, or only stores a card. *)
LEMMA QuietSteps ==
  ASSUME SessionsFit, NEW p \in Programs,
         \/ nfc_open(p) \/ InitFails(p) \/ snfc_start(p) \/ StoreCard(p) \/ Stops(p)
         \/ nfc_close(p) \/ tds_insert(p) \/ Returns(p) \/ Kill(p)
         \/ DeviceFreed(p) \/ Ends(p)
  PROVE  SessionsFit'
<1> USE DEF States, Gone
<1>0. UNCHANGED <<sessions, thce>>
  BY DEF nfc_open, InitFails, snfc_start, StoreCard, Stops, nfc_close, tds_insert,
         Returns, Kill, DeviceFreed, Ends
<1>1. CASE nfc_open(p)
  <2>1. Typed'
    BY <1>1 DEF nfc_open, Goes, SessionsFit, Typed
  <2>2. ProgramHolds(p)'
    BY <1>1 DEF nfc_open, Goes, SessionsFit, Typed, ProgramHolds, HasSnfc, HasDevice, TAs
  <2> QED
    BY <1>0, <1>1, <2>1, <2>2, ProgramStep
    DEF nfc_open, Goes, SessionsFit, Typed, ProgramHolds, HasDevice
<1>2. CASE InitFails(p)
  <2>1. Typed'
    BY <1>2 DEF InitFails, Goes, SessionsFit, Typed
  <2>2. ProgramHolds(p)'
    BY <1>2 DEF InitFails, Goes, SessionsFit, Typed, ProgramHolds, HasSnfc, HasDevice, TAs
  <2>3. /\ pc[p] # "opening" /\ pc'[p] = "exiting" /\ device' = device
        /\ \A q \in Programs \ {p} : pc'[q] = pc[q]
    BY <1>2, Moved DEF InitFails, SessionsFit
  <2> QED
    BY <1>0, <2>1, <2>2, <2>3, ProgramStep
<1>3. CASE snfc_start(p)
  <2>1. Typed'
    BY <1>3 DEF snfc_start, Goes, SessionsFit, Typed
  <2>2. ProgramHolds(p)'
    BY <1>3 DEF snfc_start, Goes, SessionsFit, Typed, ProgramHolds, HasSnfc, HasDevice, TAs
  <2>3. /\ pc[p] # "opening" /\ pc'[p] \in {"started", "closing"} /\ device' = device
        /\ \A q \in Programs \ {p} : pc'[q] = pc[q]
    BY <1>3, Moved DEF snfc_start, SessionsFit
  <2> QED
    BY <1>0, <2>1, <2>2, <2>3, ProgramStep
<1>4. CASE StoreCard(p)
  <2>1. Typed'
    BY <1>4 DEF StoreCard, Goes, SessionsFit, Typed
  <2>2. ProgramHolds(p)'
    BY <1>4 DEF StoreCard, Goes, SessionsFit, Typed, ProgramHolds, HasSnfc, HasDevice, TAs
  <2> QED
    BY <1>0, <1>4, <2>1, <2>2, ProgramStep
    DEF StoreCard, Goes, SessionsFit, Typed, ProgramHolds, HasDevice
<1>5. CASE Stops(p)
  <2>1. Typed'
    BY <1>5 DEF Stops, Goes, SessionsFit, Typed
  <2>2. ProgramHolds(p)'
    BY <1>5 DEF Stops, Goes, SessionsFit, Typed, ProgramHolds, HasSnfc, HasDevice, TAs
  <2>3. /\ pc[p] # "opening" /\ pc'[p] = "closing" /\ device' = device
        /\ \A q \in Programs \ {p} : pc'[q] = pc[q]
    BY <1>5, Moved DEF Stops, SessionsFit
  <2> QED
    BY <1>0, <2>1, <2>2, <2>3, ProgramStep
<1>6. CASE nfc_close(p)
  <2>1. Typed'
    BY <1>6 DEF nfc_close, Goes, SessionsFit, Typed
  <2>2. ProgramHolds(p)'
    BY <1>6 DEF nfc_close, Goes, SessionsFit, Typed, ProgramHolds, HasSnfc, HasDevice, TAs
  <2> QED
    BY <1>0, <1>6, <2>1, <2>2, ProgramStep
    DEF nfc_close, Goes, SessionsFit, Typed, ProgramHolds, HasDevice
<1>7. CASE tds_insert(p)
  <2>1. Typed'
    BY <1>7 DEF tds_insert, Goes, SessionsFit, Typed
  <2>2. ProgramHolds(p)'
    BY <1>7 DEF tds_insert, Goes, SessionsFit, Typed, ProgramHolds, HasSnfc, HasDevice, TAs
  <2> QED
    BY <1>0, <1>7, <2>1, <2>2, ProgramStep
    DEF tds_insert, Goes, SessionsFit, Typed, ProgramHolds, HasDevice
<1>8. CASE Returns(p)
  <2>1. Typed'
    BY <1>8 DEF Returns, Goes, SessionsFit, Typed
  <2>2. ProgramHolds(p)'
    BY <1>8 DEF Returns, Goes, SessionsFit, Typed, ProgramHolds, HasSnfc, HasDevice, TAs
  <2>3. /\ pc[p] # "opening" /\ pc'[p] = "exiting" /\ device' = device
        /\ \A q \in Programs \ {p} : pc'[q] = pc[q]
    BY <1>8, Moved DEF Returns, SessionsFit
  <2> QED
    BY <1>0, <2>1, <2>2, <2>3, ProgramStep
<1>9. CASE Kill(p)
  <2>1. Typed'
    BY <1>9 DEF Kill, Goes, SessionsFit, Typed
  <2>2. ProgramHolds(p)'
    BY <1>9 DEF Kill, Goes, SessionsFit, Typed, ProgramHolds, HasSnfc, HasDevice, TAs
  <2>3. /\ pc[p] # "opening" /\ pc'[p] = "exiting" /\ device' = device
        /\ \A q \in Programs \ {p} : pc'[q] = pc[q]
    BY <1>9, Moved DEF Kill, SessionsFit
  <2> QED
    BY <1>0, <2>1, <2>2, <2>3, ProgramStep
<1>10. CASE DeviceFreed(p)
  <2>1. Typed'
    BY <1>10 DEF DeviceFreed, Goes, SessionsFit, Typed
  <2>2. ProgramHolds(p)'
    BY <1>10 DEF DeviceFreed, Goes, SessionsFit, Typed, ProgramHolds, HasSnfc, HasDevice, TAs
  <2> QED
    BY <1>0, <1>10, <2>1, <2>2, ProgramStep
    DEF DeviceFreed, Goes, SessionsFit, Typed, ProgramHolds, HasDevice
<1>11. CASE Ends(p)
  <2>1. Typed'
    BY <1>11 DEF Ends, Goes, SessionsFit, Typed
  <2>2. ProgramHolds(p)'
    BY <1>11 DEF Ends, Goes, SessionsFit, Typed, ProgramHolds, HasSnfc, HasDevice, TAs
  <2> QED
    BY <1>0, <1>11, <2>1, <2>2, ProgramStep
    DEF Ends, Goes, SessionsFit, Typed, ProgramHolds, HasDevice
<1> QED
  BY <1>1, <1>2, <1>3, <1>4, <1>5, <1>6, <1>7, <1>8, <1>9, <1>10, <1>11

(* A program that opens or closes its own session with one of the other    *)
(* two TAs.                                                                *)
LEMMA SessionSteps ==
  ASSUME SessionsFit, NEW p \in Programs,
         \/ init_snfc_ta(p) \/ init_tds_ta(p) \/ exit_snfc_ta(p)
         \/ /\ pc[p] = "exiting"
            /\ \E t \in {"TDS", "SNFC"} : CloseSession(p, t)
            /\ UNCHANGED <<pc, thce, device>>
  PROVE  SessionsFit'
<1> USE DEF States, Gone
<1>0. "THCE" \notin Programs
  OBVIOUS
<1>1. CASE init_snfc_ta(p)
  <2>1. OpenSession(p, "SNFC") /\ Goes(p, "connected")
    BY <1>1 DEF init_snfc_ta
  <2>2. sessions' = sessions \cup {<<p, "SNFC">>}
    BY <2>1, Opened DEF SessionsFit
  <2>3. Typed'
    BY <1>1, <2>1, <2>2, Opened, Moved DEF init_snfc_ta, SessionsFit, Typed, TAs
  <2>4. Kind[p] = "pay" => <<p, "THCE">> \in sessions'
    BY <1>1, <2>2 DEF init_snfc_ta, SessionsFit, ProgramHolds
  <2>5. pc'[p] = "connected"
    BY <2>1, Moved DEF SessionsFit
  <2>6. ProgramHolds(p)'
    BY <2>2, <2>4, <2>5 DEF ProgramHolds, HasSnfc, HasDevice
  <2> QED
    BY <1>0, <1>1, <2>1, <2>2, <2>3, <2>6, Moved, ProgramStep DEF init_snfc_ta, SessionsFit
<1>2. CASE init_tds_ta(p)
  <2>1. CASE OpenSession(p, "TDS") /\ Goes(p, "using")
    <3>1. sessions' = sessions \cup {<<p, "TDS">>}
      BY <2>1, Opened DEF SessionsFit
    <3>2. Typed'
      BY <1>2, <2>1, <3>1, Opened, Moved DEF init_tds_ta, SessionsFit, Typed, TAs
    <3>3. ProgramHolds(p)'
      BY <1>2, <2>1, <3>1, Moved
      DEF init_tds_ta, SessionsFit, ProgramHolds, HasSnfc, HasDevice
    <3> QED
      BY <1>0, <1>2, <2>1, <3>1, <3>2, <3>3, Moved, ProgramStep DEF init_tds_ta, SessionsFit
  <2>2. CASE Goes(p, "exiting") /\ UNCHANGED <<sessions, ctx, mem, disk, stored>>
    <3>1. Typed'
      BY <1>2, <2>2, Moved DEF init_tds_ta, SessionsFit, Typed
    <3>2. ProgramHolds(p)'
      BY <2>2, Moved DEF SessionsFit, ProgramHolds, HasSnfc, HasDevice
    <3> QED
      BY <1>2, <2>2, <3>1, <3>2, Moved, ProgramStep DEF init_tds_ta, SessionsFit
  <2> QED
    BY <1>2, <2>1, <2>2 DEF init_tds_ta
<1>3. CASE exit_snfc_ta(p)
  <2>1. PICK w \in {"leaving", "exiting"} :
          CloseSession(p, "SNFC") /\ Goes(p, w) /\ (w = "leaving" => Kind[p] = "pay")
    BY <1>3 DEF exit_snfc_ta
  <2>2. sessions' = sessions \ {<<p, "SNFC">>}
    BY <2>1, Closed DEF SessionsFit
  <2>3. Typed'
    BY <1>3, <2>1, <2>2, Closed, Moved DEF exit_snfc_ta, SessionsFit, Typed
  <2>4. ProgramHolds(p)'
    BY <1>3, <2>1, <2>2, Moved
    DEF exit_snfc_ta, SessionsFit, ProgramHolds, HasSnfc, HasDevice
  <2> QED
    BY <1>0, <1>3, <2>1, <2>2, <2>3, <2>4, Moved, ProgramStep DEF exit_snfc_ta, SessionsFit
<1>4. ASSUME NEW t \in {"TDS", "SNFC"}, pc[p] = "exiting",
             CloseSession(p, t), UNCHANGED <<pc, thce, device>>
      PROVE  SessionsFit'
  <2>1. sessions' = sessions \ {<<p, t>>}
    BY <1>4, Closed DEF SessionsFit
  <2>2. Typed'
    BY <1>4, <2>1, Closed DEF SessionsFit, Typed
  <2>3. ProgramHolds(p)'
    BY <1>4, <2>1 DEF SessionsFit, ProgramHolds, HasSnfc, HasDevice
  <2> QED
    BY <1>0, <1>4, <2>1, <2>2, <2>3, ProgramStep
<1> QED
  BY <1>1, <1>2, <1>3, <1>4

-----------------------------------------------------------------------------
(* The THCE: it is created for a program, and destroyed after it.          *)
LEMMA ThceRequested ==
  ASSUME SessionsFit, NEW p \in Programs, init_thce_ta(p)
  PROVE  SessionsFit'
<1> USE DEF States, Gone
<1>0. pc[p] = "off" /\ UNCHANGED <<sessions, device, ctx, mem, disk, stored>>
  BY DEF init_thce_ta
<1>1. CASE thce = "down" /\ thce' = "creating" /\ Goes(p, "opening")
  <2>1. Typed'
    BY <1>0, <1>1, Moved DEF SessionsFit, Typed, Links
  <2>2. ThceLinked'
    BY <1>0, <1>1 DEF SessionsFit, ThceLinked, Links
  <2>3. \A q \in Programs : ~Engaged(q)
    BY <1>1 DEF SessionsFit, ThceServesOne, Engaged
  <2>4. \A q \in Programs : Engaged(q)' <=> q = p
    BY <1>0, <1>1, <2>3, Moved DEF SessionsFit, Engaged
  <2>5. ThceServesOne'
    BY <1>0, <1>1, <2>3, <2>4 DEF ThceServesOne, Engaged
  <2>6. ProgramHolds(p)'
    BY <1>1, Moved DEF SessionsFit, ProgramHolds, HasSnfc, HasDevice
  <2>7. ASSUME NEW q \in Programs \ {p} PROVE ProgramHolds(q)'
    BY <1>0, <1>1, Moved DEF SessionsFit, ProgramHolds
  <2> QED
    BY <2>1, <2>2, <2>5, <2>6, <2>7 DEF SessionsFit
<1>2. CASE Goes(p, "exiting") /\ UNCHANGED thce
  <2>1. Typed'
    BY <1>0, <1>2, Moved DEF SessionsFit, Typed
  <2>2. ProgramHolds(p)'
    BY <1>2, Moved DEF SessionsFit, ProgramHolds, HasSnfc, HasDevice
  <2> QED
    BY <1>0, <1>2, <2>1, <2>2, Moved, ProgramStep DEF SessionsFit
<1> QED
  BY <1>1, <1>2 DEF init_thce_ta

(* A step of the THCE's entry points that moves no program. *)
LEMMA ThceStep ==
  ASSUME SessionsFit, Typed', ThceLinked', UNCHANGED <<pc, device>>,
         \A p \in Programs, t \in TAs : <<p, t>> \in sessions' <=> <<p, t>> \in sessions,
         \/ thce = "creating" /\ thce' = "linking"
         \/ thce \in {"destroying", "unlinking"} /\ thce' \in {"unlinking", "down"}
  PROVE  SessionsFit'
<1>1. \A p \in Programs : ProgramHolds(p)'
  BY DEF SessionsFit, ProgramHolds, TAs
<1>2. \A p \in Programs :
        /\ pc'[p] = pc[p]
        /\ Engaged(p)' <=> Engaged(p)
        /\ <<p, "THCE">> \in sessions' <=> <<p, "THCE">> \in sessions
  BY DEF Engaged, TAs
<1>3. CASE thce = "creating" /\ thce' = "linking"
  BY <1>1, <1>2, <1>3 DEF SessionsFit, ThceServesOne
<1>4. CASE thce \in {"destroying", "unlinking"} /\ thce' \in {"unlinking", "down"}
  <2>1. \A p \in Programs : ~Engaged(p)
    BY <1>4 DEF SessionsFit, ThceServesOne, Engaged
  <2> QED
    BY <1>1, <1>2, <1>4, <2>1 DEF SessionsFit, ThceServesOne, Engaged
<1> QED
  BY <1>3, <1>4

LEMMA CreateAndDestroy ==
  ASSUME SessionsFit, CreateOpensTds \/ DestroyClosesTds \/ DestroyClosesSnfc
  PROVE  SessionsFit'
<1>0. "THCE" \notin Programs
  OBVIOUS
<1>1. CASE CreateOpensTds
  <2>1. sessions' = sessions \cup {<<"THCE", "TDS">>}
    BY <1>1, Opened DEF CreateOpensTds, SessionsFit
  <2>2. Typed'
    BY <1>1, <2>1, Opened DEF CreateOpensTds, SessionsFit, Typed, Links, TAs
  <2>3. ThceLinked'
    BY <1>1, <2>1 DEF CreateOpensTds, SessionsFit, ThceLinked, Links
  <2> QED
    BY <1>0, <1>1, <2>1, <2>2, <2>3, ThceStep DEF CreateOpensTds
<1>2. CASE DestroyClosesTds
  <2>1. sessions' = sessions \ {<<"THCE", "TDS">>}
    BY <1>2, Closed DEF DestroyClosesTds, SessionsFit
  <2>2. Typed'
    BY <1>2, <2>1, Closed DEF DestroyClosesTds, SessionsFit, Typed, Links
  <2>3. ThceLinked'
    BY <1>2, <2>1 DEF DestroyClosesTds, SessionsFit, ThceLinked, Links, TAs
  <2> QED
    BY <1>0, <1>2, <2>1, <2>2, <2>3, ThceStep DEF DestroyClosesTds
<1>3. CASE DestroyClosesSnfc
  <2>1. sessions' = sessions \ {<<"THCE", "SNFC">>}
    BY <1>3, Closed DEF DestroyClosesSnfc, SessionsFit
  <2>2. Typed'
    BY <1>3, <2>1, Closed DEF DestroyClosesSnfc, SessionsFit, Typed, Links
  <2>3. ThceLinked'
    BY <1>3, <2>1 DEF DestroyClosesSnfc, SessionsFit, ThceLinked, Links, TAs
  <2> QED
    BY <1>0, <1>3, <2>1, <2>2, <2>3, ThceStep DEF DestroyClosesSnfc
<1> QED
  BY <1>1, <1>2, <1>3

(* The THCE is up: its program goes on.  It is the only one that opens it. *)
LEMMA Created ==
  ASSUME SessionsFit, CreateOpensSnfc
  PROVE  SessionsFit'
<1> USE DEF States, Gone
<1>1. PICK p \in Opening :
        /\ sessions' = sessions \cup {<<"THCE", "SNFC">>, <<p, "THCE">>}
        /\ Goes(p, "opened")
  BY DEF CreateOpensSnfc
<1>2. /\ thce = "linking" /\ thce' = "up"
      /\ UNCHANGED <<device, ctx, mem, disk, stored>>
      /\ p \in Programs /\ pc[p] = "opening" /\ "THCE" \notin Programs
  BY <1>1 DEF CreateOpensSnfc, Opening
<1>3. Typed'
  BY <1>1, <1>2, Moved DEF SessionsFit, Typed, Links, TAs
<1>4. ThceLinked'
  BY <1>1, <1>2 DEF SessionsFit, ThceLinked, Links
<1>5. \A q \in Programs : Engaged(q) => q = p
  BY <1>2 DEF SessionsFit, ThceServesOne, Engaged
<1>6. /\ \A q \in Programs : pc'[q] # "opening"
      /\ \A q \in Programs : <<q, "THCE">> \in sessions' <=> q = p
  <2>1. pc'[p] = "opened" /\ \A q \in Programs \ {p} : pc'[q] = pc[q]
    BY <1>1, <1>2, Moved DEF SessionsFit
  <2>2. \A q \in Programs : <<q, "THCE">> \notin sessions
    BY <1>2 DEF SessionsFit, ThceServesOne
  <2> QED
    BY <1>1, <1>2, <1>5, <2>1, <2>2 DEF Engaged
<1>7. ThceServesOne'
  BY <1>2, <1>6 DEF ThceServesOne, Engaged
<1>8. ProgramHolds(p)'
  BY <1>1, <1>2, Moved DEF SessionsFit, ProgramHolds, HasSnfc, HasDevice
<1>9. ASSUME NEW q \in Programs \ {p} PROVE ProgramHolds(q)'
  BY <1>1, <1>2, Moved DEF SessionsFit, ProgramHolds, TAs
<1> QED
  BY <1>3, <1>4, <1>7, <1>8, <1>9 DEF SessionsFit

LEMMA NotCreated ==
  ASSUME SessionsFit, CreateFails
  PROVE  SessionsFit'
<1> USE DEF States, Gone
<1>1. PICK p \in Opening : Goes(p, "exiting")
  BY DEF CreateFails
<1>2. /\ thce \in {"creating", "linking"} /\ thce' = "down" /\ UNCHANGED device
      /\ p \in Programs /\ pc[p] = "opening" /\ "THCE" \notin Programs
  BY DEF CreateFails, Opening
<1>3. sessions' = sessions \ {<<"THCE", "TDS">>}
  <2>1. CASE thce = "linking"
    BY <2>1, Closed DEF CreateFails, SessionsFit
  <2>2. CASE thce = "creating"
    BY <2>2 DEF CreateFails, SessionsFit, ThceLinked, Links, TAs
  <2> QED
    BY <1>2, <2>1, <2>2
<1>4. Typed'
  <2>1. /\ mem' \subseteq Programs /\ disk' \subseteq Programs
        /\ stored' \subseteq Programs /\ ctx' \in {ctx, NULL}
    BY Closed DEF CreateFails, SessionsFit, Typed
  <2> QED
    BY <1>1, <1>2, <1>3, <2>1, Moved DEF SessionsFit, Typed, Links
<1>5. ThceLinked'
  BY <1>2, <1>3 DEF SessionsFit, ThceLinked, Links, TAs
<1>6. \A q \in Programs : Engaged(q) => q = p
  BY <1>2 DEF SessionsFit, ThceServesOne, Engaged
<1>7. /\ \A q \in Programs : pc'[q] # "opening"
      /\ \A q \in Programs : <<q, "THCE">> \notin sessions'
  <2>1. pc'[p] = "exiting" /\ \A q \in Programs \ {p} : pc'[q] = pc[q]
    BY <1>1, <1>2, Moved DEF SessionsFit
  <2>2. \A q \in Programs : <<q, "THCE">> \notin sessions
    BY <1>2 DEF SessionsFit, ThceServesOne
  <2> QED
    BY <1>3, <1>6, <2>1, <2>2 DEF Engaged
<1>8. ThceServesOne'
  BY <1>2, <1>7 DEF ThceServesOne, Engaged
<1>9. ProgramHolds(p)'
  BY <1>1, <1>2, Moved DEF SessionsFit, ProgramHolds, HasSnfc, HasDevice
<1>10. ASSUME NEW q \in Programs \ {p} PROVE ProgramHolds(q)'
  BY <1>1, <1>2, <1>3, Moved DEF SessionsFit, ProgramHolds, TAs
<1> QED
  BY <1>4, <1>5, <1>8, <1>9, <1>10 DEF SessionsFit

(* The end of the session with the THCE, by its program or by the driver. *)
LEMMA ThceReleased ==
  ASSUME SessionsFit, NEW p \in Programs, <<p, "THCE">> \in sessions, CloseThce(p),
         pc[p] \in {"leaving", "exiting"}, Goes(p, "exiting"), UNCHANGED device
  PROVE  SessionsFit'
<1> USE DEF States, Gone
<1>1. /\ sessions' = sessions \ {<<p, "THCE">>} /\ thce = "up" /\ thce' = "destroying"
      /\ UNCHANGED <<ctx, mem, disk, stored>> /\ "THCE" \notin Programs
  BY DEF CloseThce, SessionsFit, ThceServesOne
<1>2. Typed'
  BY <1>1, Moved DEF SessionsFit, Typed, Links
<1>3. ThceLinked'
  BY <1>1 DEF SessionsFit, ThceLinked, Links
<1>4. \A q \in Programs : Engaged(q) => q = p
  BY DEF SessionsFit, ThceServesOne, Engaged
<1>5. \A q \in Programs : pc'[q] # "opening" /\ <<q, "THCE">> \notin sessions'
  BY <1>1, <1>4, Moved DEF SessionsFit, Engaged
<1>6. ThceServesOne'
  BY <1>1, <1>5 DEF ThceServesOne, Engaged
<1>7. ProgramHolds(p)'
  BY Moved DEF SessionsFit, ProgramHolds, HasSnfc, HasDevice
<1>8. ASSUME NEW q \in Programs \ {p} PROVE ProgramHolds(q)'
  BY <1>1, Moved DEF SessionsFit, ProgramHolds, TAs
<1> QED
  BY <1>2, <1>3, <1>6, <1>7, <1>8 DEF SessionsFit

(* The driver's steps for a program that is gone. *)
LEMMA DriverStep ==
  ASSUME SessionsFit, NEW p \in Programs, DriverCloses(p)
  PROVE  SessionsFit'
<1>1. PICK s \in sessions :
        /\ s[1] = p
        /\ IF s[2] = "THCE" THEN CloseThce(p) ELSE CloseSession(p, s[2]) /\ UNCHANGED thce
  BY DEF DriverCloses
<1>2. pc[p] = "exiting" /\ UNCHANGED <<pc, device>>
  BY DEF DriverCloses
<1>3. s = <<p, s[2]>> /\ s[2] \in TAs
  BY <1>1 DEF SessionsFit, Typed
<1>4. CASE s[2] = "THCE"
  <2>1. <<p, "THCE">> \in sessions
    BY <1>3, <1>4
  <2>2. Goes(p, "exiting")
    BY <1>2 DEF Goes, SessionsFit, Typed
  <2> QED
    BY <1>1, <1>2, <1>4, <2>1, <2>2, ThceReleased
<1>5. CASE s[2] # "THCE"
  <2>1. s[2] \in {"TDS", "SNFC"} /\ CloseSession(p, s[2]) /\ UNCHANGED thce
    BY <1>1, <1>3, <1>5 DEF TAs
  <2> QED
    BY <1>2, <2>1, SessionSteps
<1> QED
  BY <1>4, <1>5

LEMMA SessionsStayFit ==
  ASSUME SessionsFit, [Next]_vars
  PROVE  SessionsFit'
<1>1. CASE TeeWorks
  BY <1>1, CreateAndDestroy, Created, NotCreated DEF TeeWorks
<1>2. ASSUME NEW p \in Programs, Starts(p) PROVE SessionsFit'
  BY <1>2, ThceRequested, SessionSteps DEF Starts
<1>3. ASSUME NEW p \in Programs, Runs(p) PROVE SessionsFit'
  <2>1. CASE exit_snfc_ta(p)
    BY <2>1, SessionSteps
  <2>2. CASE exit_thce_ta(p)
    <3>1. <<p, "THCE">> \in sessions
      BY <2>2 DEF exit_thce_ta, SessionsFit, ProgramHolds
    <3> QED
      BY <2>2, <3>1, ThceReleased DEF exit_thce_ta
  <2> QED
    BY <1>3, <2>1, <2>2, QuietSteps DEF Runs
<1>4. ASSUME NEW p \in Programs, DriverWorks(p) \/ Kill(p) PROVE SessionsFit'
  BY <1>4, DriverStep, QuietSteps DEF DriverWorks
<1>5. CASE UNCHANGED vars
  BY <1>5 DEF vars, SessionsFit, Typed, ThceLinked, ThceServesOne, Engaged, ProgramHolds
<1> QED
  BY <1>1, <1>2, <1>3, <1>4, <1>5 DEF Next

-----------------------------------------------------------------------------
(* The context changes only by a start, of the program with the device, or *)
(* by the end of the secure NFC TA's last session.                         *)
LEMMA ContextKept ==
  ASSUME SessionsFit, ContextUndisturbed, [Next]_vars, NEW p \in Programs,
         pc'[p] = "started"
  PROVE  ctx' = p
<1> USE DEF States, Gone
<1>1. CASE \E q \in Programs : snfc_start(q)
  <2>1. PICK q \in Programs : snfc_start(q)
    BY <1>1
  <2>2. CASE q = p
    BY <2>1, <2>2 DEF snfc_start, Goes, SessionsFit, Typed
  <2>3. CASE q # p
    <3>1. pc[p] = "started"
      BY <2>1, <2>3 DEF snfc_start, Goes, SessionsFit, Typed
    <3>2. device = p /\ device = q
      BY <2>1, <3>1 DEF snfc_start, SessionsFit, ProgramHolds, HasDevice
    <3> QED
      BY <2>3, <3>2
  <2> QED
    BY <2>2, <2>3
<1>2. CASE ~ \E q \in Programs : snfc_start(q)
  <2>1. pc[p] = "started"
    BY <1>2 DEF Next, TeeWorks, Starts, Runs, DriverWorks, vars, CreateOpensTds,
       CreateOpensSnfc, CreateFails, DestroyClosesTds, DestroyClosesSnfc, init_thce_ta,
       init_snfc_ta, init_tds_ta, nfc_open, InitFails, StoreCard, Stops, nfc_close,
       exit_snfc_ta, exit_thce_ta, tds_insert, Returns, DriverCloses, DeviceFreed, Ends,
       Kill, Goes, SessionsFit, Typed, Opening
  <2>2. <<p, "SNFC">> \in sessions /\ ctx = p
    BY <2>1 DEF SessionsFit, ProgramHolds, HasSnfc, ContextUndisturbed
  <2>3. ASSUME NEW o, NEW t, CloseSession(o, t), o # p PROVE ctx' = p
    BY <2>2, <2>3 DEF CloseSession, CtxAfter, With
  <2>4. p # "THCE"
    OBVIOUS
  <2>5. CASE TeeWorks
    BY <2>2, <2>3, <2>4, <2>5 DEF TeeWorks, CreateOpensTds, CreateOpensSnfc, CreateFails,
       DestroyClosesTds, DestroyClosesSnfc, OpenSession
  <2>6. ASSUME NEW q \in Programs, Starts(q) \/ Kill(q) PROVE ctx' = p
    BY <2>2, <2>6 DEF Starts, Kill, init_thce_ta, init_snfc_ta, init_tds_ta, OpenSession
  <2>7. ASSUME NEW q \in Programs, Runs(q) PROVE ctx' = p
    <3>1. CASE exit_snfc_ta(q)
      BY <2>1, <2>3, <3>1 DEF exit_snfc_ta
    <3> QED
      BY <1>2, <2>2, <2>7, <3>1 DEF Runs, nfc_open, InitFails, StoreCard, Stops, nfc_close,
         exit_thce_ta, tds_insert, Returns, CloseThce
  <2>8. ASSUME NEW q \in Programs, DriverWorks(q) PROVE ctx' = p
    BY <2>1, <2>2, <2>3, <2>8
    DEF DriverWorks, DriverCloses, DeviceFreed, Ends, CloseThce
  <2>9. CASE UNCHANGED vars
    BY <2>2, <2>9 DEF vars
  <2> QED
    BY <2>5, <2>6, <2>7, <2>8, <2>9 DEF Next
<1> QED
  BY <1>1, <1>2

-----------------------------------------------------------------------------
(* Opening a session loads the store and closing one saves it, or what is  *)
(* lost when they fail is not among the cards stored any more: the cards   *)
(* are where the sessions say.                                             *)
LEMMA CardsOpened ==
  ASSUME CardsKept, NEW o, NEW t, OpenSession(o, t)
  PROVE  CardsKept'
<1>1. CASE t = "TDS"
  <2>1. <<o, t>> \in With("TDS")'
    BY <1>1 DEF OpenSession, With
  <2> QED
    BY <1>1, <2>1 DEF OpenSession, LoadedMem, LoadFails, CardsKept
<1>2. CASE t # "TDS"
  <2>1. With("TDS")' = With("TDS")
    BY <1>2 DEF OpenSession, With
  <2> QED
    BY <1>2, <2>1 DEF OpenSession, CardsKept
<1> QED
  BY <1>1, <1>2

LEMMA CardsClosed ==
  ASSUME CardsKept, NEW o, NEW t, CloseSession(o, t)
  PROVE  CardsKept'
<1>1. With("TDS")' = With("TDS") \ {<<o, t>>}
  BY DEF CloseSession, With
<1>2. CASE With("TDS") = {<<o, t>>}
  BY <1>1, <1>2 DEF CloseSession, Saved, SaveFails, CardsKept
<1>3. CASE With("TDS") # {<<o, t>>}
  BY <1>1, <1>3 DEF CloseSession, CardsKept
<1> QED
  BY <1>2, <1>3

(* A step that opens or closes no session with the data store. *)
LEMMA CardsAlone ==
  ASSUME CardsKept, UNCHANGED <<mem, disk, stored>>,
         \A o : <<o, "TDS">> \in sessions' <=> <<o, "TDS">> \in sessions,
         SessionsFit, SessionsFit'
  PROVE  CardsKept'
<1>1. With("TDS")' = With("TDS")
  BY DEF With, SessionsFit, Typed
<1> QED
  BY <1>1 DEF CardsKept

(* A card is stored while the data store is in a session. *)
LEMMA CardsAdded ==
  ASSUME SessionsFit, CardsKept, NEW p \in Programs, StoreCard(p) \/ tds_insert(p)
  PROVE  CardsKept'
<1>1. CASE StoreCard(p)
  <2>1. thce = "up"
    BY <1>1 DEF StoreCard, SessionsFit, ProgramHolds, HasSnfc, ThceServesOne
  <2>2. <<"THCE", "TDS">> \in With("TDS")
    BY <2>1 DEF SessionsFit, ThceLinked, Links, With, TAs
  <2> QED
    BY <1>1, <2>2 DEF StoreCard, CardsKept, With
<1>2. CASE tds_insert(p)
  <2>1. <<p, "TDS">> \in With("TDS")
    BY <1>2 DEF tds_insert, SessionsFit, ProgramHolds, With
  <2> QED
    BY <1>2, <2>1 DEF tds_insert, CardsKept, With
<1> QED
  BY <1>1, <1>2

LEMMA CardsStayKept ==
  ASSUME SessionsFit, CardsKept, [Next]_vars
  PROVE  CardsKept'
<1>0. SessionsFit'
  BY SessionsStayFit
<1>1. CASE TeeWorks
  <2>1. CASE CreateOpensSnfc
    BY <1>0, <2>1, CardsAlone DEF CreateOpensSnfc
  <2>2. CASE CreateFails /\ UNCHANGED <<sessions, ctx, mem, disk, stored>>
    BY <1>0, <2>2, CardsAlone
  <2> QED
    BY <1>1, <2>1, <2>2, CardsOpened, CardsClosed
    DEF TeeWorks, CreateOpensTds, CreateFails, DestroyClosesTds, DestroyClosesSnfc
<1>2. ASSUME NEW p \in Programs, Starts(p) PROVE CardsKept'
  <2>1. CASE UNCHANGED <<sessions, ctx, mem, disk, stored>>
    BY <1>0, <2>1, CardsAlone
  <2> QED
    BY <1>2, <2>1, CardsOpened DEF Starts, init_thce_ta, init_snfc_ta, init_tds_ta
<1>3. ASSUME NEW p \in Programs, exit_thce_ta(p) PROVE CardsKept'
  BY <1>0, <1>3, CardsAlone DEF exit_thce_ta, CloseThce
<1>4. ASSUME NEW p \in Programs, Runs(p), ~exit_thce_ta(p) PROVE CardsKept'
  <2>1. CASE UNCHANGED <<sessions, mem, disk, stored>>
    BY <1>0, <2>1, CardsAlone
  <2> QED
    BY <1>4, <2>1, CardsClosed, CardsAdded
    DEF Runs, nfc_open, InitFails, snfc_start, Stops, nfc_close, exit_snfc_ta, Returns
<1>5. ASSUME NEW p \in Programs, DriverCloses(p) PROVE CardsKept'
  <2>1. CASE CloseThce(p)
    BY <1>0, <2>1, CardsAlone DEF CloseThce
  <2> QED
    BY <1>5, <2>1, CardsClosed DEF DriverCloses
<1>6. ASSUME NEW p \in Programs, DeviceFreed(p) \/ Ends(p) \/ Kill(p) PROVE CardsKept'
  BY <1>0, <1>6, CardsAlone DEF DeviceFreed, Ends, Kill
<1>7. CASE UNCHANGED vars
  BY <1>0, <1>7, CardsAlone DEF vars
<1> QED
  BY <1>1, <1>2, <1>3, <1>4, <1>5, <1>6, <1>7 DEF Next, DriverWorks

-----------------------------------------------------------------------------
LEMMA InitFits == Init => LifetimeInv
  BY DEF Init, LifetimeInv, SessionsFit, Typed, ThceLinked, ThceServesOne, Engaged,
     ProgramHolds, HasSnfc, HasDevice, States, Gone, Links, ContextUndisturbed, CardsKept, With

LEMMA LifetimeInvKept == LifetimeInv /\ [Next]_vars => LifetimeInv'
<1> SUFFICES ASSUME LifetimeInv, [Next]_vars PROVE LifetimeInv'
  OBVIOUS
<1>1. SessionsFit'
  BY SessionsStayFit DEF LifetimeInv
<1>2. ContextUndisturbed'
  BY ContextKept DEF LifetimeInv, ContextUndisturbed
<1>3. CardsKept'
  BY CardsStayKept DEF LifetimeInv
<1> QED
  BY <1>1, <1>2, <1>3 DEF LifetimeInv

(* LifetimeInv holds of every device. *)
THEOREM Fits == Spec => []LifetimeInv
  BY InitFits, LifetimeInvKept, PTL DEF Spec

LEMMA FitsTyped == LifetimeInv => TypeOK
<1> SUFFICES ASSUME LifetimeInv PROVE TypeOK
  OBVIOUS
<1>1. Typed /\ ThceLinked
  BY DEF LifetimeInv, SessionsFit
<1>2. {s[2] : s \in {r \in sessions : r[1] = "THCE"}} = Links[thce]
  <2>1. \A s \in sessions : s = <<s[1], s[2]>> /\ s[2] \in TAs
    BY <1>1 DEF Typed
  <2>2. Links[thce] \subseteq TAs
    BY <1>1 DEF Typed, Links, TAs
  <2>3. ASSUME NEW t \in Links[thce]
        PROVE  \E s \in sessions : s[1] = "THCE" /\ s[2] = t
    <3>1. <<"THCE", t>> \in sessions
      BY <1>1, <2>2 DEF ThceLinked
    <3> QED
      BY <3>1
  <2>4. ASSUME NEW s \in sessions, s[1] = "THCE" PROVE s[2] \in Links[thce]
    BY <1>1, <2>1, <2>4 DEF ThceLinked
  <2> QED
    BY <2>3, <2>4
<1> QED
  BY <1>1, <1>2 DEF Typed, TypeOK, States, TAs

(* The types, and the THCE's sessions as its entry points say. *)
THEOREM TypeCorrect == Spec => []TypeOK
  BY Fits, FitsTyped, PTL

(* Whatever the other programs do and however they end, the context is the *)
(* program's own from its handshake to the end of its link.                *)
THEOREM ContextIsOwn == Spec => []ContextUndisturbed
<1>1. LifetimeInv => ContextUndisturbed
  BY DEF LifetimeInv
<1> QED
  BY Fits, <1>1, PTL

(* No card is lost by the coming and going of programs: only a load or a   *)
(* save that fails loses cards.                                            *)
THEOREM NoCardLost == Spec => []CardsKept
<1>1. LifetimeInv => CardsKept
  BY DEF LifetimeInv
<1> QED
  BY Fits, <1>1, PTL

(* What the programs leave when they have all ended: nothing but what the  *)
(* THCE's last entry point is still to close, and on disk the cards that   *)
(* no failed load or save has lost.                                        *)
THEOREM NothingLeft == Spec => []EndedSaved
<1>1. LifetimeInv => EndedSaved
  <2> SUFFICES ASSUME LifetimeInv, \A p \in Programs : pc[p] = "ended",
                      thce \notin {"destroying", "unlinking"}
               PROVE  sessions = {} /\ device = NULL /\ thce = "down" /\ disk = stored
    BY DEF EndedSaved
  <2>1. \A p \in Programs : device # p /\ \A t \in TAs : <<p, t>> \notin sessions
    BY DEF LifetimeInv, SessionsFit, ProgramHolds
  <2>2. \A p \in Programs : ~Engaged(p)
    BY <2>1 DEF Engaged, TAs
  <2>3. thce = "down"
    BY <2>2 DEF LifetimeInv, SessionsFit, ThceServesOne, Typed, Links
  <2>4. sessions = {}
    <3>1. \A t \in TAs : <<"THCE", t>> \notin sessions
      BY <2>3 DEF LifetimeInv, SessionsFit, ThceLinked, Links
    <3> QED
      BY <2>1, <3>1 DEF LifetimeInv, SessionsFit, Typed
  <2>5. device = NULL
    BY <2>1 DEF LifetimeInv, SessionsFit, Typed
  <2> QED
    BY <2>3, <2>4, <2>5 DEF LifetimeInv, CardsKept, With
<1> QED
  BY Fits, <1>1, PTL
=============================================================================
