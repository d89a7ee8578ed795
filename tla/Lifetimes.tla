------------------------------ MODULE Lifetimes -----------------------------
(***************************************************************************)
(* The programs of one device and what they share: the trusted             *)
(* applications, each a single instance that lives from its first session  *)
(* to its last, and the NFC device, which one program at a time may open.  *)
(*                                                                         *)
(*   pay  trusted_hce_client.c, evaluate_thce_client.c: a session with the *)
(*        THCE, which opens its own with the TDS and the secure NFC TA     *)
(*   nfc  hce_server.c, evaluator_initiator.c and others: secure NFC alone *)
(*   tds  tds_benchmark.c: the TDS alone                                   *)
(*                                                                         *)
(* The calls made in a session are in the models of the TAs; here are      *)
(* their lives, and of their state whose handshake the security context is *)
(* from, and whose cards the data store has.                               *)
(***************************************************************************)
EXTENDS FiniteSets

CONSTANTS
  Programs, Kind,   \* the programs, and what each of them is
  Faults,           \* open: a session or the TDS's object cannot be opened;
                    \* storage: the object cannot be read or written; kill
  NULL

ASSUME ProgramsAssumption ==
  Kind \in [Programs -> {"pay", "nfc", "tds"}] /\ {NULL, "THCE"} \cap Programs = {}
ASSUME FaultsAssumption == Faults \subseteq {"open", "storage", "kill"}

VARIABLES
  pc,        \* where each program is
  sessions,  \* the open sessions: <<who opened it, with which TA>>
  thce,      \* the THCE's entry points: down, creating, linking, up,
             \* destroying, unlinking
  device,    \* the program that has the NFC device open
  ctx,       \* the program the security context is from
  mem, disk, \* the cards in the TDS and in its persistent object
  stored     \* history: the cards stored, but those of a failed load or save

vars == <<pc, sessions, thce, device, ctx, mem, disk, stored>>

Init ==
  /\ pc = [p \in Programs |-> "off"]
  /\ sessions = {} /\ thce = "down" /\ device = NULL /\ ctx = NULL
  /\ mem = {} /\ disk = {} /\ stored = {}

Goes(p, where) == pc' = [pc EXCEPT ![p] = where]

With(t) == {s \in sessions : s[2] = t}

\* Wrong variant: every session loads the store.
LoadedAlways == disk

(* TA_CreateEntryPoint of the TDS loads the store. *)
LoadedMem == IF With("TDS") = {} THEN disk ELSE mem

(* An object that cannot be opened is taken for one that is not there, and *)
(* what cannot be read of it is not missed: the session begins with that   *)
(* store, and the last close will save it.                                 *)
LoadFails ==
  /\ With("TDS") = {}
  /\ \/ "open" \in Faults /\ mem' = {}
     \/ "storage" \in Faults /\ mem' \in SUBSET disk
  /\ stored' = mem'

(* TEEC_OpenSession, TEE_OpenTASession. *)
OpenSession(o, t) ==
  /\ sessions' = sessions \cup {<<o, t>>}
  /\ \/ mem' = (IF t = "TDS" THEN LoadedMem ELSE mem) /\ UNCHANGED stored
     \/ t = "TDS" /\ LoadFails
  /\ UNCHANGED <<disk, ctx>>

\* Wrong variant: the end of any session frees the context.
FreedByAny(s) == IF s[2] = "SNFC" THEN NULL ELSE ctx

CtxAfter(s) == IF With("SNFC") = {s} THEN NULL ELSE ctx

\* Wrong variant: the store is saved as it was loaded.
SavesNothing == disk

Saved == mem

(* The object is not emptied, or is and then only some cards reach it. *)
SaveFails ==
  /\ "storage" \in Faults
  /\ \E kept \in {disk} \cup SUBSET mem : disk' = kept /\ stored' = kept

(* TEEC_CloseSession, TEE_CloseTASession.  The last one ends the instance: *)
(* the TDS is saved, or cannot be; the security context is freed.          *)
CloseSession(o, t) ==
  /\ sessions' = sessions \ {<<o, t>>}
  /\ ctx' = CtxAfter(<<o, t>>)
  /\ IF With("TDS") # {<<o, t>>} THEN UNCHANGED <<mem, disk, stored>>
     ELSE /\ mem' = {}
          /\ SaveFails \/ (disk' = Saved /\ UNCHANGED stored)

OpenFails == "open" \in Faults

-----------------------------------------------------------------------------
(* The THCE, which serves one program at a time.                           *)

Opening == {p \in Programs : pc[p] = "opening"}

(* init_thce_ta.  The instance has one session: others are told BUSY. *)
init_thce_ta(p) ==
  /\ pc[p] = "off" /\ Kind[p] = "pay"
  /\ IF thce = "down" THEN thce' = "creating" /\ Goes(p, "opening")
                      ELSE Goes(p, "exiting") /\ UNCHANGED thce
  /\ UNCHANGED <<sessions, device, ctx, mem, disk, stored>>

(* TA_CreateEntryPoint: the TDS, then the secure NFC TA.  When it fails    *)
(* the TEE closes the sessions the TA has opened.                          *)
CreateOpensTds ==
  /\ thce = "creating"
  /\ OpenSession("THCE", "TDS")
  /\ thce' = "linking"
  /\ UNCHANGED <<pc, device>>

CreateOpensSnfc ==
  /\ thce = "linking"
  /\ \E p \in Opening :
       /\ sessions' = sessions \cup {<<"THCE", "SNFC">>, <<p, "THCE">>}
       /\ Goes(p, "opened")
  /\ thce' = "up"
  /\ UNCHANGED <<device, ctx, mem, disk, stored>>

CreateFails ==
  /\ OpenFails /\ thce \in {"creating", "linking"}
  /\ thce' = "down"
  /\ IF thce = "linking" THEN CloseSession("THCE", "TDS")
                         ELSE UNCHANGED <<sessions, ctx, mem, disk, stored>>
  /\ \E p \in Opening : Goes(p, "exiting")
  /\ UNCHANGED device

(* TEEC_CloseSession with the THCE, by its program or for it. *)
CloseThce(p) ==
  /\ sessions' = sessions \ {<<p, "THCE">>}
  /\ thce' = "destroying"
  /\ UNCHANGED <<ctx, mem, disk, stored>>

\* Wrong variant: the session with the TDS is forgotten.
DestroyForgetsTds ==
  /\ thce = "destroying"
  /\ thce' = "unlinking"
  /\ UNCHANGED <<pc, sessions, device, ctx, mem, disk, stored>>

(* TA_DestroyEntryPoint, once its session is closed. *)
DestroyClosesTds ==
  /\ thce = "destroying"
  /\ CloseSession("THCE", "TDS")
  /\ thce' = "unlinking"
  /\ UNCHANGED <<pc, device>>

DestroyClosesSnfc ==
  /\ thce = "unlinking"
  /\ CloseSession("THCE", "SNFC")
  /\ thce' = "down"
  /\ UNCHANGED <<pc, device>>

-----------------------------------------------------------------------------
(* snfc.c: the session with the secure NFC TA and the device.              *)

(* snfc_init begins with init_snfc_ta. *)
init_snfc_ta(p) ==
  /\ pc[p] = IF Kind[p] = "pay" THEN "opened" ELSE "off"
  /\ Kind[p] # "tds"
  /\ OpenSession(p, "SNFC")
  /\ Goes(p, "connected")
  /\ UNCHANGED <<thce, device>>

nfc_open(p) ==
  /\ pc[p] = "connected" /\ device = NULL
  /\ device' = p
  /\ Goes(p, "ready")
  /\ UNCHANGED <<sessions, thce, ctx, mem, disk, stored>>

(* snfc_init fails, or nfc_initiator_init after it: the program returns    *)
(* with whatever it has open.                                              *)
InitFails(p) ==
  /\ \/ pc[p] = "connected" /\ (device # NULL \/ OpenFails)
     \/ pc[p] \in {"opened", "ready"} /\ OpenFails
     \/ pc[p] = "off" /\ Kind[p] = "nfc" /\ OpenFails
  /\ Goes(p, "exiting")
  /\ UNCHANGED <<sessions, thce, device, ctx, mem, disk, stored>>

(* snfc_initiator_start or snfc_target_start, which may fail before or     *)
(* after its first commands to the TA.                                     *)
snfc_start(p) ==
  /\ pc[p] = "ready"
  /\ \/ ctx' = p /\ Goes(p, "started")
     \/ ctx' \in {ctx, p} /\ Goes(p, "closing")
  /\ UNCHANGED <<sessions, thce, device, mem, disk, stored>>

(* Every program closes the link when it is done or meets an error. *)
Stops(p) ==
  /\ pc[p] = "started"
  /\ Goes(p, "closing")
  /\ UNCHANGED <<sessions, thce, device, ctx, mem, disk, stored>>

(* snfc_cleanup: nfc_close and nfc_exit, then exit_snfc_ta. *)
nfc_close(p) ==
  /\ pc[p] = "closing"
  /\ device' = NULL
  /\ Goes(p, "closed")
  /\ UNCHANGED <<sessions, thce, ctx, mem, disk, stored>>

exit_snfc_ta(p) ==
  /\ pc[p] = "closed"
  /\ CloseSession(p, "SNFC")
  /\ Goes(p, IF Kind[p] = "pay" THEN "leaving" ELSE "exiting")
  /\ UNCHANGED <<thce, device>>

exit_thce_ta(p) ==
  /\ pc[p] = "leaving"
  /\ CloseThce(p)
  /\ Goes(p, "exiting")
  /\ UNCHANGED device

(* process_response stores the card of a purchase. *)
StoreCard(p) ==
  /\ Kind[p] = "pay" /\ pc[p] = "started"
  /\ mem' = mem \cup {p} /\ stored' = stored \cup {p}
  /\ UNCHANGED <<pc, sessions, thce, device, ctx, disk>>

-----------------------------------------------------------------------------
(* tds_benchmark.c.                                                        *)

init_tds_ta(p) ==
  /\ Kind[p] = "tds" /\ pc[p] = "off"
  /\ \/ OpenSession(p, "TDS") /\ Goes(p, "using")
     \/ /\ OpenFails /\ Goes(p, "exiting")
        /\ UNCHANGED <<sessions, ctx, mem, disk, stored>>
  /\ UNCHANGED <<thce, device>>

tds_insert(p) ==
  /\ pc[p] = "using"
  /\ mem' = mem \cup {p} /\ stored' = stored \cup {p}
  /\ UNCHANGED <<pc, sessions, thce, device, ctx, disk>>

(* It returns without exit_tds_ta, which is commented out. *)
Returns(p) ==
  /\ pc[p] = "using"
  /\ Goes(p, "exiting")
  /\ UNCHANGED <<sessions, thce, device, ctx, mem, disk, stored>>

-----------------------------------------------------------------------------
(* A program that is gone: the driver closes its sessions, one by one, and *)
(* its device.                                                             *)

Gone == {"exiting", "ended"}

Kill(p) ==
  /\ "kill" \in Faults
  /\ pc[p] \notin Gone \cup {"off", "opening"}
  /\ Goes(p, "exiting")
  /\ UNCHANGED <<sessions, thce, device, ctx, mem, disk, stored>>

DriverCloses(p) ==
  /\ pc[p] = "exiting"
  /\ \E s \in sessions :
       /\ s[1] = p
       /\ IF s[2] = "THCE" THEN CloseThce(p)
          ELSE CloseSession(p, s[2]) /\ UNCHANGED thce
  /\ UNCHANGED <<pc, device>>

DeviceFreed(p) ==
  /\ pc[p] = "exiting" /\ device = p
  /\ device' = NULL
  /\ UNCHANGED <<pc, sessions, thce, ctx, mem, disk, stored>>

Ends(p) ==
  /\ pc[p] = "exiting" /\ device # p /\ \A s \in sessions : s[1] # p
  /\ Goes(p, "ended")
  /\ UNCHANGED <<sessions, thce, device, ctx, mem, disk, stored>>

-----------------------------------------------------------------------------
TeeWorks ==
  \/ CreateOpensTds \/ CreateOpensSnfc \/ CreateFails
  \/ DestroyClosesTds \/ DestroyClosesSnfc

DriverWorks(p) == DriverCloses(p) \/ DeviceFreed(p) \/ Ends(p)

Starts(p) == init_thce_ta(p) \/ init_snfc_ta(p) \/ init_tds_ta(p)

Runs(p) ==
  \/ nfc_open(p) \/ InitFails(p) \/ snfc_start(p) \/ StoreCard(p) \/ Stops(p)
  \/ nfc_close(p) \/ exit_snfc_ta(p) \/ exit_thce_ta(p)
  \/ tds_insert(p) \/ Returns(p)

Next ==
  TeeWorks \/ \E p \in Programs : Starts(p) \/ Runs(p) \/ DriverWorks(p) \/ Kill(p)

(* The TEE and the driver finish what they have begun; a program may wait  *)
(* for a device that never comes near, and needs no fairness.              *)
Spec ==
  /\ Init /\ [][Next]_vars
  /\ WF_vars(TeeWorks)
  /\ \A p \in Programs : WF_vars(DriverWorks(p))

-----------------------------------------------------------------------------
(* The sessions the THCE has in each of its states. *)
Links ==
  [down |-> {}, creating |-> {}, linking |-> {"TDS"}, up |-> {"TDS", "SNFC"},
   destroying |-> {"TDS", "SNFC"}, unlinking |-> {"SNFC"}]

(* Each variable has its type, and the THCE has its sessions with the      *)
(* other two TAs exactly while its entry points say so                     *)
(* (trusted_hce_ta.c:8-21).                                                *)
TypeOK ==
  /\ pc \in [Programs -> {"off", "opening", "opened", "connected", "ready",
                          "started", "closing", "closed", "leaving", "using"} \cup Gone]
  /\ sessions \subseteq (Programs \cup {"THCE"}) \X {"THCE", "TDS", "SNFC"}
  /\ thce \in DOMAIN Links
  /\ {s[2] : s \in {r \in sessions : r[1] = "THCE"}} = Links[thce]
  /\ device \in Programs \cup {NULL} /\ ctx \in Programs \cup {NULL}
  /\ mem \subseteq Programs /\ disk \subseteq Programs /\ stored \subseteq Programs

(* The security context is one, and every session of the secure NFC TA     *)
(* may change it (snfc_ta.c:8); what keeps a program's keys its own is     *)
(* that it talks to the TA only while it holds the NFC device              *)
(* (snfc.c:19-50).  So from its handshake to the end of its link the       *)
(* context is its own, whatever the other programs do and however they     *)
(* end.                                                                    *)
ContextUndisturbed == \A p \in Programs : pc[p] = "started" => ctx = p

(* The store is loaded by the first session and saved by the last, of      *)
(* whichever program (trusted_data_store.c:36-53): no card stored by one   *)
(* is lost by the coming and going of the others, but only when a load or  *)
(* a save fails, which no program is told of (tds_storage.c:119-124).      *)
CardsKept == stored = IF With("TDS") = {} THEN disk ELSE mem

(* However the programs end, killed at any point or with sessions left     *)
(* open (tds_benchmark.c:355, the returns of trusted_hce_client.c:42-53),  *)
(* the TAs end after them, the NFC device is free, and on disk are all the *)
(* cards stored, but those that a load or save that failed has lost.       *)
EndsSaved ==
  (\A p \in Programs : pc[p] \in Gone)
    ~> (sessions = {} /\ device = NULL /\ thce = "down" /\ disk = stored)
=============================================================================
