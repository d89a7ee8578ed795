# Formal models of the trusted payment system

This directory holds TLA+ specifications of the programs in `src/`: payments by
NFC between two devices, with the keys, the session and the cards kept inside
ARM TrustZone trusted applications (TAs). The specifications are written from the
C code; TLC checks them on small instances, and TLAPS proves theorems about the hash
table, the trusted data store, the handshake, the NFC session, both payment clients and the
lives of the trusted applications, for every value of their constants.

## The system

```
 payer's device                                     terminal
 trusted_hce_client / evaluate_thce_client          hce_server
      |  one TA session                                  |  one TA session
 trusted_hce TA --- TDS TA (cards)                  secure_nfc TA
      |                |                                 |
 secure_nfc in the TA  | nested hash tables, one    snfc.c (host): start,
 and host snfc.c       | persistent object          receive, send
      `---------------- NFC (libnfc, lossy) ------------'
```

| Component | State | Operations | Where it is hard |
|---|---|---|---|
| Hash table, `trusted_data_store/ta/hashtable` | open-addressed slots (null, `DELETED`, entry), `n_entries`, `size` | `hashtable_get`, `_insert`, `_delete`, iteration | unbounded probe loops, tombstones, resizing in the middle of an operation, failed allocations, the end of `primes[]` |
| Trusted data store (TDS), `trusted_data_store/ta` | a table of keys whose values are tables of fields; one persistent object | six commands; load on the first session, save on the last close | nested failures, opens, reads and writes whose failure is not noticed, power cuts during the save, a stream without marks, sessions sharing one store |
| Secure NFC handshake, `secure_nfc/ta/snfc_ta_handshake.c`, `snfc_ta_authentication.c`, `host/snfc.c` | one security context per TA: key pair, session keys, IV, sequence number, handles | `snfc_initiator_start`, `snfc_target_start`, `security_context_close` | contexts reused by the next start, results overwritten, messages lost or garbled or taken for others |
| Secure NFC session, `secure_nfc/ta/snfc_ta_communication.c` | sequence number and IV on each side | `snfc_initiator_transceive`, `snfc_target_receive`, `snfc_target_send` | counters that must advance together over lost, garbled and late packets; byte-wide header fields |
| Payment server, `trusted_hce/host/server` | counter of card numbers, clock | validate, purchase, use, recharge; the main loop | two looks at the clock, answers lost after the grant, every error exits |
| Payment client and THCE TA, `trusted_hce/host/client`, `trusted_hce/ta` | cards in the TDS | create request, process response | inserts that fail half-way or succeed without data, loads and saves that fail unnoticed, power lost before or in the save |
| Untrusted client, `evaluate_uhce_client.c`, with the plain-file store `data_store_storage.c` | cards in its own memory and a file, one receive buffer | four loops of operations, save | late responses taken for others, a buffer that keeps the last card, a terminal that ends in the middle |
| Lives of the TAs, `*_ta_entry.c`, `snfc_ta.c`, `trusted_hce_ta.c`, `trusted_data_store.c` | sessions, instances, the NFC device | open, close, the entry points of an instance, the driver's clean-up | programs that overlap, return without closing or are killed |

The programs talk by one message at a time in each direction: host to TA by
synchronous commands, device to device by NFC (request, then response). A TA is
a single instance and runs one command at a time, so a command is atomic to
everybody else; what interleaves is the two devices, the link, the clock, the
sessions and the power.

What makes each component correct:

* Hash table: it is a finite map; the counter is the number of entries; every
  call returns.
* TDS: it is a memory of records which survives closing and opening, unless a load or
  a save fails, which nobody is told of; what such a failure or a power cut leaves has
  fields missing or blank and never mixed up; an operation touches only its own field.
* Handshake: devices that both report success hold the same key, security
  association and IV, and have checked each other when asked to.
* Session: a request is delivered at most once, an answer is accepted only for
  the request being made, no IV is used twice, a receiver that is behind catches up
  and the session goes on once faults end.
* Payments: a value the client has differs from what the servers granted only by
  operations the client saw fail and those of runs whose cards did not reach the disk,
  and a value that is lost is gone or blank and never another; the untrusted client's
  cards differ by no more than it printed failures, and its evaluation ends.
* Lives: a program's handshake is not disturbed by others, no card is lost by
  programs coming and going, but by a load or save that fails, and after the last one everything is closed and saved.

## Modules

| Module | Models | How |
|---|---|---|
| `HashtableOps` | slots, probing, load, `next_prime` | operators on a table record `[entries, n_entries, size]` |
| `Dict` | the promise of `hashtable.h` | abstract map, one call at a time |
| `Hashtable` | `hashtable_get/insert/delete/resize` | one step per loop iteration; `pc` is the loop the call is in; the probe counter is kept modulo the size, so a search without end is a cycle |
| `HashtableCalls`, `HashtableCallsProofs` | the same operations as whole calls | sets of outcomes, for modules that use a table within one command |
| `HashtableProps`, `HashtableProofs`, `MCHashtable` | properties, theorems, instances | `MCHashtable` also remembers the table a call began with, and compares its return with `HashtableCalls` |
| `TrustedDataStore` | `data_store.c`, `tds_storage.c`, `hashtable_iterator.c`, the TA's entry points | one action per command, one per storage write, whole-call tables |
| `RecordStore`, `TrustedDataStoreProps`, `TrustedDataStoreProofs`, `MCTrustedDataStore` | the promise of the TDS, properties, theorems, instances | |
| `Exchange` | the promise of `snfc.h` to its callers | numbered questions, answers |
| `SnfcChannel`, `SnfcChannelProps`, `SnfcChannelProofs`, `MCSnfcChannel` | an established session | packets carry the last byte of the IV and of the sequence number, as in the code |
| `SnfcSession`, `MCSnfcSession` | the session from the return of `snfc_initiator_start`, over `SnfcChannel` | adds a target that may still be in `target_handshake` waiting for the proof, and a moment after which nothing goes wrong |
| `SnfcHandshake`, `SnfcHandshakeProps`, `SnfcHandshakeProofs`, `MCSnfcHandshake` | both `*_start` calls and what they call in the TA | a TA command is a set of outcomes; keys are named by who made them in which start |
| `HceCards`, `HceServer`, `HceClient` | messages, terminal, payer's device | one action per handler |
| `Hce`, `HceProofs`, `MCHce` | the two composed over the link | adds a ledger of what each server granted, as bookkeeping |
| `UntrustedHce`, `UntrustedHceProofs`, `MCUntrustedHce` | `evaluate_uhce_client.c` against `HceServer` over bare NFC, and the plain file | one action per handler and per outcome; `recv_buf` is the card bytes left in the receive buffer |
| `Lifetimes`, `LifetimesProofs`, `MCLifetimes` | programs, TA instances and the NFC device | `pc` is how far a program is in its `main`, `thce` how far the THCE is in its entry points; a TA's state is what its entry points load, save and free |

Composition. The layers are joined by their promises: `Hce` uses a link that keeps
the promise of `Exchange`, which `SnfcChannel` is shown to implement;
`SnfcChannel` begins where `KeysAgree` of `SnfcHandshake` says a successful start
ends; `TrustedDataStore` is built on `HashtableCalls`, which agrees with
`Hashtable`, which implements `Dict`; `HceClient` uses the TDS as a map of card
fields, as `RecordStore` promises: with loads that find nothing, inserts that fail or store no
data, saves that are refused or cut short, and cards of which a field is then blank. `SnfcSession` joins the end of
the handshake to the session where the two devices disagree on which they are in: the
initiator's start succeeds on a time-out of the proof (`snfc.c:97`) and its first request
is taken for the proof. `UntrustedHce` puts another client in front of the same `HceServer`.
`Lifetimes` is what the others assume: that a context or a store belongs to one program
from its start to its end, although the TAs are single instances shared by all.

### How the models read the code

* Cryptography is by its use: a derived key is the pair of key-exchange values,
  a signature is the value signed, a cipher gives back the plaintext when the IV
  matches, and otherwise fails (authenticated ciphers) or gives garbage (CTR, XTS).
  The certificate is compiled in and the same on both devices.
* IVs are counted from the one of the handshake. Only their last byte travels,
  so `CheckRange` and `SeqRange` stand for 256.
* A start that begins anew resets the NFC link, so no message of one start
  crosses into the next (`nfc_initiator_select_dep_target`).
* A storage write is atomic. The results of reads and writes are not looked at
  (`tds_storage.c:25-76, 131-155`). When writes fail from some one on, as when the storage is full or
  broken, the object ends there, as after a power cut (`SaveFails`). When one fails and a later one
  succeeds, or a read fails among others, what follows is read out of step, bytes of data as lengths
  and counts; the model says that this happens (`GoesAstray`) and follows the store no
  further. `HceClient` does follow it, as cards of which any field is missing or blank (fault `gaps`).
* An object that cannot be opened, for whatever reason, gives an empty store and a session
  (`FirstOpen`; `tds_storage.c:119-124`). Opening and creating it
  also fail for want of memory (`alloc`); its reads and writes fail only with the storage.
* A key, field or
  value is one element of the object; lengths that could be torn from their
  data are covered by the positions at which the object may end.
* `TEE_CreatePersistentObject` empties the object when the save begins. What is
  read past the end of the object is the zero the code gave the variable: no
  entries, an empty key (`Empty`), a value of zero bytes (`Blank`). `tds_get` copies nothing from
  such a value, so `read_tds_hce_card` succeeds with what the uninitialised variable held: in
  `HceClient` any date and any value (`Copied`).
* `TrustedDataStore` has a state `hung` for a search that never ends: the TEE
  never gets the instance back.
* Server runs number their cards from 0 each time. `Hce` tags a card with the run
  that issued it, which no message carries, to tell the stored ones apart.
* A value that is never read (the card's `id` field in the TDS) is not stored.

## Runs

All bounds are constants of the configurations. The state counts are of distinct
states.

| Run | Question | States |
|---|---|---|
| `hashtable` | Four keys (two collide everywhere), two values, failing allocations, all three operations, a prime table whose end can be reached: `TypeOK`, `StoredKeysFindable`, `CountIsLive`, `RoomToStore`; does a null slot remain without tombstones (`NullSlotRemains`); is the end of `primes[]` reached only with many keys (`OverrunNeedsManyKeys`); is the table a `Dict`; does a call return unless no slot is null; does every path through the loops end in an outcome of the whole-call operators (`StepsMatchCalls`)? | 250743 |
| `hashtable_delete` | (violated) Does deleting an absent key always fail? | 22499 |
| `snfc_session` | A target that still waits for the proof, lost, garbled, late packets and retries, until faults end: `AgreeOnSuccess`; is the session an `Exchange`; is a receiver up to `MAX_IV_SYNC_ATTEMPTS` behind caught up by the next intact packet; is a request in reach answered once nothing goes wrong any more (`AnsweredOnceCalm`)? | 27456 |
| `snfc_give_up` | Every fault, any cipher, applications that stop at the first error: is an IV ever used twice before memory runs out? | 185076 |
| `handshake` | Two starts over the same two contexts, with lost, garbled and too briefly awaited messages, failing allocations, closes, two security associations, with and without authentication: `KeysAgree`, `ProofsExplained`; does a start to which nothing happens succeed on both devices? | 501658 |
| `hce` | Lost messages, failing loads, inserts and saves, power cuts, expiry, restarts, values that wrap: is every difference between a value the client has and the one granted explained; do purchases keep cards of the same run; does only the card of the operation change? | 1662846 |
| `uhce` | The untrusted evaluation with responses lost or late, failing inserts and saves, an expiring card, a terminal that stops: do no more cards differ from what the terminal made of them than failures were printed, but for those whose response was mistaken for one that stores less (`DifferencesCounted`); does the evaluation end with its store written to the file? | 858025 |
| `tds_power` | Two clients, two fields of a key, loads that fail, saves refused, cut at any write or failing from it on: `TablesSound`; can what a save has written be loaded wherever it stops (`ObjectGood`); is the TDS a `RecordStore`? | 47656 |
| `tds_memory` | Two fields, any allocation failing, those of opening and creating the object too: `TablesSound`, and is the TDS still a `RecordStore`, in which a failed insert has changed at most its own field? | 23128 |
| `tds_delete` | Three keys, deletes of fields and keys, saves and power cuts: does a key in the store have fields; is a hang always due to tombstones or a table of two slots; does a save write exactly what is stored, or end at a tombstone (`SavesExact`); is the TDS a `RecordStore`? | 42588 |
| `tds_delete_field` | (violated) Does deleting a field remove it? | |
| `lifetimes` | Two payment programs, one that uses only secure NFC and a benchmark, each failing to open, returning early or killed at any point, and loads and saves that fail: is a handshake ever disturbed by another program; is a stored card lost; is everything closed and saved once all are gone? | 266035 |

Each property of a passing run is accompanied in `PROJECT.json` by a plausible bug
in the code (a guard dropped, a counter not advanced, the wrong value signed, ...)
that makes it fail under the same configuration. The bugs are operators named as
"Wrong variant" next to the definition they replace.

### Why the bounds are enough

* Hash table. `k1` and `k2` collide in every table, `k3` starts in the slot after
  theirs, so probe sequences overlap and wrap. From three slots (a table of
  three) four keys make the table grow, shrink, be rehashed with tombstones around, and reach the
  end of a prime table of 2, 3, 5 and 7. The theorems remove these bounds.
* Session. Requests are bounded by `MaxRequests`; the ranges are small and prime to
  each other so that both bytes wrap within the bound. `MAX_IV_SYNC_ATTEMPTS` is 2, so that both a sync in reach and one out
  of reach happen. In `snfc_give_up` `SeqRange` is larger than the packets of a
  session, and failing allocations are among the faults; three requests are enough for both sides to
  draw several IVs from one counter. With retries, or after a failed allocation, IVs do repeat, which is why
  the run is for programs which give up, and the property for sessions with memory.
* Handshake. Two starts show everything one leaves to the next: what a successful start, a
  failed one and one cut short by an allocation leave is what the second begins with.
  Two security associations tell a stale one from the right one.
* TDS. Three keys in a store of three slots make it grow, delete makes it shrink,
  and two starts of the instance cover save, load and save again of what was loaded.
  Probing of keys and of fields is not needed in the same run: they are different tables.
  Deletes and failing allocations are in different runs, because a delete that runs out of
  memory half-way meets everything either of them does, and more states than can be searched.
  `KeysHaveFields` is checked where allocations succeed: an insert or a delete that runs out
  of memory half-way may leave a key with an empty set.
* Payments. Three operations, two card numbers, two server runs, a value range of three
  with amounts of two (a recharge wraps), a clock of two ticks with cards valid for one. Three operations
  are a purchase, a use or recharge of its card that fails in some way, and one that meets what
  this left, in the same run or, after a save and a load, in the next. The fault `gaps`, a store read
  out of step, is not in the run, because every load then has as many outcomes as there are ways to
  damage two cards; the run passes with it for two operations, and the theorems hold with it.
* Untrusted client. Three cards in each of the four loops: the first without and the others
  with one before them in the buffer; a late response crosses from one card and from one
  loop into the next, and by two cards within a loop, which two cards do not allow. The
  configuration has a view (`MCView`): states that differ only in how many failures above the number of cards were
  printed are one, as no step depends on that number and no more cards than there are can differ.
* Lives. Two programs of the kind that shares all three TAs, and one of each other kind: every
  pair of programs overlaps at every step, with a third coming and going.

`CHECK_DEADLOCK FALSE` is stated where the model or the system really may stop: the
bounds on requests, starts, operations and server runs are used up; both applications
gave up; the server has exited; the TDS hangs; all programs have ended; `next_prime` has read past its table (`hashtable`).
`hashtable_delete`, where none of this can happen, is checked for deadlock.

### Fairness

* `Hashtable!FairSpec`, and `BeforeSpec` of `MCHashtable`: weak fairness of `Step`. A call is executed by the
  thread that made it; nobody is obliged to call.
* `SnfcSession!SessionSpec`: a blocked `nfc_initiator_transceive_bytes` or
  `nfc_target_receive_bytes` returns once a packet is there, and the target's program
  (`evaluator_target.c`) answers what it received. Nothing obliges the initiator to ask, nor
  the faults to end: `AnsweredOnceCalm` is about the executions in which they do.
* `SnfcHandshake!FairSpec`: both programs take their next step; the link is not
  obliged to anything, and no fault is made fair.

* `UntrustedHce!Spec`: as long as client or terminal can take its next step, one of them does, and a
  transceive to which nobody is left to answer fails. Losses, late responses, kills and the clock are not obliged to happen.
* `Lifetimes!Spec`: the TEE finishes the entry points it has begun, and the driver closes what
  a program that is gone has left. Programs need no fairness: one may wait for ever for a
  device to come near (`nfc_initiator_select_dep_target` without a time-out).

No fairness is assumed of `Hce` and of the TDS: the properties checked of them are about safety.

## Theorems

`HashtableProofs` proves, for every hash function, set of keys, set of values
and table of sizes that satisfy the assumptions of `HashtableOps` and
`Hashtable`:

| Theorem | Statement |
|---|---|
| `TypeCorrect` | `Spec => []TypeOK` |
| `KeysFindable` | every stored key is on its probe sequence before the first null slot, and once |
| `CountCorrect` | `n_entries` is the number of entries |
| `RoomAvailable` | the unbounded search for a free slot has one to find |
| `Implementation` | the table implements `Dict` |
| `OverrunCapacity` | `primes[]` is overrun only with more keys than 60% of half its largest prime: never with up to 302 |
| `SearchesCanStop` | whenever a search runs in a table of three slots or more without tombstones, one of them is null: a client that never deletes has all its searches end |

The assumptions are those of the code: hashes are naturals, the sizes come from
`primes[]` and are positive, the initial size is within it, and null, the tombstone and the entries
differ. None of them is about small sets.

The argument. `StoredKeysFindable` and the others are not inductive: they do not
say what is known in the middle of a call. `IInv` adds this to them: a search (`Searched`) has
passed only occupied slots that do not hold the key; a store (`Storing`) is for a key
that is not in the table, and has passed only live entries; a rehash (`Rehashing`)
has copied exactly the live entries of the slots before `slot`. There is a lemma for
each action (`IInvRehashSkip`, `IInvLookupProbe`, ...), resting on lemmas about the tables: writing
an entry into a free slot of its probe sequence, or turning one into a tombstone, keeps all
keys findable (`WithEntryFindable`, `StillFindable`), and a search that comes to a
null slot has not missed its key (`SearchComplete`). Probing is linear, so that the sizes
are prime is never used: any table of positive sizes will do. For the refinement each return maps to the abstract answer and
every other step to a stutter; `MissedMeansAbsent` is what connects a search with the map.
`OverrunCapacity` uses an invariant (`Overrun`): the end of the table is only reached by an
insert that found the load above `MAX_LOAD` and twice the size above every prime, and
`SearchesCanStop` one (`NeverFull`): a load check before the insert and the resize it causes keep the
live entries below the size, so that only tombstones can occupy what is left.

`SnfcChannelProofs` proves, for every range of the sequence byte and of the check value,
every `MAX_IV_SYNC_ATTEMPTS`, number of requests and set of faults:

| Theorem | Assumes | Statement |
|---|---|---|
| `TypeCorrect` | | `Spec => []TypeOK`, for any cipher |
| `Implementation` | `Authenticated`, `[]~short` | the session implements `Exchange`: a request is heard at most once and in order, and an answer is only accepted for the request being made |
| `ContextsAgree` | `Authenticated`, `[]~short` | every successful receive leaves both contexts with the same IV and the same sequence byte |
| `IvsUnique` | `~Retries` | before memory runs out no IV is used twice, for any cipher, by applications that stop at the first error |
| `CatchUp` | `MAX_IV_SYNC_ATTEMPTS < CheckRange`, `[]~short` | a receiver takes the next intact packet when it is behind by no more than `sync_iv` advances, for any cipher |

The end of the module carries them over to `SnfcSession` (`SessionTypeCorrect`,
`SessionImplementation`, `SessionContextsAgree`, `SessionCatchUp`): a packet taken for the proof leaves both
contexts alone, and what is sent back for it is no intact packet. `MemoryLasts` shows that the condition `[]~short`
is met where allocations do not fail: nothing else makes `short` true.

`short` is a history variable that becomes true when an allocation fails. What follows one is in the
model, and it breaks these properties (see Observations), so they are about sessions before it.

The argument. That a stale answer is never taken for the current one rests on the sequence
numbers alone: whatever packet is on the air for an earlier request has a number strictly behind the one the initiator
waits for, and so has the answer the target is about to make (`RequestFresh`, `ReplyBehind`,
`AnswerBehind`). `toTar` needs no such number to be delivered at most once: a new request replaces
it, and a receive empties it. The numbers wrap to a byte only in packets, so that being behind
survives the wrap: the byte is at most the number. For `ContextsAgree`, `PacketsInStep` says what the receiver
of the current packet will be in step with (`Follows`), and `NextByte` that adding one
commutes with taking the byte. For `IvsUnique`, `IvInv` says that with applications that give up,
one packet on the air, or one side about to make one, carries the newest IV; a receiver
then never has to catch up (`TakenWithItsIv`), so ciphers without authentication are covered too.
`CatchUp` rests on `BytesTell`: fewer than `CheckRange` consecutive IVs have different last bytes, so that the
loop of `sync_iv` stops at the packet's IV and at none before it (10 against 256 in the code).
Each invariant was checked by TLC on the runs' instances before it was proved.

`SnfcHandshakeProofs` proves, for every number of starts, set of security associations and choice of faults:

| Theorem | Statement |
|---|---|
| `TypeCorrect` | `Spec => []TypeOK`: a context with session keys has the handles they were set in |
| `KeysAgreed` | devices that were both told that their start succeeded share the secret and the IV, unless a field was garbled, a failure overwritten (`snfc.c:236`), or a device has no keys for want of memory |
| `PeersVerified` | they have verified each other when they were to, unless a message was lost or garbled, or memory short |

`KeysAgree` speaks of the end of a start only. `HandshakeInv` follows it there: whose turn it is, so that nothing of an
earlier start or of the other kind is on the air (`Turns`); what the initiator awaits and that a target which has
answered derived its session from this start's request (`Awaiting`); that a target with a proof to check has the key it
answered with (`Challenged`); and where both are when only the acknowledgement is missing (`Concluding`, `Verified`). A TA
command is a chain of calls of which each may fail, so there is a lemma for each call on what it leaves in the context.

`HceProofs` proves, for every number of cards, amounts, server runs and operations, widths of a value,
and choice of faults:

| Theorem | Statement |
|---|---|
| `TypeCorrect` | `Spec => []TypeOK` |
| `OnlyItsCard` | a use or recharge changes the stored value of its own card only, but for card 0 when a response comes without its card |
| `PurchasedCardIsNew` | a purchase writes over no card of the same server run |
| `Explanation` | with no request under way, every value the client has is what the terminals granted it, modulo its width, up to the operations the client saw fail and those of runs whose cards did not reach the disk; a value lost is gone or blank |

`CardsInv`: request, the server's work on it and its answer exist one at a time while the client waits, each made from
the one before for the job in progress (`LinkInv`), and every card anywhere was numbered before the counter's value
(`CounterInv`, `Issued`). `LedgerInv` adds by how much a card may be off in between, while the server may have
performed what the client has not stored or has given up (`MoreUses`, `MoreCredit`), and says the same of the store on
disk, to which a run that is lost returns: by a power cut, a refused save or a data store that ended. A load or a save
that fails otherwise only takes values away (`CardLeft`), of which the property says nothing. The sums are modulo `ValueRange`; that a remainder is the only one is proved first.

`UntrustedHceProofs` proves `TypeCorrect` and `FailuresExplain` (`Spec => []DifferencesCounted`), for every number of cards, every
value of a card and choice of faults. Responses may be late by any number of requests, so none can be matched with its
request, but they can be counted: every request still on the link stands for a transceive that failed or is in progress,
and taking a response, whosever it is, takes one away (`CountInv`). The cards counted with them are not
those that differ now but those that will when all that is under way has arrived (`Lost`). An earlier form
of the property, which did not exempt the cards whose response was mistaken for that of an operation that stores less, held of two cards and
could not be proved; three cards violate it.

`LifetimesProofs` proves, for any number of programs of each kind:

| Theorem | Statement |
|---|---|
| `TypeCorrect` | `Spec => []TypeOK` |
| `ContextIsOwn` | from its handshake to the end of its link the context is the program's own, whatever the others do and however they end |
| `NoCardLost` | no stored card is lost by the coming and going of programs, but by a load or a save that fails |
| `NothingLeft` | when all programs have ended and the THCE has closed its sessions, nothing is open and every card saved that no load or save which failed has lost: the safety part of `EndsSaved` |

`SessionsFit` says which sessions a program has open where it is in its `main` (`ProgramHolds`) and the THCE in its
entry points (`ThceLinked`), that the THCE serves one program at a time and that the device is that of the one program
between `ready` and `closing`. A session with the secure NFC TA or the store then outlives whatever needs it.

The assumptions of these four are on types and on null being none of the data; none bounds a set or a number.

`TrustedDataStoreProofs` proves, for any keys, values and hash function, any clients, commands and faults:

| Theorem | Assumes | Statement |
|---|---|---|
| `StoreInvariant` | | `Spec => []IInv`, the inductive invariant |
| `StoreTyped` | | `Spec => []TypeOK`: whatever is loaded, served or cut short, the store is a table of tables |
| `StoreSearchable` | | while the instance serves or saves every key is found, at its slot and once, and the counters are exact (`TablesSound`) |
| `ObjectLoadable` | | wherever a save ends, what it has written can be loaded (`ObjectGood`) |
| `HangsTakeCrowding` | | a search without end is in a table of two slots or one with a tombstone (`HungExplained`) |
| `NoKeyWithoutFields` | no failing allocations | until a save is cut short no key is left without fields (`KeysHaveFields`) |

It assumes of its constants, besides that null, `DELETED` and the marks of lengths are none of the data, that there are
finitely many keys and starts, that 1 is not in `primes[]` (it is not), and that `primes[]` reaches far enough
(`SizesAssumption`): a `next_prime` past its table has no meaning, and `Hashtable` covers that. How far is enough turned out
in the proof. Room for all keys does not do. An object that ends in the middle of a set announces more fields than
it has, and the load enters one with the empty name for each that is missing (`hashtable_insert_new_entry` looks for no
duplicate); the set is saved with them, and the next torn save may do it again. Each start can add as many such
fields to a set as there are keys, which is the bound `Cap`.

The argument. Every call of `HashtableCalls` keeps what it relies on (`Kept`: a table of the right
type, its counter exact, its keys reachable and unique; `Roomy`: below the load that leaves a slot free). That is
`HashtableCallsProofs`, for tables with any values, since the store is a table of sets and a set a table of data
(`InsertOutcomesKept`, `DeleteOutcomesKept`, resting on `CopiesKept` for the loop of a resize). `GoodStore` says it of the store
and of its sets, in which the empty key may be repeated up to `Cap`. That is inductive over the commands, and not over the load:
it needs to know what is in the object. So `ObjectGood` says that the object can be loaded, and of a save under way that
whatever it will have written when it stops can be loaded (`Savable`). A save establishes it in one step for all the
places at which it may be cut, and each of its writes only makes them fewer. To establish it, the sequence of writes is shown to be regular
(`Regular`: each field four writes, each set two more, each key two before them), the positions at which the load
looks for a key to be those at which the save wrote one (`Aligned`, slot by slot), and what is beyond
the end to be read as zeros: an empty name, no entries, size 0. `NoneEmpty` is what the last theorem needs: no set in the store, nor
one in a complete object, is without fields. Neither follows from `KeysHaveFields` itself, which is silent about the object.

The recursive functions of the model (the copying of a resize, the concatenation of writes, the positions, the loading) are
not taken as given: that each has the value its definition unfolds to is proved (`CopiesDefined`, `ConcatenatedDefined`,
`FillingDefined`, `PositionsDefined`, ...), and inductions over them take the least counterexample (`LeastNatural`).
`IInv` was checked as an invariant of the instances of `tds_power`, `tds_memory` and `tds_delete` before it was proved.

What is only model-checked: all liveness (proofs under fairness and of
`ENABLED` are out of the prover's reach); that the TDS implements `RecordStore`, and `SavesExact`: both say what the records
read back are, where the invariant says that they can be read; and that the folds of `HashtableCalls` equal the loops.

## Findings

Where a doc, a comment, a test or an assertion says one thing and the program does another,
and a run, expected to be violated, shows it:

* `DeletingAgainFails` (`hashtable.c:189`): a search ends at a null slot or at the key.
  Once tombstones have used up the null slots, deleting (or getting) an absent key never
  returns. The payment application is not concerned: it does not delete
  (`NullSlotRemains`, `SearchesCanStop`).
* `DeletesFields` (`trusted_data_store.c:151`): `tds_delete_field` ignores its parameters.

## Observations

Behaviour the models contain as it is in the code, and which the properties are worded around:

* `snfc_ta_communication.c:61`: `sync_iv` returns the result of its last increment also when no
  increment reached the check value. Authenticated ciphers refuse the packet later; CTR and XTS
  return garbage as a success. `ImplementsExchange` is therefore about authenticated ciphers.
* `snfc_ta_communication.c:24`: when `create_next_iv` finds no memory for the increment or the sum it
  returns the success of the conversion before it. The IV stays, and the next packet repeats it.
* `snfc_ta_communication.c:176`: when `create_snfc_packet` finds no memory for the integrity check value it
  returns the success of the encryption. A packet without a header goes out, the number stays, and after
  a timeout a late answer to the last request is taken for the answer to the new one.
* `snfc_ta_handshake.c:98`: when `derive_session_keys` finds no memory for the digest it returns the
  success of the call before it, and `security_context_init` gets key handles nobody set: the TA
  panics, or the start succeeds with a session that has no key (`KeysAgree` names this case).
* `snfc_ta_authentication.c:122`: when `create_authentication_proof` finds no memory for the signature it
  returns success and writes none; the peer then refuses whatever is in the buffer.
* `snfc.c:236`: a failed proof of the initiator is overwritten by the result of the
  acknowledgement, so the target's start succeeds (`ProofsExplained` names this way).
* `snfc_ta_handshake.c:206`: a closed context keeps its pointers, and closing it once more, or the
  destruction of the TA, frees them again.
* `hce_server.c:271`: the outer loop never runs twice, although the comment at lines 240-242 tells of a
  server that goes on to the next client.
* `trusted_hce.c:131`: a refused operation returns `TEE_SUCCESS`, where the untrusted client reports an invalid
  response code (`evaluate_uhce_client.c:187`).
* `data_store.c:72`: an insert without memory for the data reports success. In `RecordStore` an
  insert that meets a failing allocation is refused and changes nothing, or reports success and leaves its field
  empty; no other field changes.
* `hashtable_iterator.c:6`: the iterator has a `DELETED` of its own, so that a save after a delete
  meets the tombstone and reads its null key, which
  ends the instance in the middle of the save.
* `tds_storage.c:119`: whatever the reason for which the object cannot be opened, the store is a new one and
  the session opens; the next last close overwrites the object with it.
* `tds_storage.c:25-76, 131-155`: the results of reads and writes are not looked at, and
  `trusted_data_store.c:47` does not look at that of the save.
* `trusted_data_store.c:118`: a field of zero bytes, as a torn save leaves it, is got with success and nothing
  copied; the THCE then sends the terminal what its uninitialised card held.
* `data_store_storage.c:96, 116`: the untrusted client does not look at the results of `fwrite` and `fclose` (157).
* `data_store.c:115`: the set taken out of the store by `delete_key` is read as an entry.

Things the passing runs show that a user of the code should know: deletes of absent keys
halve an almost empty store (17, 11, 5, 2 slots), after which a lookup may hang
(`HungExplained`); a load that fails goes unnoticed and costs all cards; a torn save leaves blank values and empty keys that the next load
serves (`RecordStore!DamagedFrom`); a save that is refused is not noticed and the sessions' changes
are gone; a session ends after 256 packets because a 32-bit number is compared with
a byte (which is why `AnsweredOnceCalm` asks for `seq_n < SeqRange`); a purchase after a server's restart may replace a stored card
(`PurchaseKeepsCards` is about one run); a card that expires between the server's two
looks at the clock makes the client write card 0 (`OnlyJobCardChanges`).

Of the untrusted client: a late response to a purchase, read as the answer to a use, stores a value in a card
without a date; a code 1 without a card stores what the buffer held before, at first card 0 with
zeros (in both cases `DifferencesCounted` counts the card as `mistaken`, like one whose purchase is
taken for the answer to a validation, which stores nothing); after a select that failed, `save_data_store`
is given a null pointer, having emptied the file (`evaluate_uhce_client.c:303`, `:346`); a transceive
that fails with a negative result does not end its loop, so with the terminal gone the client fails once
for every card left, and then saves.

Of the lives: a payment program that cannot open its link returns with both sessions open
(`trusted_hce_client.c:45`, `:52`), and `tds_benchmark.c:355` never closes its own: that their cards are
saved all the same rests on the driver, and is shown in `lifetimes`. The context of `snfc_ta.c:8` is not
tied to a session. What keeps it one program's is only that `nfc_open` gives the device to one
program at a time, which in the code comes after `init_snfc_ta` and before any command. When `TEE_OpenPersistentObject` fails, the
programs work on an empty store and none of them is told; what they store then replaces the object
(`LoadFails`, which `CardsKept` and `EndsSaved` exempt).

## Not modelled

* Checks of parameter types, marshalling and buffer lengths in the TA entry points and the
  client libraries: one synchronous call each, no state.
* What the TEE and libnfc do inside; they are modelled from how the code uses them.
* Leaks (a start replaces the handles of the last one without freeing them): the context
  has no count of them.
* `untrusted_hce_client.c`, an earlier form of the untrusted client for one operation, does
  not compile against the data store as it is; `evaluate_uhce_client.c` is modelled instead.
* What a store read out of step (`GoesAstray`) answers, and a load in which an allocation for a set of
  no fields fails and leaves a null set; one for a set with fields ends the instance, which is modelled.
* In the untrusted client, a Linux process, inserts fail as a whole or not: an insert that succeeds
  without data for want of memory (`data_store.c:72`) is modelled for the TAs, whose heap is small.
* Reading the plain file back: its one user removes the file first.
* `(copy)` and `(old)` files, and taking and printing times.

## Plan

Done, in the order of importance: hash table with proofs; secure NFC session with proofs; payments;
TDS; handshake; the session with a target that still waits for the proof, and its recovery after the
faults; the untrusted client with its file; the lives of programs and TAs; allocations and deletes
in the refinement of the TDS; the invariants of the TDS proved.

Left, extending the model:

1. The SPI selecting an authenticated cipher or not, from `SnfcHandshake` into `SnfcChannel`.
2. Compose the THCE TA with `TrustedDataStore` in place of its map of fields: the composition has to drop
   the probing to stay within TLC's reach.

Left, proving: that `TrustedDataStore` implements `RecordStore`. What remains is to relate the records of a table to those
of the table after a call, and of a complete object to those of the store that was saved.
