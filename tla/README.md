# Verification of hap

`hap` is a HomeKit accessory server in Go: it pairs with controllers (iOS
devices), gives them access to the characteristics of one or more accessories
over encrypted HTTP, and sends them events.  This directory models it in TLA+: its
concurrent parts as state machines, its algorithms as functions, its built-in
accessories as data.  TLC checks the models.  TLAPS proves every safety property of the state
machines for any number of connections, controllers, requests, starts and faults,
that pairing implements its abstract specification, and what the algorithms
promise for any input: the curve of Adaptive Lighting for any points, identifiers
for any accessories, the items of TLV8 for values and lists of any length.

`PROJECT.json` lists components, runs, findings, hazards and theorems, and maps
every definition to the source lines it stands for.

## Inventory of the system

| Component | State | Operations | Modules |
| --- | --- | --- | --- |
| Pairing administration (`server.go`, `pair-setup.go`, `pair-verify.go`, `pairings.go`, `listener.go`, table of `session.go`) | session map `Server.sess` per remote address, connection table `cons`, pairing files | `/pair-setup` M1 M3 M5, `/pair-verify` M1 M3, `/pairings` add, remove, list, `StateClosed` | `PairingServer`, `PairingRegistry` |
| Encrypted connection (`conn.go`, `session.go`) | `s`, `ss`, `readBuf`, two frame counters | `Upgrade`, `Read`, `Write`, `Encrypt`, `Decrypt` | `SecureConn` |
| Characteristics (`characteristic/c.go` and its typed wrappers, `characteristics.go`, `accessories.go`, `notification.go`) | value, subscriptions, prepared write per session | `GET`/`PUT /characteristics`, `GET /accessories`, `/prepare`, `SetValue` of the host, `sendNotification` | `Characteristics` (interleavings), `Values`, `Access` (data) |
| Boot and store (`server.go`, `fs.go`, `keypair.go`, `misc.go`) | uuid, version, configHash, key pair, schema, pairings, ids | `NewServer`, `add`, `migrate`, `prepare`, `ListenAndServe` | `Boot`, `Identifiers` |
| Adaptive Lighting (`adaptive/`) | active transition, timer, active count, lamp, blob of the host | writes of the control characteristics, `Disable`, brightness changes, `tick`, `Serialize`, `Restore` | `AdaptiveController` (interleavings), `Curve`, `Transition` (data) |
| TLV8 codec (`tlv8/`), RTP types (`rtp/`) | none (pure) | marshal, unmarshal | `Items`, `Tlv8`, `Messages` |
| Built-in accessories (`characteristic/*.go`, `service/*.go`, `accessory/*.go`) | none | constructors | `CharacteristicCatalog`, `AccessoryCatalog` |
| mDNS, cryptography, generator, commands, log | none that the others depend on | | not modelled |

Each part that has both concurrency and data is modelled twice: once with every
interleaving and its data reduced to what the control depends on, once with the
data and a single actor.

### How the parts interact

net/http runs one goroutine per accepted connection.  The requests of one
connection are handled one after the other; those of different connections
interleave freely, and share `Server.sess` (under `Server.mux`, one access at a
time), the global connection table (under its own mutex, one access at a time),
the store (no lock at all) and the characteristics (a mutex each, released
around callbacks).  A handler that ends returns to the serve loop, which flushes
the response and reads the next request; when the connection is closed the
serve loop ends and calls `connStateEvent(StateClosed)`, which deletes the
session.  `conn.Close` from another goroutine does not stop a running handler.
Timers and calls of the host run on goroutines of their own.

### What is hard

- *Interleavings*: every handler is a chain of single, separately locked
  accesses; decisions are made on what an earlier one returned (check then act).
- *Partial failure and restart*: saving a file truncates it and then writes it;
  several files belong together; only files survive.
- *Ordering*: values, counters, saved blobs and announcements are made under a
  lock and handed over after it.
- *Stale copies*: the session holds a copy of the pairing, the cleanup a copy of
  the connection table, a tick a copy of the transition.
- *Boundaries*: 1024-byte frames, 255-byte fragments, 16-bit versions.

The places where this bites are the `hazards` of `PROJECT.json`, each
with the properties that cover it, or a note on what the model shows and why no
property is stated.

### What makes each component correct

- Pairing: one pair-setup at a time; pair-setup only while unpaired; a session
  lives no longer than its connection and is the one its handler was let in
  with; a removed controller is disconnected; only an admin, or the one connection
  that is admitted to pair-setup, changes pairings.
- Connection: no counter is used twice or left out; what is delivered is what
  was sent, in order; nothing of the plain part is taken for encrypted or the
  reverse.
- Characteristics: what is stored in a number or a bool has its type and limits, but
  for NaN; no failure of an entry is silent; subscribers are told of every change; a write that needs
  preparation happens at most once per preparation, before its deadline.
- Boot: the identity of the accessory never changes; the version changes exactly
  when the configuration does; ids are unique and stay; a migration is complete
  and is not repeated; a cancelled context ends the server.
- Adaptive Lighting: one timer per transition, none without; a transition that
  is on goes on; what the host stored is what runs; the temperature follows the
  curve that was requested.
- Codec: what is written can be read back.

## Plan

Done:

1. `PairingServer` with its proofs: the most important behaviour, access.
2. `AdaptiveController` with its proofs: the component with the most concurrency.
3. `Characteristics` with its proofs: values, notifications and timed writes.
4. `SecureConn`: two readers and several writers on one connection, the upgrade.
5. `Boot`: a start as a sequence of store writes with crashes between them.
6. `Items`, `Tlv8`, `Messages`, `Curve`, `Transition`, `Identifiers`: pure
   functions on bounded inputs.
7. `Values`, the two catalogs and `Access`: every built-in accessory, and what
   requests do to values.
8. `PairingRegistry`: an abstract specification that `PairingServer` implements.
9. Proofs of that refinement, and about `SecureConn`, `Boot`, `Identifiers`,
   `Values` and `Access`.
10. Proofs of what `Algorithms` states of `Curve`, `Identifiers` and `Items`, for
   every input.

Nothing of the plan is left.  What cannot be proved is listed under Proofs.

## PairingServer

`PairingServer.tla` models `server.go` (session map, `IsPaired`, saving and
deleting pairings), `pair-setup.go`, `pair-verify.go`, `pairings.go`, the
listener and the connection table.

State:

| Variable | Code |
| --- | --- |
| `tcp` | the TCP connection: open, or closed while its serve loop has not ended |
| `cons` | keys of the global `cons`; entries are never removed (`session.go:37-46`) |
| `sess` | `Server.sess`: nothing, a pair-setup session before ("setup") or after ("proved") M3, a pair-verify session, or a session with a copy of the pairing |
| `store` | the pairing file of each controller: none, truncated ("torn"), or a permission |
| `pc`, `req` | where the handler of the connection is, and its locals |
| `todo`, `names` | the copies that the cleanup loop and `deleteAllPairings` iterate over |
| `unlinked` | writers whose file was removed between truncation and write |
| `faults` | failed writes and restarts, at most `MaxFaults` |

A handler is cut at every access to shared state.  `PairSetup` reads `IsPaired`,
`PairSetupSessions` the other sessions, `PairSetupM1/M3/M5` its own session;
`SaveTruncate` and `SaveWrite` are the two halves of `os.WriteFile`, `SaveFail` a
refusal of the file system at either; `DeletePairing`, `RemoveFile`,
`CheckAdmins`, `CloseAll`, `DeleteAllPairings`, `CopyConns`, `CloseController`
are the stages of a RemovePairing.  A refused request that changes nothing is a
stuttering step.  `Restart` keeps only `store`.

Abstractions, and why they are sound:

- An address is used again only after its previous connection was forgotten.
- `IsAuthorized` and the following `getSession` are one step: only the handler
  of the connection itself and its `StateClosed`, which comes after the handler,
  change its entry.  That is the invariant `HandlerKeepsSession`, proved below.
- The scan of the directory is one step, and so is the loop of `CloseAll`, which
  reads nothing but the table.
- SRP, signatures and keys are reduced to "good or refused"
  (`PairSetupRefuse`), a choice that M5 makes anew: `pairSetupM5` asks for a
  pair-setup session, not that M3 succeeded on it, so that `PairSetupM5` goes on from
  either state of the session.  `updateTxtRecords` only hands records to mDNS.
- The store is `fsStore` on a POSIX file system: removing a file that somebody
  writes leaves the writer with a nameless one.  `memStore` is not modelled.
- `ListPairings` reads only and is a stuttering step.

### The abstract registry

`PairingRegistry.tla` says what all those handlers promise, without handlers,
sessions, files or tables: each connection has a role, and `Admit`, `Claim`,
`Enter`, `Leave`, `Write`, `Pair`, `Remove` and `Restart` say when roles and
pairings may change.  `PairingServer` implements it under the mapping `store` to
`pairing`, `role` (of `sess` and the handler) and `claim` (of a pair-verify M3 that
has read the pairing and not stored its session yet).  `ImplementsRegistry` says
so: one connection at a time is admitted to pair-setup; whoever has a session has
claimed a pairing that was there; only an admin of such a session, or the
connection in pair-setup, changes a pairing, and the latter never makes it a
user's; a restart gives nobody a role.

A connection is admitted (`Admitted`) from its session check on, if it has a
pair-setup session and sent an M3 or M5, and stays so while its session is past M3
or its M5 is being saved.  Admission is by exclusion of the others, and that is what
the handlers guarantee by their structure; that it takes the pin is not stated, as
it depends on the keys that the model does not have.  `Claim` is
an action of its own because the code does not read the pairing and store the
session in one step: that is the finding of `pairing_late_verify`, and with one
action in place of the two the refinement does not hold.

### Runs

| Run | Bounds | Shows |
| --- | --- | --- |
| `pairing_safety` | 3 connections, 1 controller, 1 fault, symmetry | `TypeOK`, `SetupExclusive`, `NoOrphanSession`, `HandlerKeepsSession`, `TornOnlyWhileWriting`, `ImplementsRegistry` |
| `pairing_liveness` | 2 connections, 2 controllers, no fault, no symmetry | `RemovedControllerDisconnected`, `ClosedConnectionForgotten` |
| `pairing_late_verify` | 2 and 2 | violation: a pair-verify that read the pairing stores its session after the cleanup |

The model shows more that no statement of the repository rules out, or that two
comments state too broadly.  An AddPairing that is past its permission check
survives `deleteAllPairings`, which leaves users without an admin; of two removals
of one controller the second is answered with an error; while the only pairing
file is being rewritten, `IsPaired` is false and a pair-setup can add a second
admin.

Three connections are needed for a pair-setup, its rival and a third that
disconnects, and for two writers and a removal of one file; the properties of
one pairing file do not relate two controllers.  Two controllers are needed
where one removes the other.  One fault is enough to lose a write or to restart
in the middle of any handler.  The runs marked "violation" in `PROJECT.json`, here
and below, are disagreements between comments of the code and what it does; each
has an entry under `findings`.

Fairness: weak fairness of the handler of every connection and of its
`StateClosed`.  A goroutine that can run is scheduled by the Go runtime; no step
of a handler waits for another handler.  Nothing is assumed of controllers, the
network or failures.

## AdaptiveController

`AdaptiveController.tla` models `adaptive/controller.go`.  A thread is a
goroutine: a request handler, a call of the host, or a callback of
`time.AfterFunc`.  Whatever a method does under `c.mu` is one step; what it does
outside is a step of its own: the active count (`SetCountOn`, `SetCountOff`), the
lamp (`TickDrive`, which may fail), the characteristic (`TickReflect`),
`OnStateChange` (`Notify`).  `TickRead` and `TickArm` are the two critical
sections of `tick`.

| Variable | Code |
| --- | --- |
| `active`, `timer`, `count` | `c.active`, `c.timer`, value of the active count |
| `armed` | timers that are running; a stopped timer is not |
| `stuck` | `c.mu` is held by a goroutine that panicked |
| `saved` | the blob the host stored last; the host stores what `Serialize` returns, in one step |
| `pc`, `op` | where a goroutine is, what it was started for |
| `ended` | transitions for which `evaluate` finds no point any more |
| `given`, `restarts` | bounds: `MaxTransition`, `MaxRestart` |

A curve is reduced to whether it still has a point for now: it may have none
from the start, and it loses it at any time.  The temperatures that a tick gives
to the lamp and to the characteristic are not kept: nothing the controller decides
depends on them, so that the order in which two ticks drive the lamp is not
modelled; which temperatures they are is `Transition`.  The host calls `Restore` once after
a restart, before it serves requests (`Serving`).

`adaptive_safety` (3 goroutines, 2 transitions, 1 restart) checks `TypeOK`,
`NoLeakedTimer`, `ActiveIsScheduled` and `SavedIsCurrent`.  Two transitions and
three goroutines let a tick of the first one, a `Disable` and a new enable
overlap.  `adaptive_status` shows a disagreement with a comment: the response to
an enable dereferences a transition that is off again and leaves the mutex
locked.  After that panic nothing moves, so that deadlock is not checked.  The
model also has a tick that disables a newer transition than the one it found
exhausted, and an active count that disagrees with `c.active` after an overlap;
the properties hold all the same.  `SavedIsCurrent` is about a host whose callback
serializes and stores in one step (`Notify`): that two callbacks serialize in one
order and store in the other, which leaves the older blob, is not covered.  There is no liveness property: the timer, not the scheduler,
drives this component, and a lamp may refuse for ever.

## Characteristics

`Characteristics.tla` models `characteristic/c.go` (setValue, events), the
handlers of `characteristics.go` that change state, `notification.go`, and the
prepared write of a session.  An actor is the handler of a connection or a
goroutine of the host that calls `SetValue`.

| Variable | Code |
| --- | --- |
| `conn`, `table` | connections and the connection table; "verified" after pair-verify |
| `events`, `val` | `c.events`, `c.Val` of each characteristic |
| `twr` | `session.twr`: none, live, or past its deadline |
| `pc`, `cur`, `good` | where an actor is, its entry of the PUT, whether the pid fits |
| `payload`, `todo` | the value a notification carries, the rest of its copy of the table |
| `stale` | history: subscribers that have not been told the value since it was set |
| `executed` | history: connections whose preparation a complete PUT has used |

`ReadOldVal` and `SetVal` are the two critical sections of `setValue`; `ReadVal`,
`CopyConns` and `Send` the steps of `sendNotification`, which reads `c.Val` again
without the lock and writes to one connection after the other.  A PUT chooses
its entries as it goes, any number of them.  Values stand for converted and
clamped ones; that a value is not writable, not valid, or refused by the host is
`Refuse`.  What a value becomes, and what is answered, is `Access`.  `ConnStateClosed` deletes the session and its preparation and leaves
`events` alone, as the code does.  `c.Val` is read in `sendNotification` while
others write it; all values of one characteristic have one Go type, so that the
outcome of that race is the old or the new value.

| Run | Bounds | Shows |
| --- | --- | --- |
| `char_safety` | 2 connections, 1 host goroutine, 1 characteristic with timed writes, 2 values | `TypeOK`, `ChangesAnnounced`, `TimedWritePrepared` |
| `char_standard_write` | 1 connection, 2 characteristics, one timed | violation: the handler panics without a preparation |

Three setters and two subscribers are enough for a change between any two steps
of another notification; characteristics share nothing but connections.  The
model shows that an older value can be written to a subscriber after the current
one, and that a connection which gets the address of an earlier one gets its
events.  There
is no liveness property: `conn.Write` has no deadline and TCP keepalive is off
(`listener.go:18`), so that one controller that does not read may block a
notification, and its setter, for ever.

## SecureConn

`SecureConn.tla` models `conn.go` and the frames of `session.go` for one
connection.  Two goroutines of net/http read, never at once: the serve loop, and
the background read that runs while a handler does and is ended by a read
deadline.  The serve loop and any number of notifications write.

| Variable | Code |
| --- | --- |
| `pending`, `ss`, `readBuf` | `c.s`, `c.ss`, `c.readBuf` (nil and empty are told apart) |
| `inCount`, `outCount` | `decryptCount`, `encryptCount` of each session |
| `rd`, `dec` | where a `Read` is; the running `Decrypt`: its session, what its `bufio.Reader` has read ahead, what it has decrypted |
| `wr` | where a `Write` is: its session, the frames made and to be made |
| `pc`, `handled`, `delivered` | the serve loop: what `Read` has returned, how much of it became requests |
| `sent`, `arrived`, `taken` | what the controller has sent, what TCP has delivered, what was read from the socket |
| `wire`, `peer` | what was written; the controller: its session, its counters, the responses it has read and the answers it waits for; it closes on a frame it cannot open |

A message is a sequence of frames, a frame two units, so that it can arrive in
parts; "full" frames have 0x400 bytes.  `BeginRead` is `Read` up to its choice of
a branch, `ReadPlain`, `ReadBuffered`, `ReadEOF`, `Fill` and `DecryptFrame` are the
branches.  `EncryptFrame` takes one counter under the mutex; `WriteSocket` is the
`Write` of the socket.  A deadline can end a background read only while it waits
for the socket (`AbortRead`).  An authenticated frame opens iff its session and
number are the expected ones: cryptography is reduced to that.

| Run | Bounds | Shows |
| --- | --- | --- |
| `conn_safety` | pair-verify and three further requests of one frame, two outstanding, one perhaps a second pair-verify; one event; responses of up to 2 frames | `TypeOK`, `OnlyFullFramesSkipped`, `CountersUnique`, `NoCounterSkipped` |
| `conn_upgrade` | no notification, 2 requests | violation: the background read begins between `Upgrade` and the flush, and the M4 goes out encrypted |

Two requests outstanding make a read-ahead and a byte read in the background
possible; an exact (full) request followed by another one makes a `Decrypt` of
two frames with a deadline between them; a second session has counters of its
own.  Several frames of a response and an event at once make two writers
interleave in `Encrypt`.  The controller does not send a request on the new
session before it has the M4, as HomeKit prescribes.

`OnlyFullFramesSkipped` is what remains of "nothing is lost": a new
`bufio.Reader` per message drops what it had read ahead, and the deadline discards
a message that is half decrypted.  A loss of the first kind makes the next frame
fail, so that the connection ends and net/http never sees bytes with a gap.  A
loss of whole full frames is not noticed, because the counter has already moved
on; the property says that it is the only one.  `CountersUnique` and
`NoCounterSkipped` say nothing of the order in which the frames of two writers
reach the wire: it can differ from that of the counters, and the peer, whose
counter is another one then, cannot open the frame.  The model also shows that a
message of exactly n * 1024 bytes stays in `Decrypt` until the next one comes, and
that a buffer which the message fills exactly makes the next `Read` return EOF.
A peer that stops reading or sending is allowed at any point, so that deadlock is
not checked and no liveness is claimed.

## Boot

`Boot.tla` models the life of the process over several starts: `NewServer` with
the migration from `hc` (`fs.go`), `add` and the comparison of hashes, `prepare`,
and `ListenAndServe` with the goroutines of the responder and the closer.

| Variable | Code |
| --- | --- |
| `file`, `pairing` | the files of the store; an empty one is told from a missing one |
| `pc`, `mem`, `config`, `todo` | where the start is, the fields of the `Server`, the accessories of this start, the `.entity` files left |
| `ctx`, `dns`, `closer` | the context and the two goroutines with their unbuffered channels |
| `served`, `removed` | history: what each `ListenAndServe` has announced, controllers that were removed |
| `starts`, `fresh`, `harm` | bounds, and the source of new identifiers |

Each write of a file is an action, which may fail and leave the file as it was or
empty; `Crash` may come at any point and tear the file being written.  Errors that
the code ignores (schema, version, hash) go on, errors it returns end the start.
What requests do to the pairings while the server runs is one step here, and
`PairingServer` in detail.

`boot_safety` has 3 starts, 2 shapes of accessories and 2 values, a controller left
by `hc`, with its own key pair or without, and one write that fails or is torn: three starts are a
change, a crash and the start after it; `VersionMod = 4` lets the 16-bit version
wrap to 0, which is also what an empty file reads as.  It shows `IdentityKept`,
`VersionTellsChange`, `MigrationComplete`, `RemovedStaysRemoved` and `CancelStops`.
`VersionTellsChange` and `RemovedStaysRemoved` are about starts whose writes
succeed or are not begun (`harm = 0`), with a crash between any two of them, and
`VersionTellsChange` about no more starts than there are versions: a start that
crashes after it has written the version and before it has written the hash
leaves the next one to advance the version again, and after `VersionMod - 1` such
crashes in a row the version has come around to the one announced before.  The
proof is what showed this; it takes 65535 crashes.  With
a failed write the model shows the opposite: if the version cannot be written but
the hash can, the next start announces changed accessories with the old version;
if the schema cannot be written, the next start migrates again and brings back a
controller that was removed.

Fairness: weak fairness of the goroutines of `ListenAndServe` (`Goroutines`) for
`CancelStops`: the Go runtime runs a goroutine that can go on, and the
responder and the http server return when they are told to.  Nothing is assumed
of `Cancel`, crashes or requests.  A process that is not started again may stop,
so that deadlock is not checked.

## Algorithms: Items, Tlv8, Messages, Curve, Transition, Identifiers

These modules are functions.  `Algorithms` states what `Curve`, `Identifiers` and
`Items` promise for an input, and is what the proofs are about; `MCAlgorithms`
adds what the recursive `Tlv8` and its users promise, and chooses an input in its
only step.

- `Items.tla`: `writer.go` (`writeBytes` with its fragments, `writeNumber`), the
  lists of `encoder.go` (`writeList`) and `reader.go` (`itemsFrom` takes the items
  off the bytes, `buckets` gathers the values of each tag, in buckets that a
  delimiter opens, and `number` reads one).
- `Tlv8.tla`: structures over items, `encoder.go` (`structPayload`) and
  `decoder.go` (`decode`, `decodeList`, with the errors that are passed on and
  those that are swallowed).
- `Messages.tla`: the 22 structures with `tlv8` tags of pairing, Adaptive Lighting
  and RTP, by tag and kind, and the two default stream configurations.
- `Curve.tla`: `evaluate`.  Quotients are exact where the code has `float64`; the
  result is rounded as `math.Round` does.
- `Transition.tla`: `clampCT`, the choice of a command, what `enable` makes of a
  request, and the two responses.
- `Identifiers.tla`: what `Server.add` numbers, and where it stops.

| Property | Says |
| --- | --- |
| `RoundTrip` | what `Marshal` writes, `Unmarshal` reads back, for each structure |
| `FieldsByTag` | the same when fields come in another order and with an unknown one |
| `ItemsReadBack` | values and lists of values, each under its tag, are read as they were written, however many fragments they take |
| `NarrowNumbers` | a number sent in fewer bytes than its field has is the same |
| `CurveCovered`, `CurveInterpolates` | there is a temperature exactly from the first to the last point, it is between those of the points, and a point has its own |
| `TransitionAsRequested` | a request enables iff it has the flag and a curve, and what runs is what a read reports |
| `IdentifiersKept` | identifiers are unique, and adding at the end changes none |

The run `algorithms` uses the fragment length and the byte of the code (255, 256)
and values of 0, 1, 254, 255, 256, 510 and 511 bytes, so that a value ends right
before, at and after one and two fragments; structures differ from a default in
one place of each level, lists have up to three elements.  `Written` chooses three
tags, 0 among them because it is also a delimiter's.  Curves have up to three
points with and without holds, at each millisecond from before to after them.
Accessories have up to three items with every mixture of chosen and missing ids.

What the premises leave out is what the code does not carry.  `Carried`: a value
of `int64` beyond four bytes (no structure has one), an empty value of a required
field (nothing is written for it, and the decoder leaves a nested structure that lacks
a required value as it was, without an error: no property covers that), and an element of a list after the first that takes more than one fragment,
whose rest is joined to the first; `ItemsInput` leaves out the last two as well, and
`Sendable` the first.  `CurveInterpolates`: two points at the same time
without anything between them, where 0/0 becomes an `int` that depends on the
architecture and that `clampCT` limits.  `IdentifiersKept`: accessory ids of which
the host has chosen some but not all, which can collide.

## Access: values and built-in accessories

`Values.tla` is a characteristic and what a written value becomes: conversion to
the format (`convert`), `clamp`, `validVal`, the answers of the functions of the
host, the typed wrappers.  `CharacteristicCatalog.tla` and `AccessoryCatalog.tla`
are the constructors, one definition each: format, permissions, limits, the
value it starts with, and the order in which services and accessories are put
together.  `Access.tla` numbers them with `add` of `Identifiers` and handles GET and
PUT entry by entry, `/prepare`, `GET /accessories` and `SetValue` of the host.

`access_safety` asks six small accessories, one for each kind of limit and one with
a `uint64`, for everything: requests of two entries, with and without a preparation
in time, with values below, in and above the limits, fractions, values of another
type than the format's (a text for a number, among them "NaN"; a number or a list for
a text), event flags and every answer of the host.  It starts with the 23 built-in
accessories, 51 services and all characteristics of the catalog as well.

`StoredIsAccepted` is a property of steps: a value that `setValue` stores in a number
or a bool, whatever was there before, has the type its `Value()` asserts, is within
the limits and valid.  Two things are excepted because the code does not
promise them.  The text "NaN" becomes a float64 that `clampFloat` lets pass (a number
of JSON cannot be one).  And a string, `data` or `tlv8` characteristic stores
whatever JSON brings (the default branch of `convert`).  The model shows what follows:
a response that has a NaN in it cannot be encoded, and an empty one is sent in its
place (`Sent`); a typed function of the host panics on a value of another type, before
it is stored (`OnSetRemoteValue`) or after (`OnValueUpdate`, on the old value too), and
so does `setValue` itself when it compares a list with a stored list or takes a
`uint64` for an `int` (`Panics`, `LeftByPanic`, `PutPanics`).  net/http recovers these
panics and closes the connection.  A typed `Value()` that the host calls
elsewhere, or the functions of its own `SetValue`, would panic outside of a handler:
that ends the program, and is not modelled.

The property does not say that every value is accepted, because seven of the built-in
characteristics that can be read start with another (`Unset` in `MCAccess`, which
TLC compares with the catalog): five of bytes that start with a `[]byte` where
`Value()` asserts a string, one without a first value, and
`TunneledAccessoryStateNumber`, a float that starts with an `int`.
`NoSilentFailure`, `RefusedKeepsValue` and `GetTellsAll` relate values, events and the
statuses that are told.

What the host configures is a constant: its accessories (`Databases`), the ids that
requests name (`Addressed`), the values they carry (`Inputs`, of each format) and
the answers of its functions (`Reads`, `Writes`).  `Parsed` is what `xiam/to` makes of
a text, a list or a map where a number or a bool is asked for: some value of that
type, for a float64 NaN or an infinity as well.  The `ASSUME`s say no more than
that, and that the wrapper of a characteristic fits its format, its
limits do not contradict each other (`WellFormed`), and a status is 0 or negative.  The
first value of a characteristic and what is written to it are not restricted.

There is one connection and one request at a time: interleavings are
`Characteristics`.  A `float64` counts ten-thousandths, strings are told apart by
number.  The conversion of a negative `float64` to `uint64` has both outcomes, that
of amd64 (it wraps around and back) and that of arm64 (0); numbers beyond 63 bits are
not among the inputs.  Without a connection that waits for something
deadlock has no meaning here and is not checked, nor is it in `algorithms`.

## Proofs

`PairingServerProofs.tla`, for every set of addresses and controllers and every
bound on faults:

- `TypeCorrect`: `Spec => []TypeOK`.
- `SetupIsExclusive`: `SetupExclusive` is not inductive.  A connection that has
  passed the session check can still store a session after another one started,
  so that several sessions in state "setup" may exist.  `OneAdmitted` says that
  there is one connection at most that is past M3, or past the check with a session
  and an M3 or M5: whoever comes second finds the session of the first.  That
  the session of a saving M5 is still there comes from `HandlerInv`.
- `HandlersKeepTheirSession`, `SessionsDieWithConnections`: `HandlerInv` adds
  that a handler that runs has a connection that is not forgotten.
- `TornIsTransient`: `WriteInv` relates each torn file to a writer and each
  removed file to the writers of `unlinked`.

The refinement is `ServerImplementsRegistry`, `Spec => ImplementsRegistry`.
What a step of a handler means for the registry depends on the states that the
server reaches, and `RefinementInv` says which: `HandlerInv`, because a handler
that changes a pairing must still have the session it was let in with;
`OneAdmitted`, because one connection at a time is admitted; and `SetupSavesAdmin`,
because it makes no user.  A step touches the role and the claim of its own
connection alone (`OwnRole`); most are stutters of the registry, and the session
check, a refusal or the end of a save may be `Admit` or `Leave`.

`AdaptiveControllerProofs.tla`, for any number of goroutines, transitions and
restarts: `TypeCorrect`, `NoTimerLeaks`, `ActiveStaysScheduled`,
`SavedStaysCurrent`.  They rest on `RestoreInv`: until `Restore` has returned no
timer runs, all other goroutines are idle, and what was restored is what the
host has stored.  `ActiveIsScheduled` is inductive as it stands; the other two
need `RestoreInv`, because `Restore` sets `c.active` without looking at the timer.

`CharacteristicsProofs.tla`, for any number of connections, host goroutines,
characteristics and values: `TypeCorrect` (with `EntryInv`, what an actor works
on), `EveryChangeIsAnnounced` and `TimedWritesArePrepared`.  `OwedInv` says that
whoever is owed a value is subscribed, alive and in the connection table, so
that the copy of the table a notification makes includes it; `PreparedInv` that a
preparation that is there was not used by an earlier PUT.

`SecureConnProofs.tla`, for any number of sessions, requests, events, frames and
notifying goroutines: `TypeCorrect`, `NothingElseSkipped`, `NoNonceTwice`,
`NoCounterMissing`.  `CountersUnique` becomes inductive with `Counters` (a counter
that was taken is that of a packet on the wire or in the hands of a writer) and
`Writing` (who has packets is between `Encrypt` and the socket).
`OnlyFullFramesSkipped` needs the whole connection:

- `Turns`: one reader at a time, and `readBuf` is not used while a `Decrypt` runs.
- `Stream`: the units in `readBuf`, in the running `Decrypt` and in its read-ahead
  follow each other, so that a gap can only come between two of these places.
- `Counting`: what the controller sends has growing counters, and nothing follows
  a pair-verify before its answer.
- `Upgrading`: from `Upgrade` to the M4 at the controller, and only then, the
  accessory is one session ahead.
- `Openable`: what was not delivered is of the session that the next `Read` uses,
  and its counter still opens, or it is a full frame that a `Decrypt` has opened.
  After a loss by read-ahead it is therefore the next frame that fails.

The last two hold while the connection is open, which is why they are apart.

`BootProofs.tla`, for any number of starts, failing writes, controllers and
accessories, and every number of versions above two: `TypeCorrect`,
`SameIdentity`, `ChangeAnnounced`, `Migrates`, `NotMigratedAgain`.  `Identity`
relates the files of the identity to the fields of the server and to what was
announced, with the key pair of `hc`, which may be migrated repeatedly, above
that of the server.  `Migration` says that the schema comes after the last entity.
`Versions` is the strengthening that `VersionTellsChange` needs: the stored version
is that of the last announcement advanced n times (`Behind`), where n and the
announcements together are no more than the starts; that bounds n by
the number of versions, and is where the bound in the property comes from.

`IdentifiersProofs.tla`, for every list of accessories: `IdentifiersStable` says of
`Numbered` and `add` that `Identifies` holds.  The lemmas are about `Numbered`:
numbers are positive and growing, and depend on what comes before only.

`AlgorithmProofs.tla` proves the properties of `Algorithms` for every input
(`CurveInput`, `AccessoriesInput`, `ItemsInput`, `NumberInput`), of which
`MCAlgorithms` chooses some, for every length of a fragment from 8 and every even
number of different bytes above it.  It rests on two lemmas that the library has for
operators only, here for sets and functions: `Induction` over a set of numbers,
and `Recursion`, which says that a function defined step by step exists, as TLA+
asks of a recursive function before it has its equations.

- `CurveIsCovered`: `Reached` and `ReachedInOrder` give the times of the points;
  that some segment contains every time between the first and the last is an
  induction over the points (`SegmentsCover`).
- `CurveIsInterpolated`: a weighted mean of two numbers is between them and so is
  what `math.Round` makes of it (`RoundBetween`, `InterpolateBetween`), with the
  factor of the brightness inside the mean; at its ends it is exact.
- `IdentifiersAreKept`: from `IdentifiersStable`.
- `ItemsAreReadBack`: `ItemsOf(s, x)` says that the bytes `s` are read as the items
  `x` wherever they stand in a stream, `Fills` what items make of buckets, and
  `Reads` puts the two together, with whether a delimiter came before.  All three
  can be joined, one piece of a stream after the other (`ReadsJoined`,
  `ReadsFlattened`).  What is left is one step for a fragment, one for an element of
  a list and one for a tag (`ReadsBytes`, `ReadsList`, `ItemsRead`).
- `NumbersAreKept`: the reader undoes division by the base digit by digit
  (`NumberOfDigits`), if the highest digit tells the sign; that it does is an
  induction over the powers of the base (`HighestDigit`).

`AccessProofs.tla`, for any accessories, requests of any length, values and answers
of the host: `TypeCorrect`, `StoresAccepted`, `FailureTold`, `StatusTold`,
`RefusedWithoutEffect`.  Lemmas `Clamped`, `Converted` and `SetOutcome` say what
`clamp`, `convert` and `setValue` return for every value: within the limits, of the
type of the format unless that is a text, and the old value unless the outcome is a
success.  `WriteAccepted` puts them together for one write, `PanicWrites` says that
a panic leaves the old value or one that `setValue` stored.  `Kept` says
that the characteristics are those of the start, with their formats and limits;
`StoresAccepted` needs it, because a value is compared
with limits that have to be well-formed.  `Getting` is what a GET has gathered
before it answers.  The lemmas of `IdentifiersProofs` give the ids that `TypeOK` of
`Access` requires.

The assumptions are the `ASSUME`s of the modules: bounds are natural numbers;
connections, host goroutines, notifiers and the markers of the models (`NoValue`,
`NoChar`, the entity "own", the names of the two readers) are different things; and
those of `Access` above.  The last step of each theorem is temporal (`PTL`), the
others are one step per action.

What only TLC checks, on the bounds above:

- liveness, which needs fairness and `ENABLED`: `RemovedControllerDisconnected`,
  `ClosedConnectionForgotten`, `CancelStops`;
- the properties of structures and what uses them, `RoundTrip`, `FieldsByTag` and
  `TransitionAsRequested`: a structure contains structures, so that encoder and
  decoder are recursive operators, and the proof an induction over types; what is
  proved of them is the layer below, their items and numbers;
- the four violations, which are behaviours;
- that the built-in accessories meet the assumptions of `Access`: they are data, and
  TLC evaluates the assumptions for each of them.

## Not modelled

- mDNS: `txtRecords`, `updateTxtRecords` and `service` hand records to the dnssd
  library; no modelled state depends on them.  When the responder starts and stops
  is part of `Boot`.
- Cryptography (`curve25519`, `ed25519`, `hkdf`, SRP, ChaCha20-Poly1305): wrappers
  of libraries, of which the models use only whether a proof, a signature or a
  frame is good.
- The loop of `chunked_writer.go`, which cuts a body into writes of 2048 bytes,
  and `/identify`, which calls the host; neither keeps state.  The order in which a
  controller that removes its own pairing is disconnected and answered is always
  the same and not modelled either.
- `memStore`, a map that cannot fail: the stores of the models may.
- The code generator, the example commands and the log package, which are not
  part of a running server.
- Time is not measured: deadlines and timers may expire at any point, and a
  curve of `AdaptiveController` may end at any point.
