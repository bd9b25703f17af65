# OpenAir: verification development

TLA+ modules for OpenAir, a Go program that lets a person's devices exchange files,
control each other and share screens, clipboards and folders over QUIC.  The modules
are checked by TLC on small instances and, where a proof is within reach, proved by
TLAPS for every value of their constants.  `PROJECT.json` lists the runs, the mapping from
definitions to source lines, the theorems and the known hazards of the code.

Paths below are under `src/internal/` unless they begin with `README` or `docs/`.

## 1. The system and its parts

| Part | State | Operations | Talks to | What is hard |
|---|---|---|---|---|
| files, `caps/files` | live transfers by id, chunk plan, bitmap, part files on disk | offer, accept, manifest, chunks, progress, complete, cancel | session (messages, data streams), disk | many goroutines per transfer, crash and resume, re-offers |
| unlock sessions, `identity/unlock.go` | one decrypted key, a grant per peer, timers, failure count | Unlock, Lock, LockPeer, SignOwned, BeginOwned, Check, sweep | session's proofs, daemon | lazy expiry, stale timers, throttling |
| trust store, `identity/truststore.go` | peer records in a file | Get, Put, Delete, List | pairing, daemon | read-modify-write by several callers |
| session, `session` | negotiated capabilities, a queue per capability, pending proofs and nonces | hello, Send, dispatch, datagrams, proofs, close | every capability | order across queues, proofs spent once, bounded queues |
| pairing and guards, `pairing` | the pairing window, an exchange, the live guard of a peer | Initiate, Serve, settle, Authorize, Revoke | trust store, session | two sides settling, store against guard |
| control sessions, `daemon/control.go`, `daemon/input.go` | announcements, controls, acks, kills, cooldowns | announce, end, kill, watch, controlling | session, input, mirror | both ends' views, kill against announce |
| remote input, `caps/input` | per peer: highest numbers, keys and buttons held | event, safety release, Release, Forget | daemon, the operating system | datagrams lost, repeated, reordered; release against event |
| mirror, `caps/mirror`, `daemon/mirror.go` | shares, views, stream tokens | start, pump, stop, publish, kill | control sessions, capture | an old pump ending a new share |
| remote files, `caps/remotefs`, `daemon/stream.go` | block cache, live URLs | read, put, evict, reap | session, disk | eviction against readers |
| clipboard, `caps/clipboard` | last applied, last sent | watch, apply, send | the operating system | echoes |
| notifications, `caps/notifications`, `daemon/notify.go` | which devices show which key | post, remove, dismiss | session | a dismissal against a post |
| path, `path`, `daemon/punch.go` | routes by peer and address | promote, demote, sweep, punch | relay, conn | two paths at once, stale measurements |
| relay, `relay`, `daemon/relay.go` | registrations, mailboxes | register, deliver, pump, read with deadline | path | replaced registrations, missed deadlines |
| rendezvous and discovery, `rendezvous`, `discovery` | registrations, peers seen | register, look up, observe, sweep | daemon | order of updates |
| daemon, `daemon/daemon.go`, `daemon/transfer.go`, `daemon/unlock.go` | live sessions, clients | register, sessionTo, onTrust, ask | everything | superseding a session in use |
| transport, `conn`, `infra/frame.go` | QUIC connections | dial, listen, frame | session | assumed: ordered reliable streams |
| the rest | | IPC, CLI, GUI, mobile, benchmarks, congestion control, screen capture | | I/O, generated or vendored |

What makes each part correct:

* **files**: nothing appears under its own name unless every chunk was verified; a
  success reported is a delivery; the bitmap never claims a chunk the disk does not hold;
  one writer per destination; a sender is always answered; the plan's cuts are the same
  on both ends.
* **unlock**: a signature only while the token lives, a step of an operation only until
  its grace ends; failures spaced; the key wiped when nobody has a grant.
* **trust store, pairing, guards**: a demotion is never undone by a concurrent update;
  both sides of a pairing agree; a live session is never allowed more than the store says.
* **session**: a proof authorises one message; no capability starves another.
* **control and input**: no input is applied without a live announcement; what a peer
  holds is released when its session ends; a kill is final for the cooldown; every later
  event takes effect.
* **mirror, remote files, clipboard**: a share ends with its announcement and not with
  an older one; a block read is the block asked for; no echo.
* **path, relay, rendezvous, discovery**: traffic goes to the peer it is for; a
  fallback exists while the relay does; newer information wins.

## 2. Modules

| Module | Models | Depends on |
|---|---|---|
| `ChunkPlan` | `plan.go`: cuts, lookup of a frame, the shared counter | |
| `FileReceive` | `recv.go`, `state.go`: attempts, streams, ticker, finish, commit, crash | |
| `FileDelivery` | abstract: what Send promises | |
| `FileTransfer` | `send.go`, the session, composed with `FileReceive` | `FileReceive`, `FileDelivery` |
| `OwnedAccess` | abstract: what an unlock promises | |
| `Unlock` | `identity/unlock.go` | `OwnedAccess` |
| `RemoteControl` | `daemon/control.go`, `daemon/input.go`: announcements on both ends | |
| `RemoteInput` | `caps/input`: numbering, held keys, release | |
| `SessionAuth` | `session`: proofs, authorisation, queues, streams | |
| `MutualConsent` | abstract: what a pairing promises | |
| `Pairing` | `pairing`, the records and sessions of `daemon` it runs over | `MutualConsent` |
| `RelayLink` | `relay`, `daemon/relay.go`: registrations and redialling | |
| `Path` | `path`, `daemon/punch.go`: routes, punching, sweep, on both ends | `RelayLink` |
| `BlockCache` | `caps/remotefs/cache.go`: entries, files, eviction | |
| `RemoteStream` | `caps/remotefs/stream.go`, `daemon/stream.go`: URLs, readers, fetches | `BlockCache` |
| `Mirror` | `caps/mirror`, `daemon/mirror.go` on both ends | |
| `ClipboardSync` | `caps/clipboard`, `daemon/autoclip.go` | |
| `*_proofs` | theorems and proofs about the module named; `FileTransfer_proofs` also about `FileReceive` and `ChunkPlan`, `RemoteControl_proofs` also about `RemoteInput`, `RemoteStream_proofs` also about `Mirror` | the modules, `TLAPS` |
| `MC*` | constants for TLC | the module |

Definitions named `...Slip` are faulty variants of the definition after them.  No action
uses them: each stands for a plausible bug, and the property it is paired with in
`PROJECT.json` fails when it replaces the definition, so the property is known to be
able to fail.

### ChunkPlan

State: the sizes and chunk size of a plan, `skip`, the counter `next` and, per data
stream, where its `Claim` is.  `Add` and `Check` are the two halves of a turn of Claim's
loop: the atomic addition, and what follows it.  `Chunk`, `Locate` and the running totals
are recursive functions on the file list.  `MissingSentOnce` is about the interleaving: no
chunk is handed out twice (`HandedOutOnce`) and a drained counter means that all were
(`DrainedMeansSent`).  `CutsAgree` is about the arithmetic, which receiver and sender compute
separately: the chunks tile the byte space (`ChunksTile`) and a frame is located exactly
where it was cut (`LocateInvertsChunk`).

Not modelled: wrap-around of the 64-bit totals (an offer would have to exceed 2^64 bytes)
and `Remaining`, a progress figure.

### FileReceive

An *attempt* is a `recvState`.  Actions and code:

| Actions | Code |
|---|---|
| `Offer`; `Supersede` and at last `ReplaceSuperseded` | `onOffer` for a fresh id; for a live one, up to `supersede` and after its wait in `finish` |
| `HandlerSnapshot`, `HandlerRename` | the `flush` inside `supersede` and `cancel`: under the set's lock, and outside it |
| `Manifest`, `Cancel`, `RemoveParts`, `DiscardState` | `onManifest`, `cancel`, `discardPartial` |
| `OpenStream`, `StreamReady`, `TakeChunk`, `WriteChunk`, `MarkChunk`, `EndStream` | `ServeStream`, `serveStream`, `acceptChunk`, `streamDone` |
| `TickSnapshot`, `TickRename` | the ticker's `flush` |
| `FinishBegin`, `CopyFailures`, `TestComplete` | `finish`: the superseded test, the list of failures, the completeness test |
| `FinishSnapshot`, `FinishRename` or `Retire` | its `flush`, and what follows it in an attempt that is not, or is, superseded |
| `RenameFile`, `DropBitmap`, `Report` | `commit` and the end of `finish` |
| `Crash` | the process dies: memory goes, disk stays |

A slot of a part file holds who wrote it, `<<transfer, file>>`, or `Zero`.  A digest is a
Boolean, `match`.  Messages of one session reach the capability one at a time (the session
has one queue per capability), so there is one handler; data streams, ticker and finisher
are goroutines of their own.  A write through a handle whose part was renamed lands in the
renamed file, as it does on disk.

Ticker, finisher and handler may each be inside `flush`, with a snapshot of their own in `snap`.
They share one temporary file, so an overlap can also leave a torn one; `load` refuses a file of the
wrong length and takes it for no bitmap, which costs a transfer its progress and breaks nothing
stated here.

An id may be offered again at any time.  `ended` and `revived` are history: the ids whose parts
have begun to be renamed or removed, and the ids that were offered again under a bitmap which
the part files did not back.  The code lets that happen, by a crash between commit and the removal
of the bitmap (finding 1) and by a flush of any of the three that lands after it, the superseding
handler's own included (finding 31).  `BitmapsAreSound` says that only an id that ended can be
revived, and `FinalWhole` and `OkMeansDelivered` hold of every other id; without `revived` in them
TLC shows a file of zeros presented as complete.  `OkMeansDelivered` has one more exception, `lost`:
an attempt whose accept could not be sent has no handles and stays registered, and a late
stream of an earlier attempt can finish it (finding 32).  Distinct destinations are the remaining
premise: with one path for both files `FinalWhole` fails (finding 2).

### FileTransfer and FileDelivery

`FileTransfer` extends `FileReceive` with `SendWithID`, its pump and its data streams, with
the control stream as a FIFO each way and one FIFO per data stream.  `DropSession` takes
what is in all of them.  Its receiver actions are those of `FileReceive` conjoined with the
message they consume or send.  `RecvReport` sends on the session the attempt was offered on, and
only if that session still lives.

Each data stream has a worker: `SendChunk` claims a chunk and enters `Write`, `WriteFrame` is
`Write` returning, `StopWorker` and `SourceFails` its errors, `CloseStream` the drained plan.  A stream
takes `Window` frames that the receiver has not read; after that `Write` waits, and there is no
deadline on it.  `CancelSend` and `Abandon` only mark the call (`gone`); the call leaves `pump` when
all of its workers are done (`Pumped`), and its two selects by `GiveUp` or `SendDone`.  A receiver that
leaves a stream with an error resets it (`RefuseStream`, `RecvTimeout`, `RecvWrite`), which ends
the worker's `Write`; one that leaves because its attempt was aborted returns nil and does not.
That is `Stuck`: the worker waits until the session dies, and `SendReturns` holds of every call
that is not waiting for such a worker (finding 33).

`FileDelivery` is the promise: delivered in one step, never undelivered, `ok` only after
delivery.  `ImplementsDelivery` maps `delivered` to "every file whole under its name" and
`voided` to `revived`: of an id the receiver has taken up again under a bitmap that its disk did not
back nothing is promised.  The ticker is in step here, and so are all late flushes.

Crashes of the receiver are not composed: `FileReceive` checks them.  `RetryUnanswered = FALSE`
means an id is retried only after an
answer or on a new session (`docs/PROTOCOL.md` section 8.4 speaks of reconnecting).  @@RETRY@@

### Unlock and OwnedAccess

Each exported operation takes `unlockState.mu`, reads the clock inside and is one action.
`Kept` is what `expireLocked` leaves.  `armed` is the set of peers whose reap timer has
not fired, `sweeping` a timer's goroutine on its way to the lock.  `lastTry` and `out` are
history: no guard reads them.

`OwnedAccess` has no lazy expiry: at each tick the tokens that end are gone.  `Unlock`
implements it with `until` mapped to `Kept` and `limit` to the operations' deadlines, which says
that laziness, stale timers and replaced grants cannot be observed.

Not modelled: the warning timer (it notifies only), key files and page locking, a
clock that moves backwards or stands still while the machine sleeps.

### RemoteControl

Two devices, one control stream each way, and the requests of the controlling device's
shells.  A request's steps are the lock sections of `sendInput`, `controlling` and
`announce`; `HearAnswer` is what the controlling device's control queue does; the rest is
the controlled device: `HearAnnounce`, `RecordAnnouncement`, `SpawnWatch`, `Acknowledge`
are the parts of `onSessionAnnounce` between which another goroutine may run, `Collect`,
`SetCooldown`, `EndVictim`, `TellVictim` those of `KillSessions`.  Timers
(`announceWait`, `inputIdle`, `controlSessionIdle`, `killCooldown`) fire at any moment.

`Register` comes after the announcement was sent, as in the code: an answer that overtakes it
is dropped, and the request times out.  A kill that overtakes it is dropped too.
`DropControl` drops whatever is stored, also another request's session.  None of this
breaks what is stated here, because the controlled device relies on its own watcher.

`recorded` is history.  An input event here only keeps an announcement alive; one event
stands for all those of a request.

### RemoteInput

One peer's events at one device: `Emit` numbers an event with its request's own Controller,
the network loses and reorders, and `Receive`, `Accept`, `Apply` are the
parts of `ServeDatagram`, which the session's datagram loop runs one event at a time.
`Notice`, `TakeHeld`, `InjectUp`, `Released` are `releaseStale`, `Release` and `Forget`; the
safety timer and every goroutine inside `endAnnouncement` may be in them at once.
Announcements are a counter, `live`.  `took`, `last`, `back`, `missed` and `late` are history and
outlive `Forget`, which wipes what the code itself remembers.

`LatestWinsBetweenEnds` says how far "Latest wins" (`input.go:392`) holds: an older move of a Controller
follows a newer one at most once for each announcement that has ended, because every end forgets the
highest number, also while another announcement of the peer stands (finding 34).  With 0 in place
of `begun - live` TLC shows that step back.

The announcement's end and the event path are composed through `live` and `letgo`
instead of extending `RemoteControl`: the product has more than 15 million states at
the smallest interesting size, and the two meet only where an announcement
begins, ends and is asked for.

`NewestIsTaken` and `NothingStuck` are what the comments of the code promise and the code
does not keep; as INVARIANTs of `RemoteInput.cfg` they show findings 5 and 6.

Not modelled: `Close` with `ReleaseAll` at shutdown, modifiers, and the trust level the
session asks for again at each datagram.

### SessionAuth

The receiving half of one session.  `wire[ch]` holds what the peer wrote on the control stream
and on each capability stream; `ReadControl` is a turn of the control loop up to `dispatch`,
`Enqueue` its possibly blocking send to a capability's queue, `Serve` the handler that takes
from it, `ServeStream` the goroutine of a stream.  A proof names no operation: `receiveProof`
holds it and the next message of its capability spends it (`Authorize`, with the order of
`authorizeInbound` and `consume`).  `Sign`, `Issue` and the actions built on them are the peer:
proofs sent ahead of a message, streams abandoned between proof and request, a frame repeated.
The store's lookup and the proof's use are one step, because neither disturbs what the other
reads.  `Purpose` is the capability of a stream's operation: its opener signs for the operation
it writes next (`remotefs/client.go:160`).

`StarvedByEvictionOnly` names the only ways in which a message that was sent behind a proof of
its own arrives without one: the bound dropped a proof of that capability, or a message without
a proof took it.  It counts both, capability by capability.  `EveryMessageSettles` says that a
full queue delays but never stops the control loop.  The one exception is a handler that waits
for a person: the prompt for an incoming file (`caps/files/recv.go:100`) holds its queue, and
with it the loop, until it is answered.

Not modelled: Hello and the negotiation, which end before any of this begins (`HelloRecords`
and `Negotiations` are their outcomes), datagrams, keepalives, the envelope's bytes.

### Pairing and MutualConsent

One device shows a code (`Show`, `Pick`), the other scans it, dials and initiates
(`Scan`, `TakeRequest`, `TakeResponse`); users answer (`Accept`, `Decline`), in time or too late
(`Overlook`, `AcceptLate`), ends tell
each other (`TakeConfirm`), linger and pin (`Pin`, `PinFails`, `GiveUp`, `Expire`).  Under it are the
sessions: dialled, delivered to, registered, superseded and lost, each
with its own record read by `Authorize` and written back by `Touch`; beside it `onTrust`
(`ReadTrust`, `WriteTrust`) and `Unpair`.  A message to the exchange waits in an inbox per session,
and a session number is never used again.

`MutualConsent` is section 5.2 of `docs/PROTOCOL.md`: a key is recorded for an exchange only
after both users confirmed that exchange's digits.  `EndsAlike` says that both ends record or
neither does, and names its exceptions: `excused` collects exchanges that were lost, timed out,
met a full disk, or had a message later than the linger (D-86 accepts those).
`UndoneByOverlapOnly` says how a user's decision can be undone: only by a session that read the
record before it and writes it back (a finding).

`Daemons` says which device runs the daemon.  There every wait has a timeout (`Timed`): the whole
of `onPair`, and the prompt for the digits.  A command or the app has the exchange's two minutes for
the peer's messages, but waits in `ln.Accept` for the first session and in `Confirm` for its user
as long as it takes (finding 30); it answers after the timeout by `Overlook` or `AcceptLate`.
`DoorShuts` is about every device at which a timeout runs.

`Guard`, `Revoke` and grants are left out: the program never asks a Guard or revokes.  Only
the scanning device dials for a pairing, and both hold a privilege key, so a record is its
level.

### RelayLink and Path

`RelayLink` is one connection per device to the relay: `register` and its supersession, loss
of a connection and the redial, and whether a datagram of one reaches the other.  `Path` is both
ends of a session above it.  The signalling end asks `CanUpgrade` and exchanges
candidates; both punch, promote and demote.  Time runs in ticks of one sweep
(`keepaliveInterval / 3`, five seconds); in each tick each end's sweep looks at its routes once
(`review`), probes one that is quiet beyond `Interval` and abandons one quiet beyond `Timeout`.
An address is the number of moves its device had made; packets to an older one are lost.

`OutlivesAMove` relates three timeouts that are constants in three files: a moved
peer must be noticed and the relay taken before QUIC's idle timeout.  TLC finds `Timeout + 3`
ticks to be the exact bound: `IdleTimeout = 5` with `Timeout = 2` holds and 4 does not.  In the code
they are 9 and 12 ticks, 45 and 60 seconds; `AMoveIsOutlived` proves that `Timeout + 3 <= IdleTimeout` is
enough for every timeout.  A path that fails in one direction only
adds the two ends' timeouts and does exceed it (a finding), hence `blocked = {}`.

Assumed of QUIC: at least one packet each way in a tick (its keepalive), addressed by DeviceID
throughout.  A probe and its answer are one step; a retry takes at least a tick.  Not modelled:
STUN, the spacing of the spray, the parsing of candidates, the relay's challenge and mailboxes.

### BlockCache and RemoteStream

`BlockCache` has the LRU list with the size under the cache's lock, and the files, which are
written, read and unlinked outside it: `get` may find an entry without a file, an eviction may
remove a file that was just put back.  `RemoteStream` adds the URL's entry, the reader opened for
it, its window of blocks, the fetches (goroutines that try the cache, the source and the cache
again) and callers that seek.  A block's content is the version of the file it came from, so
a stale read is visible.  One operator is one lock section or one call on a file.  A version is what
the key can tell apart: in the code the size and the modification time in milliseconds
(`cache.go:264`, `remotefs.go:410`), so a file replaced within one millisecond by one of the
same size counts as the same version.

The window's length is a choice (`Windows`), since it depends on measured rates.  Left
out: short blocks, end of file, sticky errors, the rate estimate, two requests at
the same time, and a reader opened after `close`.

### Mirror

A request to watch is one name for its announcement, its view and the capture it leads to.
The watching device's steps are those of `mirror` and `Watch`; the shared device has a control
handler and a mirror handler per session, and the handler of a session that was lost finishes
what it is doing.  `LookForOne`, `StartCapture` and `Share` are the parts of `startSharing`
between which another goroutine may run; `PumpReturns` is `pump` with its deferred
`stopSharing`; `FinishEnd` is the second half of `endAnnouncement`.

The code has two races here, and the properties hold but for them: `raced` collects captures
that a stop passed by while they were starting, `lost` those whose entry in `sending` another
capture overwrote.  Left out: frames and their abandonment, IDR requests, bitrate and
statistics, viewers of the local URL, and kills, which are in `RemoteControl`.

### ClipboardSync

Each device polls (`Poll` reads the clipboard, `Decide` is `ShouldSend`, `Push` sends to one
session at a time) and applies (`Receive` and `Apply` are `onClipboardReceived` up to `Applied`,
`Write` the helper that writes).  A text is the number of its copy.  `now` is a time no device
knows: what a device reads off its own clock is up to `Skew` away from what another one reads
(`Clock`), and what `ShouldApply` compares is the sender's reading with its own.  `Grain`
is the truncation of `origin_ts` to milliseconds, which `localAt` does not have.

The suppression of echoes assumes that a poll does not overlap an apply and that a write
succeeds.  A *mishap* is such an overlap or failure.  The properties are stated in the number of
mishaps: none means no echo and at most two come of each (`EchoesNeedMishaps`); copies further
apart than the clocks and a grain, with none crossing, end in one text on both devices
(`EditsConverge`; closer than that, the later copy may bear the earlier stamp and be refused, and the
clipboards stay different: finding 35);
and with finitely many mishaps the exchange stops (`ExchangeStops`).  A lost session excuses
`EditsConverge` too.  Without the excuses for overlaps and crossings each
is violated, which the findings quote.  `EditsConverge` is a property of two devices: three do not
converge (a finding).

Left out: a push by hand, failing reads, MIME types and sizes, a text carrying the device's own
tag, and two copies of equal content.

## 3. Runs

| Run | Instance | Shows |
|---|---|---|
| `chunk_plan` | every list of up to three files of 0 to 3 bytes, chunk sizes 2 and 3, two streams, any `have` set, one index beyond the plan included | the plan's arithmetic and the counter |
| `file_resume` | one transfer of two one-chunk files, two attempts, two streams, one crash, three flushers | whole files, true reports, sound bitmaps, one writer, with the exceptions named |
| `file_transfer` | one transfer of one two-chunk file, two calls, one stream a call with room for one unread frame, one lost session, one mishap (a cancel, an abandoned call, a changed or unreadable source, a missing manifest) | `FileDelivery` is implemented; `SendWithID` returns unless a worker is stuck |
| `unlock` | two peers, one operation, lifetimes 1 and 2, grace 1, four ticks, throttle from the third failure | tokens end on time, failures spaced, key wiped |
| `remote_input` | one key, two requests, three events, two announcements, two ending goroutines and the safety timer | order of moves between ends, input stops, held keys are released |
| `remote_control` | two requests, one kill at a time, one lost session, an event per request | no input before the announcement, every announcement ends |
| `session_auth` | two capabilities, one of them Owned and on streams, two streams, one pending proof, queues of one, two proofs, two messages, a repeated frame, a changed record | a proof is spent once and lost in named ways only, messages settle |
| `pairing` | two devices, one with a daemon, two sessions, one decision | consent, like ends, what undoes a decision, the window shuts where a timeout runs |
| `path` | three relay dials, one drop, one move, one punch, timeouts of 1, 2 and 5 ticks | a move is survived, packets reach both ends again, no one-sided route stays |
| `remote_stream` | two versions of a file, two blocks, room for two, two callers, two requests, two reads, one fetch slot | the cap, seeks spare others, no block older than its reader |
| `mirror` | three requests, two sessions | a capture has an announcement, every capture ends |
| `clipboard` | two devices with clocks one apart, two copies, one mishap, one lost session, four moments in grains of two | echoes are bounded, edits converge, the exchange stops |

TLAPS proves the type invariant of every module that has a run (section 4); the runs
`file_transfer`, `path`, `remote_stream`, `mirror` and `clipboard` check theirs as well.

Why the bounds suffice for what they are meant to show.  Empty files first, last and in
between, a short last chunk and a file shorter than a chunk all occur within three files
of three bytes.  Two attempts are a transfer and its re-offer; two streams are enough for
one to be between check and write while the other finishes; with two files a commit can
be interrupted half way.  In `file_transfer` two calls let one be answered late, and two
chunks let a retry find one of them already held and, with room for one frame, let a worker wait in
`Write` behind a frame nobody reads.  Lifetimes 1 and 2 let a replaced grant outlive or
undercut its predecessor, and four ticks see a token, its grace and every delay of the throttle.
Two requests are the two that race to announce, or that number independently; three events
are a move reordered with another and a press in between; two enders can both be in
`Forget` while the timer is in `Release`.  One pending proof and queues of one make the second
of anything an eviction or a blocked loop.  Two sessions are the least with
one superseding the other.  One punch with one move is a direct path found and lost; a second
punch after the cooldown changes nothing `path` states (checked apart: 16 million states).  Two
blocks in a cache for two, the second version being larger than the first, make the cache
overflow with a reader of the old version still live.  Three mirror requests are a share, a stop and a
second share.  Two copies are a conflict; with three (checked apart: 1.9 million states) a stale copy
can meet a conflict that has settled, and the properties still hold.
`pairing` was also checked with both devices running a daemon, and with peers that begin as
`owned` (8 million states each).

The constants named `Max...`, and `Twins` and `Windows` of `RemoteStream`, bound the
environment in the guards; so do `Enders` and the finite sets of requests and streams.
`CHECK_DEADLOCK FALSE` is set because in each instance the work can simply be
finished; the one thing here that could wait for ever on another, the session's control loop,
has `EveryMessageSettles`.

### Fairness

* `FileTransfer`: weak fairness on the two ends and the live session together: while any
  goroutine can go on or a message can be delivered, something of that is done.  That is less than
  the scheduler and QUIC's retransmission give to each of them; it is enough here because the
  work of a call is finite.  Offers,
  cancels, refusals, abandoned calls, ticks, a manifest that is late, and lost sessions are not fair:
  nobody owes them.
* `Unlock`: weak fairness on a due timer and on the goroutine it starts, which is what
  `time.AfterFunc` gives.
* `RemoteInput`: weak fairness on the datagram loop's two steps, on the passing of
  `SafetyRelease`, on `releaseLoop` and on a goroutine inside `Release`.  Events and their arrival
  are not fair.
* `RemoteControl`: weak fairness on the controlled device alone, that is on spawning the
  watcher, on silence and on the watcher's tick.  Its peer may crash at any point.
* `SessionAuth`: weak fairness on the control loop's two steps and on each handler.  The
  peer, streams, the clock and the user are not fair.
* `Pairing`: weak fairness on each device's own timers where the code has them (`Timed`): the two
  minutes, the linger, and what follows them.  Users, messages and sessions are not fair.
* `Path`: weak fairness on the tick, the sweeps, the end of a punch attempt and the relay's
  redial.  Nobody must punch and no probe need arrive.
* `Mirror`: weak fairness on the shared device's handlers, its two-minute timer and
  its pumps.  The watching device owes nothing.
* `ClipboardSync`: weak fairness on the pollers and on handlers and writers; strong
  fairness on receiving, because the bound on mishaps disables it while a poll is in progress, and
  polls take a moment of each interval.

`FileReceive`, `ChunkPlan` and `RemoteStream` state safety only.

## 4. Proofs

| Module | Theorems |
|---|---|
| `FileTransfer_proofs` | of `FileReceive`: `TypeCorrect`, `Invariance`, `FilesAreWhole`, `ReportsAreTrue`, `BitmapsHold`, `OneWriter`; of `FileTransfer`: `XferTypeCorrect`, `XferInvariance`, `TransferHonoured`, `TransferredFilesAreWhole`; of `ChunkPlan`: `PlanTypeCorrect`, `ClaimsAreExact`, `CutsAlwaysAgree` |
| `RemoteControl_proofs` | of `RemoteControl`: `ControlTypeCorrect`, `InputIsAnnounced`; of `RemoteInput`: `InputTypeCorrect`, `InputEnds`, `LatestWins` |
| `Unlock_proofs` | `UnlockTypeCorrect`, `Invariance`, `KeyIsJustified`, `ThrottleHolds`, `OwnedAccessHonoured` |
| `SessionAuth_proofs` | `SessionTypeCorrect`, `NoncesAreSpentOnce`, `EvictionCostsOneEach` |
| `Pairing_proofs` | `PairingTypeCorrect`, `PairingNeedsConsent`, `EndsMatch`, `DecisionsAreUndoneByOverlapOnly` |
| `RemoteStream_proofs` | of `RemoteStream`: `BlocksAreNeverStaler`, `SeeksNeverHurt`, `CapIsKept`, `StreamTypeCorrect`; of `Mirror`: `MirrorTypeCorrect`, `CapturesHaveAnnouncements` |
| `Path_proofs` | `PathTypeCorrect`, `FirstMoveIsOutlived`, `AMoveIsOutlived` |
| `ClipboardSync_proofs` | `ClipboardTypeCorrect`, `EchoesAreBounded`, `EditsMeet` |

The proofs rest on the modules' named assumptions about their constants, which the runs
evaluate.

**FileReceive.**  The safety properties are not inductive.  That a committed file is whole
rests on the bitmap being sound when commit begins, which rests on a stream in `marking`
having written its chunk, on the handle it wrote through being the only one on that path,
and on nobody writing after the rename because every other attempt of the id is closed.
The inductive invariant `IInv` states those.  `Holders` says who is registered and what an attempt
has open at each step of `finish`.  `Claims` says what is on disk for the chunks that somebody
claims to have, in memory, in any of the three flushes, on disk or between write and mark: until
the id has ended for everybody, and after that for whoever still has the file open and was not
revived.  So a bitmap that comes back late is wrong only for an id in `ended`, and using it puts
the id into `revived`.  `Tested` carries the completeness test over the flush that follows it,
`Committing` says what a commit under way has left to rename is whole and what it has renamed is in
place, for every attempt the exceptions are not about (`Sound`).  The only premise is
`DistinctDestinations` (no two offered files share a path; finding 2 is why), and `TypeCorrect`
needs none.  Crashes, re-offers at any time, cancels, late streams and late flushes are all
in the steps that are proved.

**FileTransfer.**  `TransferHonoured` proves that the whole transfer refines `FileDelivery`, and
`TransferredFilesAreWhole` that files are whole and every ok true in it, from `DistinctDestinations`
and, for the first, `Files # {}` (`recv.go:169` refuses an offer without files).  Every step of the
transfer is a step of the receiver or leaves it alone (`XferReceives`), so `IInv` holds here too.
The invariant besides types what is on the wire (`WireTypes`),
says that what a stream or a re-offer refers to exists (`Named`, `Asking`), that an attempt whose
accept was lost belongs to a session that is over (`Sessions`), so that what it reports reaches
nobody, and that every ok on the wire, or taken by a call, is about a transfer that is delivered or
revived (`Truthful`, `Kept`).  The refinement maps `Delivered`, `revived` and `Result`.

**ChunkPlan.**  `ClaimsAreExact`: every index drawn is below `next`, no two streams that have
drawn but not checked hold one index, and an index below `next` was skipped, handed out or is
held by a stream about to check it.  `CutsAlwaysAgree` is for every list of sizes and every
positive chunk size.  The running totals are recursive functions on the file list; that they
exist and what they satisfy is shown without an induction theorem, by the least
counterexample, which strict inclusion of finite sets gives (`Least`).  On the totals rest
that `FileOfChunk` finds the one file holding a chunk (`FileOfChunkIsHome`), that consecutive
chunks meet (`ChunksAlwaysTile`), and that `Locate` accepts what `Chunk` cut
(`LocateFindsChunks`) and nothing else (`LocateFindsOnlyChunks`).

**Unlock.**  `IInv` is the type, `KeyJustified` and that `nextRetry` is the last failure plus its
delay.  `OwnedAccessHonoured` proves that the initial state maps to one and that every
step maps to a step or a stutter; the lemma `ExpireIsInvisible` carries it: `Kept` of
the expired state is `Kept`.

**RemoteControl.**  `InputIsAnnounced` follows the way of a yes: the queue sends one only for
an id it has recorded, so every yes in the channel, in an acknowledgement's waiter and behind
a request that was acknowledged is for a recorded id, and only such an id is stored.  The
type invariant needs that a message being answered and a victim being told have an id.

**RemoteInput.**  `InputEnds` strengthens `late <= 1` with: nothing is late while an
announcement stands or while an allowed event waits.  `LatestWins` counts, for each Controller
(`StepInv`): the steps back it has made, one that is possible because the peer's state remembers
less than the last move accepted of it (`Ahead`), and the endings whose `Forget` is still to come
(`Pending`), together, are at most the announcements that have ended.  A `Forget` turns a pending
ending into a possible step back, an older move uses that up.

**SessionAuth.**  `SpentOnce` is not inductive: a proof spent and forgotten by `pruneLocked` could
be repeated.  `Remembers` adds why that is harmless: a nonce that was spent is in `seen`, or
older than the window, so that a repetition is refused as expired.
`EvictionCostsOneEach` proves `StarvedByEvictionOnly` by keeping accounts for each capability
(`Even`): the messages that starved, the streams whose proof was read and whose operation was
not, and the message at the head of the control stream behind a proof that was read, together
are at most the proofs that wait, those dropped and those borrowed.  A message starves only when
no proof of its capability waits, which leaves the claim.  What makes the accounts
close is where frames stand (`InPlace`): a message is in one place and undecided there, on the
control stream it stands right behind its proof, and a stream that is to carry a proof has it
first, of the capability of its operation.

**Pairing.**  `PairingNeedsConsent` proves the refinement of `MutualConsent`.  Its invariant says
that whatever stands on the wire or in an inbox was said by its sender's user (`HonestWire`,
`HonestInbox`), that a pairing beyond its first step has a session (`Seated`), that an end which
waits for the other's answer has given one and an end about to pin has both (`Consented`).
`EndsMatch` proves `EndsAlike` from three parts of `AlikeInv`: no session carries two exchanges,
because one that was chosen leaves evidence that lasts (`Places`); whoever said no will not
record the peer, and a yes is still under way, or in the inbox, for a peer that waits for it
(`NoIsFinal`, `YesIsTold`, `YesIsMeant`); and where one end recorded the other, the other has, or
still holds the exchange with both answers in reach (`BothHold`).  When nobody is in the exchange
any more only `BothHold` is left, and it says that both recorded.
`DecisionsAreUndoneByOverlapOnly` adds that, at a device not in `overlapped`, the record and
every copy of it are what its user decided (`AllFresh`).

**RemoteStream.**  A block is never older than the key it is held under, in a file of the
cache (`FreshDisk`) or in a fetch (`FreshFetches`), and no key is newer than the source
(`Sources`).  `SeeksNeverHurt` needs that the window of an open reader holds no cancelled
fetch, since that is where a new caller finds the one to wait for (`WindowLives`).
`CapIsKept` and `StreamTypeCorrect` rest on a second invariant, `CacheInv`: the list has one
entry a name, so that taking one out leaves the other names and the other bytes (`OthersAre`);
the size is what the list weighs (`ListInv`); a fetch has victims only while it removes them
(`TableInv`); and a file that is not on the list has a fetch that owes it a record or a removal
(`Accounted`), because every name that leaves the list in `Record` is among the victims
(`RecordKeepsList`).  Sums over the list are the recursive function `UpTo`; what is needed of
them is proved by the least counterexample (`Least`), without an induction theorem.

**Mirror.**  `CapturesHaveAnnouncements` is about any number of requests and sessions.  A capture
begins unshared, behind a check of the announcement that may be out of date, so the invariant
`SharesAccounted` follows both halves: what runs is shared or about to be, and whatever is shared or about to be
has an announcement, or an ending of one that is still to look for it.  `raced` and `lost` are what
the code does not account for (findings 21 and 24).

**Path.**  Silence is counted at the end that hears nothing, the abandoning is done by the other one,
on a copy of its route.  `MoveInv` compares them, for an end whose peer has moved at most once: the
silence is at most one tick older than the dead route's quiet (`Noticed`), the sweep's copy is no fresher
than the route (`Copied`), a dead route over the timeout survives the sweep only for want of the relay
(`Abandoned`), which the silence does not count (`Dialling`), and a punch that found the old address is
over within two ticks (`Fleeting`).  So silence is at most `Timeout + 2` (`Bounded`).
`FirstMoveIsOutlived` says so of every end's first move, with any number of moves, punches, dials
and drops around it; `AMoveIsOutlived` is the run's property, with `MaxMoves <= 1`.  The bound
`Timeout + 3 <= IdleTimeout` is the one TLC finds to be exact and the code meets exactly (9 and 12
ticks).  Several moves are really different: with two of them and two punches an attempt that found
the address between them may be promoted late, its fresh route has no quiet yet, and the timeout
runs again from there, so that the silence exceeds the bound.  TLC shows that behaviour.

**ClipboardSync.**  `EchoesAreBounded` is for any finite set of devices.  It counts, besides the
echoes there were, the watchers that have read what they must not send (`Readers`) and the devices
whose clipboard holds, or will, what the next poll must not find (`Finders`): a mishap makes at most one of
each, an echo uses one up, and nothing else adds to the sum.  `EditsMeet` is for two devices and any
number of copies.  Until the first copy nothing is anywhere; after it one device always
leads (`Leads`): the text it has recorded is about to be pushed, under way, or the last thing
the other has applied, and nothing of the other's that is still under way is newer.  A copy that does not
cross hands the lead over: every reading taken for an earlier text is then at least a grain behind every
reading that can be taken for the new one, on whichever clock.  When everything has settled the clipboards hold what was recorded
(`Kept`), and both recorded the leader's text.

Only model-checked: all liveness (`SendReturns`, `KeyIsWiped`, `HeldIsReleased`,
`AnnouncementsEnd`, `EveryMessageSettles`, `DoorShuts`, `ReachesAgain`, `RoutesComeInPairs`,
`CapturesEnd`, `ExchangeStops`), which is beyond this prover.  Every invariant and every action
property of the runs is proved, and so are the refinements, under the premises named above.  What a recursive
definition computes is proved only as far as the least counterexample carries it (the running
totals of `ChunkPlan`, the sums of `BlockCache`).

## 5. Findings

1. *A re-offer after commit presents zeros* (`recv.go:473`).  The bitmap outlives the parts
   across a crash, or comes back by a late flush; the next offer of the id believes it (`revived`).
   `state.go:17-19` says this can never happen.
2. *Two files with one destination* (`recv.go:214`).  They share a part file; the first
   rename presents a mix.  `daemon/transfer.go:45` reduces items to their base names.
3. *Running a transfer again does not resume it* (`README.md:171` against `send.go:82`): each
   Send draws a fresh id, and no caller uses `SendWithID`.
4. *The one-hour cap* (`docs/PROTOCOL.md:423`) is implemented by `BeginOwned` and
   `Operation.Check`, which no code calls.
5. *A later request's moves are dropped* (`daemon/input.go:103`).  Each request numbers from 1,
   the receiver keeps the highest number of the peer (`NewestIsTaken`).
6. *A key may stay down after its session ended* (`caps/input/input.go:363`).  A press is recorded
   before and injected after a release that finds it recorded (`NothingStuck`).
7. *Nobody can kill a session*: `KillSessions` and `AnnouncedSessions` have no caller outside the
   tests (`README.md:264`, `daemon/control.go:337`).

8. *One proof mutes a session* (`session/auth.go:147`).  With a proof pending and no pinned
   key every message is refused, and the proof stays pending.
9. *A decision is undone* (`pairing/authorize.go:78`).  `touch` writes back a record read before a
   demotion or a removal.
10. *An abandoned proof goes first* (`session/auth.go:154`).  It is matched by later operations,
    which fail as expired.
11. *A removal does not reach a running session* (`session/auth.go:287`): Hello's level stands in
    for a record that is gone.
12. *The door stays open* (`pairing/authorize.go:90`): a failed pairing leaves its session, and any
    peer's new session is taken for the pairing one.
13. *Crossing dials close each other* (`daemon/daemon.go:654`).
14. *The answering end ignores its cooldown* (`daemon/punch.go:196`).
15. *The sweep acts on an old look* (`path/conn.go:479`): a route heard from since is demoted.
16. *A one-way failure outlasts QUIC* (`path/conn.go:480`): the two ends' timeouts add up.
17. *A reader misses a deadline that has passed* (`relay/client.go:205`).
18. *A published URL keeps its old entry* (`daemon/stream.go:260`): old and new blocks are mixed
    after the file was replaced.
19. *A cancelled fetch keeps its slot* (`caps/remotefs/client.go:159`).
20. *A cache after close* (`daemon/stream.go:232`) is never removed, and `publish` panics.
21. *A capture without an announcement* (`caps/mirror/source.go:95`), the race in `raced`.
22. *`mirrorIdle` is used nowhere* (`daemon/mirror.go:33`): a share ends after two minutes,
    watched or not.
23. *A view outlives its session* (`daemon/mirror.go:91`): after a reconnect the user must stop
    before watching again.
24. *An old pump ends a new share* (`caps/mirror/source.go:111`); overlapping handlers lose a
    capture (`lost`).
25. *Echoes* (`caps/clipboard/sync.go:88`): a poll between `Applied` and the write sends the old text
    back, and then the new one.
26. *A failed write undoes a copy elsewhere* (`daemon/ipcserver.go:460`), and
27. *two writes may land in the other order* (`daemon/ipcserver.go:459`).
28. *Near-simultaneous copies do not converge* (`caps/clipboard/sync.go:115`).
29. *Three devices do not converge* (`caps/clipboard/sync.go:127`).
30. *Some waits of a pairing have no timeout* (`cmd/openair/common.go:88`, `mobile/pairing.go:75` and
    186, `cmd/openair/pair.go:188`): a command or the app waits for its user, or for the first session,
    with the window open.
31. *A superseding handler brings the bitmap back* (`recv.go:69`): its flush lands after a finisher has
    committed and discarded, and its own re-offer commits zeros over the files.
32. *An ok with nothing renamed* (`recv.go:147`): a late stream finishes an attempt whose accept could
    not be sent and whose handles are closed (`lost`).
33. *A call that cannot be cancelled* (`send.go:251`): a worker in `Write` waits for a receiver
    that has left the stream without a reset (`Stuck`).
34. *An end forgets the highest number* (`caps/input/input.go:565`) while another announcement stands, and
    an older move is accepted.
35. *Clocks that differ* (`caps/clipboard/sync.go:127`): the later of two copies may be refused, with
    nothing crossing, and the clipboards stay different.

`PROJECT.json` quotes for each the line it contradicts.

Two weaknesses of the code that no document contradicts, visible in `RemoteControl`: a kill
between `acceptsAnnounced` and the insertion leaves a standing announcement of a peer in its
cooldown, and two concurrent `KillSessions` would close one channel twice.

## 6. Plan

Done: files, unlock, control sessions, remote input, session authorisation, pairing with
the trust records, relay and path, remote streams and their cache, mirror, clipboard.  Left, in
this order:

1. `FileReceive` with two control handlers (two sessions offering one id at once), and with a
   disk that loses unsynced data.
2. Notifications: a sink's dismissal may come between the send of a post and `remember`, and the
   removal that follows a dismissal may come behind a new post of the same key.
3. How long several moves in a row may cost a session (`Path`): the bound that `OutlivesAMove` needs
   then, in `MaxMoves` and `MaxPunches`.
4. Rendezvous and discovery, which today only hint where to dial.
5. `Guard` and `Revoke`, once the program uses them; the relay's mailboxes and deadlines.

Every module declares its parameters as CONSTANTS with named assumptions, has one action per
operation and keeps recursion in functions, so that theorems can be stated about it.

## 7. Not modelled

* Cryptography, TLS, key files and file formats; QUIC itself and congestion control (a vendored
  BBR): third-party, or without state that the properties speak of.  What QUIC guarantees,
  ordered reliable streams until the session ends, is assumed.
* Rendezvous and discovery: signed records and candidates with a time to live, each overwritten
  by the next.  A wrong one costs a dial, which `Pairing` and `Path` already allow to fail.
* `Guard`, `Revoke` and grants: nothing outside the tests asks a Guard or revokes.
* Notifications: a table of which devices show which key, under one lock.  What its races cost
  is a notification that stays on a screen or leaves it.
* IPC, CLI, GUI, mobile bindings and formatting: requests and answers with no state of
  their own.
* Screen capture, clipboard helpers and the operating system's injectors: I/O behind the
  components above, modelled only by whether a call succeeds where that matters.
* Listing and thumbnails of remote files: single requests without state.
* Benchmarks and generated code.

The map covers about 12 % of the implementation's lines.  Most of the rest is on this list: protobuf
output, BBR, the shells, capture and injection, and the tests' support code.
