------------------------------ MODULE FileReceive ------------------------------
(****************************************************************************)
(* The receiving half of the files capability: internal/caps/files/recv.go  *)
(* with the resume bitmap of state.go.                                      *)
(*                                                                          *)
(* An offer creates a recvState (here: an attempt).  Its data streams write *)
(* verified chunks into NAME.oapart files and mark them in a bitmap; a      *)
(* ticker persists the bitmap; finish renames the parts into place, once    *)
(* every chunk is marked, and removes the bitmap.  Streams, ticker,         *)
(* finisher and the control-message handler are goroutines of their own and *)
(* interleave here as they do there.  A crash takes the memory and leaves   *)
(* the disk.                                                                *)
(*                                                                          *)
(* flush takes the bitmap under the set's lock and puts it on disk after,   *)
(* so the ticker, the finisher and the handler each have a snapshot of      *)
(* their own under way.  They share one temporary file: an overlap can also *)
(* leave a short one, which load takes for no bitmap.                       *)
(*                                                                          *)
(* A part file is the slots of one offered file; a slot holds who wrote it. *)
(****************************************************************************)
EXTENDS Naturals, FiniteSets

CONSTANTS
    Ids,             \* transfer ids
    Files,           \* the files of an offer
    Slots,           \* the chunk positions of a file
    Paths,           \* destination paths
    PathOf(_, _),    \* transfer, file -> its destination: resolve(DestRoot, meta.path)
    Attempts,        \* recvState values, one per accepted offer
    Streams,         \* serveStream goroutines, one per inbound data stream
    StreamCount,     \* TransferOffer.stream_count
    MaxCrashes,      \* bound on Crash
    Zero,            \* a slot no chunk was written to
    None             \* no file, no attempt, nothing pending

ASSUME PathOfType == \A t \in Ids, f \in Files : PathOf(t, f) \in Paths
ASSUME CountsAreNat == StreamCount \in Nat /\ MaxCrashes \in Nat

VARIABLES
    part,        \* disk: path -> the .oapart file there
    final,       \* disk: path -> the file presented as complete
    saved,       \* disk: id -> the persisted bitmap
    cur,         \* Capability.in: id -> the live attempt
    owner,       \* attempt -> the id it was created for
    bits,        \* attempt -> chunkSet.bits
    dirty,       \* attempt -> chunkSet.dirty
    snap,        \* attempt, who flushes -> the snapshot on its way to disk
    manifest,    \* attempt -> is manifestReady closed?
    failed,      \* attempt -> has a chunk failed its digest?
    open,        \* attempt -> the files whose handle is open
    lost,        \* attempt -> did sending TransferAccept fail?
    superseded,  \* attempt -> superseded.Load()
    cancelled,   \* attempt -> cancelled.Load()
    aborted,     \* attempt -> is rs.ctx done?
    fin,         \* attempt -> where finish is
    good,        \* attempt -> complete && err == nil, inside finish
    told,        \* attempt -> TransferComplete.ok, once sent
    strm,        \* stream -> where serveStream is
    handler,     \* what the control-message handler waits for
    ended,       \* history: ids whose parts have begun to be renamed or removed
    revived,     \* history: ids offered again under a bitmap the disk did not back
    crashes      \* crashes so far

disk    == <<part, final, saved>>
chunks  == <<bits, dirty, failed>>
flags   == <<superseded, cancelled, aborted>>
finish  == <<fin, good, told>>
history == <<ended, revived>>
control == <<cur, owner, lost, manifest, handler, history>>
vars    == <<disk, chunks, flags, finish, control, snap, open, strm, crashes>>

Chunks == Files \X Slots
Empty  == [s \in Slots |-> Zero]                \* a new, truncated part file
Mark(t, f) == <<t, f>>                          \* what t's file f has in a slot
Content == {Zero} \cup (Ids \X Files)
FileImage == {None} \cup [Slots -> Content]

ASSUME NoneIsFresh ==
    None \notin Attempts \cup Ids /\ None \notin Chunks
ASSUME NoneIsNoValue == None \notin BOOLEAN /\ None \notin [Slots -> Content]

Whole(file, t, f) == file = [s \in Slots |-> Mark(t, f)]
DestOf(t) == {PathOf(t, f) : f \in Files}

Flushers == {"ticker", "finisher", "handler"}
FinStates == {"none", "idle", "called", "listing", "testing", "flushing", "saving",
              "retiring", "retired", "renaming", "reporting", "done"}
StreamPcs == {"idle", "waiting", "reading", "writing", "marking", "done"}
StreamState == [pc : StreamPcs, a : Attempts \cup {None}, c : {None} \cup Chunks]
HandlerState == [op : {"idle", "supersede", "cancel", "discard"},
                 at : {"snapshot", "rename", "wait"},
                 id : Ids \cup {None}, att : Attempts \cup {None}, drop : BOOLEAN]
Task(op, at, t, a, drop) == [op |-> op, at |-> at, id |-> t, att |-> a, drop |-> drop]
Free == Task("idle", "wait", None, None, FALSE)
NewStream == [pc |-> "idle", a |-> None, c |-> None]

TypeOK ==
    /\ part \in [Paths -> FileImage]
    /\ final \in [Paths -> FileImage]
    /\ saved \in [Ids -> {None} \cup SUBSET Chunks]
    /\ cur \in [Ids -> Attempts \cup {None}]
    /\ owner \in [Attempts -> Ids \cup {None}]
    /\ bits \in [Attempts -> SUBSET Chunks]
    /\ failed \in [Attempts -> BOOLEAN]
    /\ snap \in [Attempts \X Flushers -> {None} \cup SUBSET Chunks]
    /\ open \in [Attempts -> SUBSET Files]
    /\ dirty \in [Attempts -> BOOLEAN]
    /\ manifest \in [Attempts -> BOOLEAN]
    /\ lost \in [Attempts -> BOOLEAN]
    /\ superseded \in [Attempts -> BOOLEAN]
    /\ cancelled \in [Attempts -> BOOLEAN]
    /\ aborted \in [Attempts -> BOOLEAN]
    /\ fin \in [Attempts -> FinStates]
    /\ good \in [Attempts -> BOOLEAN]
    /\ told \in [Attempts -> BOOLEAN \cup {None}]
    /\ strm \in [Streams -> StreamState]
    /\ handler \in HandlerState
    /\ ended \in SUBSET Ids
    /\ revived \in SUBSET Ids
    /\ crashes \in 0..MaxCrashes

Init ==
    /\ part = [p \in Paths |-> None]
    /\ final = [p \in Paths |-> None]
    /\ saved = [t \in Ids |-> None]
    /\ cur = [t \in Ids |-> None]
    /\ owner = [a \in Attempts |-> None]
    /\ bits = [a \in Attempts |-> {}]
    /\ failed = [a \in Attempts |-> FALSE]
    /\ snap = [aw \in Attempts \X Flushers |-> None]
    /\ open = [a \in Attempts |-> {}]
    /\ dirty = [a \in Attempts |-> FALSE]
    /\ manifest = [a \in Attempts |-> FALSE]
    /\ lost = [a \in Attempts |-> FALSE]
    /\ superseded = [a \in Attempts |-> FALSE]
    /\ cancelled = [a \in Attempts |-> FALSE]
    /\ aborted = [a \in Attempts |-> FALSE]
    /\ fin = [a \in Attempts |-> "none"]
    /\ good = [a \in Attempts |-> FALSE]
    /\ told = [a \in Attempts |-> None]
    /\ strm = [s \in Streams |-> NewStream]
    /\ handler = Free
    /\ ended = {}
    /\ revived = {}
    /\ crashes = 0

----------------------------------------------------------------------------
(* Helpers shared by the handlers.                                          *)

\* chunkSet.flush, first half: the snapshot, under the set's lock.  A clean set
\* writes nothing.
Snapshot(a, w) ==
    /\ snap' = [snap EXCEPT ![<<a, w>>] = IF dirty[a] THEN bits[a] ELSE None]
    /\ dirty' = [dirty EXCEPT ![a] = FALSE]

\* chunkSet.flush, second half: the rename that replaces the bitmap on disk.
Persist(a, w) ==
    /\ saved' = IF snap[a, w] = None THEN saved
                ELSE [saved EXCEPT ![owner[a]] = snap[a, w]]
    /\ snap' = [snap EXCEPT ![<<a, w>>] = None]

\* finishOnce: the first caller runs finish, the others wait for it.
Called(f, a) == IF f[a] = "idle" THEN [f EXCEPT ![a] = "called"] ELSE f

Seen(a) == {s \in Streams : strm[s].a = a}

\* streamDone's test, as stream s leaves: every promised stream has opened
\* and none is active.
Drained(a, s) ==
    /\ Cardinality(Seen(a)) >= StreamCount
    /\ \A r \in Seen(a) \ {s} : strm[r].pc = "done"

\* What load makes of the bitmap on disk.
LoadedBits(t) == IF saved[t] = None THEN {} ELSE saved[t]

\* A chunk of t is in the part files.
Holds(parts, t, c) ==
    /\ parts[PathOf(t, c[1])] # None
    /\ parts[PathOf(t, c[1])][c[2]] = Mark(t, c[1])

\* The rest of newRecvState and of onOffer, with the parts open.
Register(t, a, delivered) ==
    /\ owner[a] = None
    /\ owner' = [owner EXCEPT ![a] = t]
    /\ cur' = [cur EXCEPT ![t] = a]
    /\ bits' = [bits EXCEPT ![a] = LoadedBits(t)]
    /\ open' = [open EXCEPT ![a] = IF delivered THEN Files ELSE {}]
    /\ lost' = [lost EXCEPT ![a] = ~delivered]
    /\ fin' = [fin EXCEPT ![a] = IF delivered /\ LoadedBits(t) = Chunks
                                 THEN "called" ELSE "idle"]
    /\ revived' = IF \A c \in LoadedBits(t) : Holds(part, t, c)
                  THEN revived ELSE revived \cup {t}

\* Slip: the parts are opened with O_TRUNC.
NewRecvStateSlip(t, a, delivered) ==
    /\ part' = [p \in Paths |-> IF p \in DestOf(t) THEN Empty ELSE part[p]]
    /\ Register(t, a, delivered)

\* newRecvState: open and size every part, load what an earlier run verified.
NewRecvState(t, a, delivered) ==
    /\ part' = [p \in Paths |->
                  IF p \in DestOf(t) /\ part[p] = None THEN Empty ELSE part[p]]
    /\ Register(t, a, delivered)

----------------------------------------------------------------------------
(* The control-message handler: Capability.Serve, one message at a time.    *)

\* onOffer for an id that is not live.  delivered: did sending the accept work?
Offer(t, a, delivered) ==
    /\ handler.op = "idle"
    /\ cur[t] = None
    /\ NewRecvState(t, a, delivered)
    /\ UNCHANGED <<final, saved, dirty, failed, flags, good, told, manifest,
                   handler, snap, strm, ended, crashes>>

\* onOffer for a live id: supersede() up to its flush.
Supersede(t) ==
    /\ handler.op = "idle"
    /\ cur[t] # None
    /\ \E a \in Attempts : owner[a] = None
    /\ superseded' = [superseded EXCEPT ![cur[t]] = TRUE]
    /\ aborted' = [aborted EXCEPT ![cur[t]] = TRUE]
    /\ handler' = Task("supersede", "snapshot", t, cur[t], FALSE)
    /\ UNCHANGED <<disk, chunks, finish, cancelled, cur, owner, lost, manifest,
                   history, snap, open, strm, crashes>>

\* recvState.cancel up to its flush.
Cancel(t, drop) ==
    /\ handler.op = "idle"
    /\ cur[t] # None
    /\ cancelled' = [cancelled EXCEPT ![cur[t]] = TRUE]
    /\ aborted' = [aborted EXCEPT ![cur[t]] = TRUE]
    /\ handler' = Task("cancel", "snapshot", t, cur[t], drop)
    /\ UNCHANGED <<disk, chunks, finish, superseded, cur, owner, lost, manifest,
                   history, snap, open, strm, crashes>>

\* supersede and cancel flush the bitmap and then wait in finish.
HandlerSnapshot ==
    /\ handler.op \in {"supersede", "cancel"} /\ handler.at = "snapshot"
    /\ Snapshot(handler.att, "handler")
    /\ handler' = [handler EXCEPT !.at = "rename"]
    /\ UNCHANGED <<disk, bits, failed, flags, finish, cur, owner, lost, manifest,
                   history, open, strm, crashes>>

HandlerRename ==
    /\ handler.op \in {"supersede", "cancel"} /\ handler.at = "rename"
    /\ Persist(handler.att, "handler")
    /\ fin' = Called(fin, handler.att)
    /\ handler' = [handler EXCEPT !.at = "wait"]
    /\ UNCHANGED <<part, final, chunks, flags, good, told, cur, owner, lost, manifest,
                   history, open, strm, crashes>>

\* Slip: the new attempt starts before the old one closed its handles.
ReplaceSupersededSlip(a, delivered) ==
    /\ handler.op = "supersede" /\ handler.at = "wait"
    /\ NewRecvState(handler.id, a, delivered)
    /\ handler' = Free
    /\ UNCHANGED <<final, saved, dirty, failed, flags, good, told, manifest,
                   snap, strm, ended, crashes>>

\* The rest of onOffer once the old attempt's finish has returned.
ReplaceSuperseded(a, delivered) ==
    /\ handler.op = "supersede" /\ handler.at = "wait"
    /\ fin[handler.att] = "done"
    /\ NewRecvState(handler.id, a, delivered)
    /\ handler' = Free
    /\ UNCHANGED <<final, saved, dirty, failed, flags, good, told, manifest,
                   snap, strm, ended, crashes>>

\* onManifest, for a manifest that matches the plan.
Manifest(t) ==
    /\ handler.op = "idle"
    /\ cur[t] # None
    /\ manifest' = [manifest EXCEPT ![cur[t]] = TRUE]
    /\ UNCHANGED <<disk, chunks, flags, finish, cur, owner, lost, handler, history, snap,
                   open, strm, crashes>>

\* discardPartial, first half: the part files go.
RemoveParts ==
    /\ handler.op = "cancel" /\ handler.at = "wait"
    /\ fin[handler.att] = "done"
    /\ IF handler.drop
       THEN /\ part' = [p \in Paths |->
                          IF p \in DestOf(handler.id) THEN None ELSE part[p]]
            /\ handler' = [handler EXCEPT !.op = "discard"]
            /\ ended' = ended \cup {handler.id}
       ELSE /\ handler' = Free
            /\ UNCHANGED <<part, ended>>
    /\ UNCHANGED <<final, saved, chunks, flags, finish, cur, owner, lost, manifest,
                   revived, snap, open, strm, crashes>>

\* discardPartial, second half: chunkSet.discard.
DiscardState ==
    /\ handler.op = "discard"
    /\ saved' = [saved EXCEPT ![handler.id] = None]
    /\ handler' = Free
    /\ UNCHANGED <<part, final, chunks, flags, finish, cur, owner, lost, manifest,
                   history, snap, open, strm, crashes>>

----------------------------------------------------------------------------
(* The data streams: serveStream and acceptChunk.                           *)

To(s, pc, c) == strm' = [strm EXCEPT ![s] = [pc |-> pc, a |-> strm[s].a, c |-> c]]

\* Stream s returns; if it was the last, or the set is complete, finish is called.
Leave(s, calls) ==
    LET a == strm[s].a IN
    /\ To(s, "done", None)
    /\ fin' = IF calls \/ Drained(a, s) THEN Called(fin, a) ELSE fin

\* The end of a loop turn: on to the next header, unless the set is complete.
NextHeader(s) ==
    IF bits'[strm[s].a] = Chunks
    THEN Leave(s, TRUE)
    ELSE To(s, "reading", None) /\ UNCHANGED fin

\* ServeStream finds the live attempt of the id the stream names, be the stream
\* an earlier attempt's.
OpenStream(s, t) ==
    /\ strm[s].pc = "idle"
    /\ cur[t] # None
    /\ strm' = [strm EXCEPT ![s] = [pc |-> "waiting", a |-> cur[t], c |-> None]]
    /\ UNCHANGED <<disk, chunks, flags, finish, control, snap, open, crashes>>

StreamReady(s) ==
    /\ strm[s].pc = "waiting"
    /\ manifest[strm[s].a]
    /\ To(s, "reading", None)
    /\ UNCHANGED <<disk, chunks, flags, finish, control, snap, open, crashes>>

\* EOF, a reset, a dead session, an aborted attempt, or no manifest in time.
EndStream(s) ==
    /\ strm[s].pc \in {"waiting", "reading"}
    /\ Leave(s, FALSE)
    /\ UNCHANGED <<disk, chunks, flags, good, told, control, snap, open, crashes>>

\* acceptChunk up to the write: a marked chunk is skipped, one that fails its
\* digest is recorded, any other goes on to be written.
TakeChunk(s, c, match) ==
    LET a == strm[s].a IN
    /\ strm[s].pc = "reading"
    /\ IF c \in bits[a] \/ ~match
       THEN /\ failed' = [failed EXCEPT ![a] = @ \/ c \notin bits[a]]
            /\ bits' = bits
            /\ NextHeader(s)
       ELSE /\ To(s, "writing", c)
            /\ UNCHANGED <<bits, failed, fin>>
    /\ UNCHANGED <<disk, dirty, flags, good, told, control, snap, open, crashes>>

\* Where bytes written through an open handle land: the part file, or the
\* final one if another transfer renamed that part meanwhile.
Land(file, c, a) == [file EXCEPT ![c[2]] = Mark(owner[a], c[1])]

\* writeAtFull: a closed handle fails the stream.
WriteChunk(s) ==
    LET a == strm[s].a
        c == strm[s].c
        p == PathOf(owner[a], c[1]) IN
    /\ strm[s].pc = "writing"
    /\ IF c[1] \in open[a]
       THEN /\ To(s, "marking", c)
            /\ part' = IF part[p] # None
                       THEN [part EXCEPT ![p] = Land(@, c, a)] ELSE part
            /\ final' = IF part[p] = None /\ final[p] # None
                        THEN [final EXCEPT ![p] = Land(@, c, a)] ELSE final
            /\ UNCHANGED fin
       ELSE /\ Leave(s, FALSE)
            /\ UNCHANGED <<part, final>>
    /\ UNCHANGED <<saved, chunks, flags, good, told, control, snap, open, crashes>>

\* chunkSet.mark, and the loop's completeness test.
MarkChunk(s) ==
    LET a == strm[s].a
        c == strm[s].c IN
    /\ strm[s].pc = "marking"
    /\ bits' = [bits EXCEPT ![a] = @ \cup {c}]
    /\ dirty' = [dirty EXCEPT ![a] = @ \/ c \notin bits[a]]
    /\ NextHeader(s)
    /\ UNCHANGED <<disk, failed, flags, good, told, control, snap, open, crashes>>

----------------------------------------------------------------------------
(* reportProgress: the ticker persists the bitmap, outside the set's lock.  *)

TickSnapshot(a) ==
    /\ fin[a] # "none"
    /\ snap[a, "ticker"] = None
    /\ dirty[a]
    /\ Snapshot(a, "ticker")
    /\ UNCHANGED <<disk, bits, failed, flags, finish, control, open, strm, crashes>>

TickRename(a) ==
    /\ snap[a, "ticker"] # None
    /\ Persist(a, "ticker")
    /\ UNCHANGED <<part, final, chunks, flags, finish, control, open, strm, crashes>>

----------------------------------------------------------------------------
(* finish and commit.                                                       *)

At(a, here, there) == fin[a] = here /\ fin' = [fin EXCEPT ![a] = there]

\* finish looks whether it has been superseded, once.
FinishBegin(a) ==
    /\ At(a, "called", IF superseded[a] THEN "retiring" ELSE "listing")
    /\ UNCHANGED <<disk, chunks, flags, good, told, control, snap, open, strm, crashes>>

\* It copies the list of failures, and tests for completeness after.
CopyFailures(a) ==
    /\ At(a, "listing", "testing")
    /\ good' = [good EXCEPT ![a] = ~failed[a]]
    /\ UNCHANGED <<disk, chunks, flags, told, control, snap, open, strm, crashes>>

\* Slip: every stream has ended, so the files must be whole.
CompleteSlip(a) == good[a] /\ ~cancelled[a]
Complete(a) == bits[a] = Chunks /\ good[a] /\ ~cancelled[a]

TestComplete(a) ==
    /\ At(a, "testing", "flushing")
    /\ good' = [good EXCEPT ![a] = Complete(a)]
    /\ UNCHANGED <<disk, chunks, flags, told, control, snap, open, strm, crashes>>

\* Superseded or not, it flushes.
FinishSnapshot(a) ==
    /\ At(a, "retiring", "retired") \/ At(a, "flushing", "saving")
    /\ Snapshot(a, "finisher")
    /\ UNCHANGED <<disk, bits, failed, flags, good, told, control, open, strm, crashes>>

\* A superseded attempt closes its handles and says nothing.
Retire(a) ==
    /\ At(a, "retired", "done")
    /\ Persist(a, "finisher")
    /\ open' = [open EXCEPT ![a] = {}]
    /\ UNCHANGED <<part, final, chunks, flags, good, told, control, strm, crashes>>

\* An incomplete one closes them and reports; a complete one goes on to commit.
FinishRename(a) ==
    /\ At(a, "saving", IF good[a] THEN "renaming" ELSE "reporting")
    /\ Persist(a, "finisher")
    /\ open' = IF good[a] THEN open ELSE [open EXCEPT ![a] = {}]
    /\ ended' = IF good[a] THEN ended \cup {owner[a]} ELSE ended
    /\ UNCHANGED <<part, final, chunks, flags, good, told, cur, owner, lost, manifest,
                   handler, revived, strm, crashes>>

\* One turn of commit's loop: sync, close, rename.  A nil handle is passed over.
RenameFile(a, f) ==
    LET p == PathOf(owner[a], f) IN
    /\ fin[a] = "renaming"
    /\ f \in open[a]
    /\ open' = [open EXCEPT ![a] = @ \ {f}]
    /\ IF part[p] # None
       THEN /\ final' = [final EXCEPT ![p] = part[p]]
            /\ part' = [part EXCEPT ![p] = None]
            /\ UNCHANGED good
       ELSE /\ good' = [good EXCEPT ![a] = FALSE]
            /\ UNCHANGED <<part, final>>
    /\ UNCHANGED <<saved, chunks, flags, fin, told, control, snap, strm, crashes>>

\* The end of commit: the bitmap goes, unless a rename failed.
DropBitmap(a) ==
    /\ fin[a] = "renaming"
    /\ open[a] = {}
    /\ saved' = IF good[a] THEN [saved EXCEPT ![owner[a]] = None] ELSE saved
    /\ fin' = [fin EXCEPT ![a] = "reporting"]
    /\ UNCHANGED <<part, final, chunks, flags, good, told, control, snap, open, strm,
                   crashes>>

\* Slip: the report repeats the completeness test without the cancellation.
ReportSlip(a) ==
    /\ fin[a] = "reporting"
    /\ cur' = [t \in Ids |-> IF t = owner[a] /\ cur[t] = a THEN None ELSE cur[t]]
    /\ told' = [told EXCEPT ![a] = bits[a] = Chunks]
    /\ aborted' = [aborted EXCEPT ![a] = TRUE]
    /\ fin' = [fin EXCEPT ![a] = "done"]
    /\ UNCHANGED <<disk, chunks, superseded, cancelled, good, owner, lost, manifest,
                   handler, history, snap, open, strm, crashes>>

\* The end of finish: deregister, report, abort.
Report(a) ==
    /\ fin[a] = "reporting"
    /\ cur' = [t \in Ids |-> IF t = owner[a] /\ cur[t] = a THEN None ELSE cur[t]]
    /\ told' = [told EXCEPT ![a] = good[a]]
    /\ aborted' = [aborted EXCEPT ![a] = TRUE]
    /\ fin' = [fin EXCEPT ![a] = "done"]
    /\ UNCHANGED <<disk, chunks, superseded, cancelled, good, owner, lost, manifest,
                   handler, history, snap, open, strm, crashes>>

----------------------------------------------------------------------------
\* The process dies and starts again: the disk stays, every goroutine is gone.
Crash ==
    /\ crashes < MaxCrashes
    /\ crashes' = crashes + 1
    /\ cur' = [t \in Ids |-> None]
    /\ fin' = [a \in Attempts |-> IF owner[a] = None THEN "none" ELSE "done"]
    /\ open' = [a \in Attempts |-> {}]
    /\ snap' = [aw \in Attempts \X Flushers |-> None]
    /\ bits' = [a \in Attempts |-> {}]
    /\ dirty' = [a \in Attempts |-> FALSE]
    /\ failed' = [a \in Attempts |-> FALSE]
    /\ superseded' = [a \in Attempts |-> FALSE]
    /\ cancelled' = [a \in Attempts |-> FALSE]
    /\ aborted' = [a \in Attempts |-> FALSE]
    /\ good' = [a \in Attempts |-> FALSE]
    /\ manifest' = [a \in Attempts |-> FALSE]
    /\ strm' = [s \in Streams |->
                  IF strm[s].pc = "idle" THEN strm[s]
                  ELSE [pc |-> "done", a |-> strm[s].a, c |-> None]]
    /\ handler' = Free
    /\ UNCHANGED <<disk, told, owner, lost, history>>

Next ==
    \/ \E t \in Ids, a \in Attempts, d \in BOOLEAN : Offer(t, a, d)
    \/ \E t \in Ids : Supersede(t) \/ Manifest(t)
    \/ \E a \in Attempts, d \in BOOLEAN : ReplaceSuperseded(a, d)
    \/ \E t \in Ids, drop \in BOOLEAN : Cancel(t, drop)
    \/ HandlerSnapshot
    \/ HandlerRename
    \/ RemoveParts
    \/ DiscardState
    \/ \E s \in Streams, t \in Ids : OpenStream(s, t)
    \/ \E s \in Streams : StreamReady(s) \/ EndStream(s) \/ WriteChunk(s) \/ MarkChunk(s)
    \/ \E s \in Streams, c \in Chunks, m \in BOOLEAN : TakeChunk(s, c, m)
    \/ \E a \in Attempts : \/ TickSnapshot(a)
                           \/ TickRename(a)
                           \/ FinishBegin(a)
                           \/ CopyFailures(a)
                           \/ TestComplete(a)
                           \/ FinishSnapshot(a)
                           \/ Retire(a)
                           \/ FinishRename(a)
                           \/ DropBitmap(a)
                           \/ Report(a)
    \/ \E a \in Attempts, f \in Files : RenameFile(a, f)
    \/ Crash

Spec == Init /\ [][Next]_vars

----------------------------------------------------------------------------
(* Properties.                                                              *)

\* A file is presented under its own name only if every slot of it was
\* verified for one offered file (state.go's PartSuffix comment, recv.go's
\* finish and commit).  Except for an id that ended and was offered again under
\* a bitmap that a late flush, or a crash before its removal, had left behind.
FinalWhole ==
    \A p \in Paths : final[p] # None =>
        \E t \in Ids, f \in Files : PathOf(t, f) = p /\ (t \in revived \/ Whole(final[p], t, f))

\* TransferComplete{ok: true} is sent only for a transfer whose every file is
\* in place, and stays true of it afterwards.  Except for such an id, and for an
\* attempt whose accept could not be sent: its handles are closed, commit passes
\* over closed handles, and a late stream of an earlier attempt can finish it.
OkMeansDelivered ==
    \A a \in Attempts : told[a] = TRUE /\ owner[a] \notin revived /\ ~lost[a] =>
        \A f \in Files : Whole(final[PathOf(owner[a], f)], owner[a], f)

\* What a bitmap claims, in memory, in a flush under way or on disk, is in the
\* part files until they are renamed or removed: have_chunks never tells the
\* sender to skip a chunk the receiver does not hold, across re-offers, late
\* flushes and crashes; only an id that ended can come back under a bitmap that
\* does, and the bitmap of one that comes back otherwise is as sound.
BitmapsAreSound ==
    /\ revived \subseteq ended
    /\ \A t \in Ids \ ended, c \in Chunks :
         /\ c \in LoadedBits(t) => Holds(part, t, c)
         /\ \A a \in Attempts : owner[a] = t =>
              /\ c \in bits[a] => Holds(part, t, c)
              /\ \A w \in Flushers : (snap[a, w] # None /\ c \in snap[a, w]) =>
                   Holds(part, t, c)
    /\ \A a \in Attempts : owner[a] \notin revived =>
         \A c \in bits[a] : c[1] \in open[a] => Holds(part, owner[a], c)

\* onOffer's "keeps a single writer per destination": no two attempts hold a
\* part of the same path open.
SingleWriter ==
    \A a, b \in Attempts : \A f \in open[a], g \in open[b] :
        PathOf(owner[a], f) = PathOf(owner[b], g) => a = b /\ f = g

====
