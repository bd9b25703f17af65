--------------------------- MODULE FileTransfer_proofs --------------------------
(****************************************************************************)
(* For any number of transfers, files, chunks, attempts, streams and        *)
(* crashes.                                                                 *)
(*                                                                          *)
(* The receiver alone, with its ticker, the handler's and the finisher's    *)
(* flushes and crashes: a file under its final name is whole, a transfer    *)
(* reported ok is in place, every bitmap is backed by the part files, and a *)
(* destination has one writer.  An id may be offered again at any time; one *)
(* that comes back under a bitmap that outlived its parts (revived) is      *)
(* excepted, and so is an attempt whose accept was lost.  The premise is    *)
(* that no two offered files share a destination.                           *)
(*                                                                          *)
(* A whole transfer, sender, session and receiver: it implements            *)
(* FileDelivery, from the same premise.  An attempt whose accept was lost   *)
(* answers on a session that is over, so no call takes its ok.              *)
(*                                                                          *)
(* The chunk plan, for any sizes, chunk size and number of streams: the     *)
(* chunks tile the files and Locate inverts Chunk, and Plan.Claim hands out *)
(* each chunk the receiver lacks once and no other.                         *)
(****************************************************************************)
EXTENDS FileTransfer, ChunkPlan, FiniteSetTheorems, TLAPS

DistinctDestinations ==
    \A t, u \in Ids, f, g \in Files : PathOf(t, f) = PathOf(u, g) => t = u /\ f = g

\* Where an attempt may yet be committed, and where it has not finished.
Working == {"idle", "called", "listing", "testing", "flushing", "saving"}
Running == Working \cup {"retiring", "retired", "renaming", "reporting"}

\* Nothing is used before it exists: attempts, a stream's attempt and chunk, and
\* what the handler waits for.
References ==
    /\ \A a \in Attempts : owner[a] = None <=> fin[a] = "none"
    /\ \A s \in Streams :
         /\ strm[s].pc # "idle" => strm[s].a # None
         /\ strm[s].a # None => owner[strm[s].a] # None
         /\ strm[s].pc \in {"writing", "marking"} => strm[s].c # None
    /\ \A a \in Attempts, w \in Flushers : snap[a, w] # None => owner[a] # None
    /\ \A t \in Ids : cur[t] # None => owner[cur[t]] = t
    /\ handler.op # "idle" =>
         /\ handler.id # None /\ handler.att # None
         /\ owner[handler.att] = handler.id

\* Who is registered and who holds handles.
Holders ==
    /\ \A a \in Attempts :
         /\ fin[a] \in Running => cur[owner[a]] = a
         /\ open[a] # {} => fin[a] \in Running \ {"reporting"} /\ ~lost[a]
         /\ (fin[a] \in Working /\ ~lost[a]) => open[a] = Files
         /\ owner[a] = None => bits[a] = {} /\ told[a] = None
    /\ handler.op # "idle" => cur[handler.id] \in {handler.att, None}

\* Which ids have ended.
Endings ==
    /\ \A a \in Attempts : fin[a] = "renaming" => owner[a] \in ended
    /\ handler.op = "discard" => handler.id \in ended

Registry == Holders /\ Endings

\* A file that is held open exists.
PartsOpen == \A a \in Attempts : \A f \in open[a] : part[PathOf(owner[a], f)] # None

\* What is on disk for the chunks somebody claims to have: until the id has ended,
\* and after that for whoever has the file open.
Claims ==
    /\ BitmapsAreSound
    /\ \A s \in Streams :
         LET a == strm[s].a IN
         strm[s].pc = "marking" /\ (owner[a] \notin ended \/ strm[s].c[1] \in open[a]) =>
            Holds(part, owner[a], strm[s].c)

DiskState == PartsOpen /\ Claims

\* What the finisher found complete still is when it commits.
Tested ==
    \A a \in Attempts : fin[a] \in {"flushing", "saving"} /\ good[a] => bits[a] = Chunks

\* An attempt the exceptions are not about.
Sound(a) == ~lost[a] /\ owner[a] \notin revived

\* One that may yet be committed holds what its bitmap claims.
Backed ==
    \A a \in Attempts : fin[a] \in Working /\ Sound(a) =>
        \A c \in bits[a] : Holds(part, owner[a], c)

\* What a commit has left to rename is whole, what it has renamed is in place.
InPlace(a, f) == Whole(final[PathOf(owner[a], f)], owner[a], f)
Ready(a, f) == Whole(part[PathOf(owner[a], f)], owner[a], f)

Committing ==
    \A a \in Attempts : Sound(a) =>
      /\ fin[a] = "renaming" =>
           \A f \in Files : IF f \in open[a] THEN Ready(a, f) ELSE InPlace(a, f)
      /\ (good[a] /\ fin[a] = "reporting") => \A f \in Files : InPlace(a, f)

IInv ==
    /\ TypeOK /\ References /\ Registry /\ DiskState
    /\ Tested /\ Committing /\ FinalWhole /\ OkMeansDelivered

USE DEF Chunks

\* What moving a stream, and calling finish, leave alone.
LEMMA ToKeeps ==
  ASSUME strm \in [Streams -> StreamState], NEW s \in Streams, NEW pc \in StreamPcs,
         NEW c \in {None} \cup Chunks, To(s, pc, c)
  PROVE  /\ strm' \in [Streams -> StreamState]
         /\ \A r \in Streams : strm'[r].a = strm[r].a
         /\ \A r \in Streams \ {s} : strm'[r] = strm[r]
         /\ strm'[s].pc = pc /\ strm'[s].c = c
BY DEF To, StreamState

LEMMA CalledKeeps ==
  ASSUME NEW f \in [Attempts -> FinStates], NEW a \in Attempts
  PROVE  /\ Called(f, a) \in [Attempts -> FinStates]
         /\ \A b \in Attempts \ {a} : Called(f, a)[b] = f[b]
         /\ Called(f, a)[a] = IF f[a] = "idle" THEN "called" ELSE f[a]
BY DEF Called, FinStates

\* A finisher that is called, or is not, is there before and after.
LEMMA CalledStays ==
  ASSUME NEW f \in [Attempts -> FinStates], NEW g, NEW a \in Attempts, g \in {f, Called(f, a)}
  PROVE  /\ g \in [Attempts -> FinStates]
         /\ \A b \in Attempts : g[b] = "none" <=> f[b] = "none"
<1>1. CASE g = f
  BY <1>1
<1>2. CASE g = Called(f, a)
  BY <1>2 DEF Called, FinStates
<1> QED
  BY <1>1, <1>2

LEMMA LeaveKeeps ==
  ASSUME strm \in [Streams -> StreamState], fin \in [Attempts -> FinStates],
         NEW s \in Streams, strm[s].a \in Attempts, NEW all \in BOOLEAN, Leave(s, all)
  PROVE  /\ strm' \in [Streams -> StreamState]
         /\ \A r \in Streams : strm'[r].a = strm[r].a
         /\ \A r \in Streams \ {s} : strm'[r] = strm[r]
         /\ strm'[s].pc = "done" /\ strm'[s].c = None
         /\ fin' \in {fin, Called(fin, strm[s].a)}
<1>1. To(s, "done", None)
  BY DEF Leave
<1>2. fin' \in {fin, Called(fin, strm[s].a)}
  BY DEF Leave
<1> QED
  BY <1>1, <1>2, ToKeeps DEF StreamPcs

LEMMA NextHeaderKeeps ==
  ASSUME strm \in [Streams -> StreamState], fin \in [Attempts -> FinStates],
         NEW s \in Streams, strm[s].a \in Attempts, NextHeader(s)
  PROVE  /\ strm' \in [Streams -> StreamState]
         /\ \A r \in Streams : strm'[r].a = strm[r].a
         /\ \A r \in Streams \ {s} : strm'[r] = strm[r]
         /\ strm'[s].pc \in {"reading", "done"} /\ strm'[s].c = None
         /\ fin' \in {fin, Called(fin, strm[s].a)}
<1>1. CASE bits'[strm[s].a] = Chunks
  BY <1>1, LeaveKeeps DEF NextHeader
<1>2. CASE bits'[strm[s].a] # Chunks
  BY <1>2, ToKeeps DEF NextHeader, StreamPcs
<1> QED
  BY <1>1, <1>2

\* The two halves of a flush.
LEMMA SnapshotKeeps ==
  ASSUME snap \in [Attempts \X Flushers -> {None} \cup SUBSET Chunks],
         bits \in [Attempts -> SUBSET Chunks], dirty \in [Attempts -> BOOLEAN],
         NEW a \in Attempts, NEW w \in Flushers, Snapshot(a, w)
  PROVE  /\ snap' \in [Attempts \X Flushers -> {None} \cup SUBSET Chunks]
         /\ dirty' \in [Attempts -> BOOLEAN]
         /\ \A b \in Attempts, v \in Flushers :
              snap'[b, v] = snap[b, v] \/ (b = a /\ snap'[b, v] \in {None, bits[a]})
<1> DEFINE new == IF dirty[a] THEN bits[a] ELSE None
<1>1. new \in {None} \cup SUBSET Chunks /\ new \in {None, bits[a]}
  OBVIOUS
<1>2. snap' = [snap EXCEPT ![<<a, w>>] = new] /\ dirty' = [dirty EXCEPT ![a] = FALSE]
  BY DEF Snapshot
<1> HIDE DEF new, Flushers
<1>3. ASSUME NEW b \in Attempts, NEW v \in Flushers
      PROVE  snap'[b, v] = IF b = a /\ v = w THEN new ELSE snap[b, v]
  <2>1. <<b, v>> \in Attempts \X Flushers /\ (<<b, v>> = <<a, w>> <=> b = a /\ v = w)
    OBVIOUS
  <2> QED
    BY <1>2, <2>1
<1> QED
  BY <1>1, <1>2, <1>3

LEMMA PersistKeeps ==
  ASSUME snap \in [Attempts \X Flushers -> {None} \cup SUBSET Chunks],
         saved \in [Ids -> {None} \cup SUBSET Chunks],
         NEW a \in Attempts, NEW w \in Flushers, owner[a] \in Ids, Persist(a, w)
  PROVE  /\ snap' \in [Attempts \X Flushers -> {None} \cup SUBSET Chunks]
         /\ saved' \in [Ids -> {None} \cup SUBSET Chunks]
         /\ \A b \in Attempts, v \in Flushers : snap'[b, v] \in {None, snap[b, v]}
         /\ saved' = saved \/ saved' = [saved EXCEPT ![owner[a]] = snap[a, w]]
<1>1. /\ snap' = [snap EXCEPT ![<<a, w>>] = None]
      /\ saved' \in {saved, [saved EXCEPT ![owner[a]] = snap[a, w]]}
  BY DEF Persist
<1> HIDE DEF Flushers
<1>2. snap[a, w] \in {None} \cup SUBSET Chunks
  OBVIOUS
<1>3. ASSUME NEW b \in Attempts, NEW v \in Flushers
      PROVE  snap'[b, v] = IF b = a /\ v = w THEN None ELSE snap[b, v]
  <2>1. <<b, v>> \in Attempts \X Flushers /\ (<<b, v>> = <<a, w>> <=> b = a /\ v = w)
    OBVIOUS
  <2> QED
    BY <1>1, <2>1
<1>4. snap' \in [Attempts \X Flushers -> {None} \cup SUBSET Chunks]
  BY <1>1
<1> QED
  BY <1>1, <1>2, <1>3, <1>4

\* TypeOK and References without the snapshots on their way to disk, which are
\* treated apart.
SnapshotsOK ==
    /\ snap \in [Attempts \X Flushers -> {None} \cup SUBSET Chunks]
    /\ \A a \in Attempts, w \in Flushers : snap[a, w] # None => owner[a] # None

CoreTypes ==
    /\ part \in [Paths -> FileImage]
    /\ final \in [Paths -> FileImage]
    /\ saved \in [Ids -> {None} \cup SUBSET Chunks]
    /\ cur \in [Ids -> Attempts \cup {None}]
    /\ owner \in [Attempts -> Ids \cup {None}]
    /\ bits \in [Attempts -> SUBSET Chunks]
    /\ failed \in [Attempts -> BOOLEAN]
    /\ open \in [Attempts -> SUBSET Files]
    /\ dirty \in [Attempts -> BOOLEAN]
    /\ manifest \in [Attempts -> BOOLEAN]
    /\ lost \in [Attempts -> BOOLEAN]
    /\ superseded \in [Attempts -> BOOLEAN]
    /\ cancelled \in [Attempts -> BOOLEAN]
    /\ aborted \in [Attempts -> BOOLEAN]
    /\ fin \in [Attempts -> FinStates]
    /\ good \in [Attempts -> BOOLEAN]
    /\ told \in [Attempts -> BOOLEAN \cup {None}]
    /\ strm \in [Streams -> StreamState]
    /\ handler \in HandlerState
    /\ ended \in SUBSET Ids
    /\ revived \in SUBSET Ids
    /\ crashes \in 0..MaxCrashes

CoreReferences ==
    /\ \A a \in Attempts : owner[a] = None <=> fin[a] = "none"
    /\ \A s \in Streams :
         /\ strm[s].pc # "idle" => strm[s].a # None
         /\ strm[s].a # None => owner[strm[s].a] # None
         /\ strm[s].pc \in {"writing", "marking"} => strm[s].c # None
    /\ \A t \in Ids : cur[t] # None => owner[cur[t]] = t
    /\ handler.op # "idle" =>
         /\ handler.id # None /\ handler.att # None
         /\ owner[handler.att] = handler.id

Core == CoreTypes /\ CoreReferences

LEMMA TypeParts == TypeOK /\ References <=> Core /\ SnapshotsOK
BY DEF TypeOK, References, Core, CoreTypes, CoreReferences, SnapshotsOK

\* A stream's step that leaves the registrations alone refers to nothing new.
LEMMA StreamReferences ==
  ASSUME CoreReferences, NEW s \in Streams, strm[s].a # None,
         \A b \in Attempts : fin'[b] = "none" <=> fin[b] = "none",
         \A r \in Streams : strm'[r].a = strm[r].a,
         \A r \in Streams \ {s} : strm'[r] = strm[r],
         strm'[s].pc \in {"writing", "marking"} => strm'[s].c # None,
         UNCHANGED <<owner, cur, handler>>
  PROVE  CoreReferences'
BY DEF CoreReferences

\* Every step of every goroutine keeps every variable in its type and refers
\* only to what exists.
LEMMA CoreStep == Core /\ SnapshotsOK /\ [Next]_vars => Core'
<1> SUFFICES ASSUME Core, SnapshotsOK, [Next]_vars PROVE Core'
  OBVIOUS
<1> USE PathOfType, CountsAreNat, NoneIsFresh
<1> USE DEF Core, CoreTypes, CoreReferences, FileImage, Content, FinStates, StreamState, StreamPcs,
            HandlerState, Free, Task, Called, Mark
<1>1. ASSUME NEW t \in Ids, NEW a \in Attempts, NEW d \in BOOLEAN, Offer(t, a, d)
      PROVE  Core'
  BY <1>1 DEF Offer, NewRecvState, Register, LoadedBits, Empty, flags
<1>2. ASSUME NEW t \in Ids, Supersede(t) PROVE Core'
  BY <1>2 DEF Supersede, Task, disk, chunks, finish, history
<1>3. ASSUME NEW t \in Ids, Manifest(t) PROVE Core'
  BY <1>3 DEF Manifest, disk, chunks, flags, finish, history
<1>4. ASSUME NEW a \in Attempts, NEW d \in BOOLEAN, ReplaceSuperseded(a, d)
      PROVE  Core'
  BY <1>4 DEF ReplaceSuperseded, NewRecvState, Register, LoadedBits, Empty, flags
<1>5. ASSUME NEW t \in Ids, NEW drop \in BOOLEAN, Cancel(t, drop) PROVE Core'
  BY <1>5 DEF Cancel, disk, chunks, finish, history
<1>22. CASE HandlerSnapshot
  <2>1. dirty' \in [Attempts -> BOOLEAN] /\ handler' = [handler EXCEPT !.at = "rename"]
    BY <1>22 DEF HandlerSnapshot, Snapshot
  <2>2. UNCHANGED <<disk, bits, failed, flags, finish, cur, owner, lost, manifest, history,
                    open, strm, crashes>>
    BY <1>22 DEF HandlerSnapshot
  <2> QED
    BY <2>1, <2>2 DEF disk, flags, finish, history
<1>23. CASE HandlerRename
  <2>1. handler.att \in Attempts /\ owner[handler.att] \in Ids
    BY <1>23 DEF HandlerRename
  <2>2. saved' \in [Ids -> {None} \cup SUBSET Chunks] /\ handler' = [handler EXCEPT !.at = "wait"]
    BY <1>23, <2>1, PersistKeeps DEF HandlerRename, SnapshotsOK, Flushers
  <2>3. /\ fin' \in [Attempts -> FinStates]
        /\ \A b \in Attempts : fin'[b] = "none" <=> fin[b] = "none"
    BY <1>23, <2>1 DEF HandlerRename
  <2>4. UNCHANGED <<part, final, chunks, flags, good, told, cur, owner, lost, manifest,
                    history, open, strm, crashes>>
    BY <1>23 DEF HandlerRename
  <2> QED
    BY <2>2, <2>3, <2>4 DEF chunks, flags, history
<1>6. CASE RemoveParts
  <2>1. handler.id \in Ids /\ handler.att \in Attempts
    BY <1>6 DEF RemoveParts
  <2>2. UNCHANGED <<final, saved, bits, dirty, failed, superseded, cancelled, aborted, fin,
                    good, told, cur, owner, lost, manifest, revived, snap, open, strm, crashes>>
    BY <1>6 DEF RemoveParts, chunks, flags, finish
  <2>3. part' \in [Paths -> FileImage] /\ ended' \in SUBSET Ids
    BY <1>6, <2>1 DEF RemoveParts
  <2>4. /\ handler' \in HandlerState
        /\ handler'.op # "idle" => handler'.id = handler.id /\ handler'.att = handler.att
        /\ handler.op # "idle"
    <3> DEFINE freed == [handler EXCEPT !.op = "discard"]
    <3>1. handler' \in {Free, freed} /\ handler.op # "idle"
      BY <1>6 DEF RemoveParts
    <3>2. freed \in HandlerState /\ Free \in HandlerState
      BY <2>1
    <3> HIDE DEF freed
    <3>3. handler' \in HandlerState
      BY <3>1, <3>2
    <3>4. CASE handler' = Free
      BY <3>1, <3>3, <3>4
    <3>5. CASE handler' = freed
      <4> USE DEF freed
      <4> QED
        BY <3>1, <3>3, <3>5
    <3> QED
      BY <3>1, <3>4, <3>5
  <2>5. CoreTypes'
    BY <2>2, <2>3, <2>4
  <2>6. CoreReferences'
    BY <2>2, <2>4
  <2> QED
    BY <2>5, <2>6
<1>7. CASE DiscardState
  <2>1. saved' \in [Ids -> {None} \cup SUBSET Chunks] /\ handler' = Free
    BY <1>7 DEF DiscardState
  <2>2. UNCHANGED <<part, final, chunks, flags, finish, cur, owner, lost, manifest, history,
                    snap, open, strm, crashes>>
    BY <1>7 DEF DiscardState
  <2>3. handler' \in HandlerState /\ handler'.op = "idle"
    BY <2>1
  <2> QED
    BY <2>1, <2>2, <2>3 DEF chunks, flags, finish, history
<1>8. ASSUME NEW s \in Streams, NEW t \in Ids, OpenStream(s, t) PROVE Core'
  BY <1>8 DEF OpenStream, disk, chunks, flags, finish, control, history
<1>9. ASSUME NEW s \in Streams, StreamReady(s) PROVE Core'
  BY <1>9 DEF StreamReady, To, disk, chunks, flags, finish, control, history
<1>10. ASSUME NEW s \in Streams, EndStream(s) PROVE Core'
  BY <1>10 DEF EndStream, Leave, To, disk, chunks, flags, finish, control, history
<1>11. ASSUME NEW s \in Streams, WriteChunk(s) PROVE Core'
  <2> DEFINE a == strm[s].a
             c == strm[s].c
             p == PathOf(owner[a], c[1])
  <2>1. /\ a \in Attempts /\ owner[a] \in Ids /\ fin[a] # "none"
        /\ c \in Chunks /\ c[1] \in Files /\ c[2] \in Slots
        /\ p \in Paths
    BY <1>11 DEF WriteChunk
  <2>2. \A file \in FileImage \ {None} : Land(file, c, a) \in FileImage
    BY <2>1 DEF Land
  <2>3. part' \in [Paths -> FileImage] /\ final' \in [Paths -> FileImage]
    <3>1. CASE c[1] \in open[a]
      <4> HIDE DEF FileImage
      <4>1. part[p] # None => Land(part[p], c, a) \in FileImage
        BY <2>1, <2>2
      <4>2. final[p] # None => Land(final[p], c, a) \in FileImage
        BY <2>1, <2>2
      <4> QED
        <5>1. /\ part' = IF part[p] # None
                         THEN [part EXCEPT ![p] = Land(part[p], c, a)] ELSE part
              /\ final' = IF part[p] = None /\ final[p] # None
                          THEN [final EXCEPT ![p] = Land(final[p], c, a)] ELSE final
          BY <1>11, <3>1 DEF WriteChunk
        <5> HIDE DEF p, c, a, Core
        <5>2. part \in [Paths -> FileImage] /\ final \in [Paths -> FileImage]
          BY DEF Core, CoreTypes
        <5> QED
          BY <5>1, <5>2, <2>1, <4>1, <4>2
    <3>2. CASE c[1] \notin open[a]
      BY <1>11, <3>2 DEF WriteChunk
    <3> QED
      BY <3>1, <3>2
  <2>4. /\ strm' \in [Streams -> StreamState] /\ fin' \in [Attempts -> FinStates]
        /\ \A r \in Streams : strm'[r].a = strm[r].a
        /\ \A r \in Streams \ {s} : strm'[r] = strm[r]
        /\ strm'[s].pc \in {"marking", "done"}
        /\ strm'[s].pc = "marking" => strm'[s].c = c
        /\ \A b \in Attempts : fin'[b] = "none" <=> fin[b] = "none"
    <3>1. CASE To(s, "marking", c) /\ UNCHANGED fin
      BY <3>1, <2>1, ToKeeps
    <3>2. CASE Leave(s, FALSE)
      <4>1. /\ strm' \in [Streams -> StreamState]
            /\ \A r \in Streams : strm'[r].a = strm[r].a
            /\ \A r \in Streams \ {s} : strm'[r] = strm[r]
            /\ strm'[s].pc = "done"
            /\ fin' \in {fin, Called(fin, a)}
        <5>1. strm \in [Streams -> StreamState] /\ fin \in [Attempts -> FinStates]
          BY DEF Core, CoreTypes
        <5>2. strm[s].a \in Attempts /\ FALSE \in BOOLEAN
          BY <2>1
        <5> HIDE DEF StreamState, FinStates, Called, Core
        <5> QED
          BY <3>2, <5>1, <5>2, LeaveKeeps
      <4>2. fin' \in [Attempts -> FinStates] /\ \A b \in Attempts : fin'[b] = "none" <=> fin[b] = "none"
        <5>1. fin \in [Attempts -> FinStates]
          BY DEF Core, CoreTypes
        <5>2. a \in Attempts /\ fin' \in {fin, Called(fin, a)}
          BY <4>1, <2>1
        <5> HIDE DEF FinStates, Called, Core, a, c, p
        <5> QED
          BY <5>1, <5>2, CalledStays
      <4> QED
        BY <4>1, <4>2
    <3> QED
      BY <1>11, <3>1, <3>2 DEF WriteChunk
  <2>5. UNCHANGED <<saved, chunks, flags, good, told, control, snap, open, crashes>>
    BY <1>11 DEF WriteChunk
  <2>6. CoreTypes'
    BY <2>3, <2>4, <2>5 DEF chunks, flags, control, history
  <2>7. CoreReferences'
    <3>1. UNCHANGED <<owner, cur, handler>> /\ strm[s].a # None
      BY <2>1, <2>5 DEF control
    <3>2. strm'[s].pc \in {"writing", "marking"} => strm'[s].c # None
      BY <2>1, <2>4
    <3> HIDE DEF Core, CoreTypes, CoreReferences
    <3> QED
      BY <2>4, <3>1, <3>2, StreamReferences DEF Core
  <2> QED
    BY <2>6, <2>7
<1>12. ASSUME NEW s \in Streams, MarkChunk(s) PROVE Core'
  <2>1. /\ strm[s].a \in Attempts /\ owner[strm[s].a] # None /\ fin[strm[s].a] # "none"
        /\ strm[s].c \in Chunks
    BY <1>12 DEF MarkChunk
  <2>2. /\ strm' \in [Streams -> StreamState] /\ fin' \in [Attempts -> FinStates]
        /\ \A r \in Streams : strm'[r].a = strm[r].a
        /\ \A r \in Streams \ {s} : strm'[r] = strm[r]
        /\ strm'[s].pc \in {"reading", "done"}
        /\ \A b \in Attempts : fin'[b] = "none" <=> fin[b] = "none"
    <3>1. /\ strm' \in [Streams -> StreamState]
          /\ \A r \in Streams : strm'[r].a = strm[r].a
          /\ \A r \in Streams \ {s} : strm'[r] = strm[r]
          /\ strm'[s].pc \in {"reading", "done"}
          /\ fin' \in {fin, Called(fin, strm[s].a)}
      <4>1. NextHeader(s) /\ strm \in [Streams -> StreamState] /\ fin \in [Attempts -> FinStates]
        BY <1>12 DEF MarkChunk
      <4> HIDE DEF StreamState, FinStates, Called, Core
      <4> QED
        BY <4>1, <2>1, NextHeaderKeeps
    <3>2. fin' \in [Attempts -> FinStates] /\ \A b \in Attempts : fin'[b] = "none" <=> fin[b] = "none"
      <4>1. fin \in [Attempts -> FinStates] /\ strm[s].a \in Attempts
        BY <2>1 DEF Core
      <4>2. fin' \in {fin, Called(fin, strm[s].a)}
        BY <3>1
      <4> HIDE DEF FinStates, Called, StreamState, Core
      <4> QED
        BY <4>1, <4>2, CalledStays
    <3> QED
      BY <3>1, <3>2
  <2>3. bits' \in [Attempts -> SUBSET Chunks] /\ dirty' \in [Attempts -> BOOLEAN]
    BY <1>12, <2>1 DEF MarkChunk
  <2>4. UNCHANGED <<disk, failed, flags, good, told, control, snap, open, crashes>>
    BY <1>12 DEF MarkChunk
  <2>5. CoreTypes'
    BY <2>2, <2>3, <2>4 DEF disk, flags, control, history
  <2>6. CoreReferences'
    <3>1. UNCHANGED <<owner, cur, handler>> /\ strm[s].a # None
      BY <2>1, <2>4 DEF control
    <3>2. strm'[s].pc \in {"writing", "marking"} => strm'[s].c # None
      BY <2>2
    <3> HIDE DEF Core, CoreTypes, CoreReferences
    <3> QED
      BY <2>2, <3>1, <3>2, StreamReferences DEF Core
  <2> QED
    BY <2>5, <2>6
<1>13. ASSUME NEW s \in Streams, NEW c \in Chunks, NEW m \in BOOLEAN, TakeChunk(s, c, m)
       PROVE  Core'
  <2>1. strm[s].a \in Attempts /\ owner[strm[s].a] # None /\ fin[strm[s].a] # "none"
    BY <1>13 DEF TakeChunk
  <2>2. /\ strm' \in [Streams -> StreamState] /\ fin' \in [Attempts -> FinStates]
        /\ \A r \in Streams : strm'[r].a = strm[r].a
        /\ \A r \in Streams \ {s} : strm'[r] = strm[r]
        /\ strm'[s].pc \in {"reading", "writing", "done"}
        /\ strm'[s].pc = "writing" => strm'[s].c = c
        /\ \A b \in Attempts : fin'[b] = "none" <=> fin[b] = "none"
    <3>1. CASE To(s, "writing", c) /\ UNCHANGED fin
      BY <3>1, <2>1, ToKeeps
    <3>2. CASE NextHeader(s)
      <4>1. /\ strm' \in [Streams -> StreamState]
            /\ \A r \in Streams : strm'[r].a = strm[r].a
            /\ \A r \in Streams \ {s} : strm'[r] = strm[r]
            /\ strm'[s].pc \in {"reading", "done"}
            /\ fin' \in {fin, Called(fin, strm[s].a)}
        <5> HIDE DEF StreamState, FinStates, Called
        <5> QED
          BY <3>2, <2>1, NextHeaderKeeps
      <4>2. fin' \in [Attempts -> FinStates] /\ \A b \in Attempts : fin'[b] = "none" <=> fin[b] = "none"
        <5>1. fin \in [Attempts -> FinStates]
          BY DEF Core, CoreTypes
        <5>2. strm[s].a \in Attempts /\ fin' \in {fin, Called(fin, strm[s].a)}
          BY <4>1, <2>1
        <5> HIDE DEF FinStates, Called, StreamState, Core
        <5> QED
          BY <5>1, <5>2, CalledStays
      <4> QED
        BY <4>1, <4>2
    <3> QED
      BY <1>13, <3>1, <3>2 DEF TakeChunk
  <2>3. bits' \in [Attempts -> SUBSET Chunks] /\ failed' \in [Attempts -> BOOLEAN]
    <3>1. bits' = bits
      BY <1>13 DEF TakeChunk
    <3>2. failed' = failed \/ failed' = [failed EXCEPT ![strm[s].a] = @ \/ c \notin bits[strm[s].a]]
      BY <1>13 DEF TakeChunk
    <3>3. bits \in [Attempts -> SUBSET Chunks] /\ failed \in [Attempts -> BOOLEAN]
      BY DEF Core, CoreTypes
    <3> HIDE DEF Core, CoreTypes, CoreReferences
    <3> QED
      BY <3>1, <3>2, <3>3
  <2>4. c # None
    OBVIOUS
  <2>5. UNCHANGED <<disk, dirty, flags, good, told, control, snap, open, crashes>>
    BY <1>13 DEF TakeChunk
  <2>6. CoreTypes'
    BY <2>2, <2>3, <2>5 DEF disk, flags, control, history
  <2>7. CoreReferences'
    <3>1. UNCHANGED <<owner, cur, handler>> /\ strm[s].a # None
      BY <2>1, <2>5 DEF control
    <3>2. strm'[s].pc \in {"writing", "marking"} => strm'[s].c # None
      BY <2>2, <2>4
    <3> HIDE DEF Core, CoreTypes, CoreReferences
    <3> QED
      BY <2>2, <3>1, <3>2, StreamReferences DEF Core
  <2> QED
    BY <2>6, <2>7
<1>14. ASSUME NEW a \in Attempts, TickSnapshot(a) PROVE Core'
  <2>1. dirty' \in [Attempts -> BOOLEAN]
    BY <1>14 DEF TickSnapshot, Snapshot
  <2>2. UNCHANGED <<disk, bits, failed, flags, finish, control, open, strm, crashes>>
    BY <1>14 DEF TickSnapshot
  <2> QED
    BY <2>1, <2>2 DEF disk, flags, finish, control, history
<1>15. ASSUME NEW a \in Attempts, TickRename(a) PROVE Core'
  <2>1. owner[a] \in Ids
    <3>1. snap[a, "ticker"] # None /\ "ticker" \in Flushers
      BY <1>15 DEF TickRename, Flushers
    <3>2. owner[a] # None /\ owner[a] \in Ids \cup {None}
      BY <3>1 DEF SnapshotsOK
    <3> QED
      BY <3>2
  <2>2. saved' \in [Ids -> {None} \cup SUBSET Chunks]
    BY <1>15, <2>1, PersistKeeps DEF TickRename, SnapshotsOK, Flushers
  <2>3. UNCHANGED <<part, final, chunks, flags, finish, control, open, strm, crashes>>
    BY <1>15 DEF TickRename
  <2> QED
    BY <2>2, <2>3 DEF chunks, flags, finish, control, history
<1>16. ASSUME NEW a \in Attempts, FinishBegin(a) \/ CopyFailures(a) \/ TestComplete(a)
       PROVE  Core'
  <2>1. /\ fin' \in [Attempts -> FinStates] /\ good' \in [Attempts -> BOOLEAN]
        /\ \A b \in Attempts : fin'[b] = "none" <=> fin[b] = "none"
    <3>1. /\ \/ At(a, "called", "retiring") \/ At(a, "called", "listing")
             \/ At(a, "listing", "testing") \/ At(a, "testing", "flushing")
          /\ \/ good' = good \/ good' = [good EXCEPT ![a] = ~failed[a]]
             \/ good' = [good EXCEPT ![a] = Complete(a)]
      BY <1>16 DEF FinishBegin, CopyFailures, TestComplete
    <3>2. good' \in [Attempts -> BOOLEAN]
      <4>1. Complete(a) \in BOOLEAN /\ (~failed[a]) \in BOOLEAN
        BY DEF Complete
      <4>2. good \in [Attempts -> BOOLEAN]
        BY DEF CoreTypes
      <4> HIDE DEF Complete, Core, CoreTypes, CoreReferences
      <4>3. CASE good' = good
        BY <4>2, <4>3
      <4>4. CASE good' = [good EXCEPT ![a] = ~failed[a]]
        BY <4>1, <4>2, <4>4
      <4>5. CASE good' = [good EXCEPT ![a] = Complete(a)]
        BY <4>1, <4>2, <4>5
      <4> QED
        BY <3>1, <4>3, <4>4, <4>5
    <3>3. /\ fin' \in [Attempts -> FinStates]
          /\ \A b \in Attempts : fin'[b] = "none" <=> fin[b] = "none"
      BY <3>1 DEF At
    <3> QED
      BY <3>2, <3>3
  <2>2. UNCHANGED <<disk, chunks, flags, told, control, snap, open, strm, crashes>>
    BY <1>16 DEF FinishBegin, CopyFailures, TestComplete
  <2> QED
    BY <2>1, <2>2 DEF disk, chunks, flags, control, history
<1>24. ASSUME NEW a \in Attempts, FinishSnapshot(a) PROVE Core'
  <2>1. /\ fin' \in [Attempts -> FinStates] /\ dirty' \in [Attempts -> BOOLEAN]
        /\ \A b \in Attempts : fin'[b] = "none" <=> fin[b] = "none"
    BY <1>24 DEF FinishSnapshot, At, Snapshot
  <2>2. UNCHANGED <<disk, bits, failed, flags, good, told, control, open, strm, crashes>>
    BY <1>24 DEF FinishSnapshot
  <2> QED
    BY <2>1, <2>2 DEF disk, flags, control, history
<1>25. ASSUME NEW a \in Attempts, Retire(a) \/ FinishRename(a) PROVE Core'
  <2>1. /\ owner[a] \in Ids /\ fin' \in [Attempts -> FinStates]
        /\ \A b \in Attempts : fin'[b] = "none" <=> fin[b] = "none"
        /\ open' \in [Attempts -> SUBSET Files]
    <3>1. /\ \/ At(a, "retired", "done") \/ At(a, "saving", "renaming")
             \/ At(a, "saving", "reporting")
          /\ open' = open \/ open' = [open EXCEPT ![a] = {}]
      BY <1>25 DEF Retire, FinishRename
    <3> QED
      BY <3>1 DEF At
  <2>2. saved' \in [Ids -> {None} \cup SUBSET Chunks]
    BY <1>25, <2>1, PersistKeeps DEF Retire, FinishRename, SnapshotsOK, Flushers
  <2>3. /\ ended' \in SUBSET Ids
        /\ UNCHANGED <<part, final, chunks, flags, good, told, cur, owner, lost, manifest,
                       handler, revived, strm, crashes>>
    BY <1>25, <2>1 DEF Retire, FinishRename, control, history
  <2> QED
    BY <2>1, <2>2, <2>3 DEF chunks, flags
<1>17. ASSUME NEW a \in Attempts, DropBitmap(a) PROVE Core'
  BY <1>17 DEF DropBitmap, chunks, flags, control, history
<1>18. ASSUME NEW a \in Attempts, Report(a) PROVE Core'
  <2>1. /\ cur' \in [Ids -> Attempts \cup {None}]
        /\ \A t \in Ids : cur'[t] \in {cur[t], None}
    BY <1>18 DEF Report
  <2>2. /\ told' \in [Attempts -> BOOLEAN \cup {None}] /\ aborted' \in [Attempts -> BOOLEAN]
        /\ fin' \in [Attempts -> FinStates]
        /\ \A b \in Attempts : fin'[b] = "none" <=> fin[b] = "none"
    BY <1>18 DEF Report
  <2>3. UNCHANGED <<disk, chunks, superseded, cancelled, good, owner, lost, manifest, handler,
                    history, snap, open, strm, crashes>>
    BY <1>18 DEF Report
  <2> QED
    BY <2>1, <2>2, <2>3 DEF disk, chunks, history
<1>19. ASSUME NEW a \in Attempts, NEW f \in Files, RenameFile(a, f) PROVE Core'
  <2>1. owner[a] \in Ids /\ PathOf(owner[a], f) \in Paths
    BY <1>19 DEF RenameFile
  <2>2. /\ part' \in [Paths -> FileImage] /\ final' \in [Paths -> FileImage]
        /\ good' \in [Attempts -> BOOLEAN] /\ open' \in [Attempts -> SUBSET Files]
    <3> DEFINE p == PathOf(owner[a], f)
    <3>1. /\ open' = [open EXCEPT ![a] = open[a] \ {f}]
          /\ \/ /\ final' = [final EXCEPT ![p] = part[p]]
                /\ part' = [part EXCEPT ![p] = None]
                /\ good' = good
             \/ /\ good' = [good EXCEPT ![a] = FALSE]
                /\ UNCHANGED <<part, final>>
      BY <1>19 DEF RenameFile
    <3>2. p \in Paths
      BY <2>1
    <3>3. final[p] \in FileImage /\ part[p] \in FileImage /\ None \in FileImage
      BY <3>2
    <3>4. part' \in [Paths -> FileImage] /\ final' \in [Paths -> FileImage]
      <4>1. part \in [Paths -> FileImage] /\ final \in [Paths -> FileImage]
        OBVIOUS
      <4> HIDE DEF p, FileImage, Core
      <4>2. CASE final' = [final EXCEPT ![p] = part[p]] /\ part' = [part EXCEPT ![p] = None]
        BY <4>1, <4>2, <3>2, <3>3
      <4>3. CASE UNCHANGED <<part, final>>
        BY <4>1, <4>3
      <4>4. \/ final' = [final EXCEPT ![p] = part[p]] /\ part' = [part EXCEPT ![p] = None]
            \/ UNCHANGED <<part, final>>
        BY <3>1
      <4> QED
        BY <4>2, <4>3, <4>4
    <3>5. good' \in [Attempts -> BOOLEAN] /\ open' \in [Attempts -> SUBSET Files]
      <4>1. good \in [Attempts -> BOOLEAN] /\ open \in [Attempts -> SUBSET Files]
        OBVIOUS
      <4>2. good' \in {good, [good EXCEPT ![a] = FALSE]} /\ open' = [open EXCEPT ![a] = open[a] \ {f}]
        BY <3>1
      <4> HIDE DEF p, FileImage, Core
      <4> QED
        BY <4>1, <4>2
    <3> QED
      BY <3>4, <3>5
  <2>3. UNCHANGED <<saved, chunks, flags, fin, told, control, snap, strm, crashes>>
    BY <1>19 DEF RenameFile
  <2>4. CoreTypes'
    BY <2>2, <2>3 DEF chunks, flags, control, history
  <2>5. CoreReferences'
    BY <2>3 DEF control, history
  <2> QED
    BY <2>4, <2>5
<1>20. CASE Crash
  BY <1>20 DEF Crash, disk, history
<1>21. CASE UNCHANGED vars
  BY <1>21 DEF vars, disk, chunks, flags, finish, control, history
<1> HIDE DEF Core, CoreTypes, CoreReferences
<1> QED
  BY <1>1, <1>2, <1>3, <1>4, <1>5, <1>6, <1>7, <1>8, <1>9, <1>10, <1>11, <1>12, <1>13,
     <1>14, <1>15, <1>16, <1>17, <1>18, <1>19, <1>20, <1>21, <1>22, <1>23, <1>24, <1>25 DEF Next

\* A snapshot is taken of an attempt that exists, and is dropped once on disk.
LEMMA SnapshotsStep == Core /\ SnapshotsOK /\ [Next]_vars => SnapshotsOK'
<1> SUFFICES ASSUME Core, SnapshotsOK, [Next]_vars PROVE SnapshotsOK'
  OBVIOUS
<1>1. /\ bits \in [Attempts -> SUBSET Chunks] /\ dirty \in [Attempts -> BOOLEAN]
      /\ saved \in [Ids -> {None} \cup SUBSET Chunks]
      /\ owner \in [Attempts -> Ids \cup {None}] /\ handler \in HandlerState
      /\ handler.op # "idle" =>
           handler.att \in Attempts /\ handler.id \in Ids /\ owner[handler.att] = handler.id
  BY DEF Core, CoreTypes, CoreReferences, HandlerState
<1>2. ASSUME NEW a \in Attempts, NEW w \in Flushers, Snapshot(a, w), owner[a] # None,
             owner' = owner
      PROVE  SnapshotsOK'
  <2>1. snap' \in [Attempts \X Flushers -> {None} \cup SUBSET Chunks]
    BY <1>1, <1>2, SnapshotKeeps DEF SnapshotsOK
  <2>2. ASSUME NEW b \in Attempts, NEW v \in Flushers, snap'[b, v] # None PROVE owner[b] # None
    <3>1. snap'[b, v] = snap[b, v] \/ b = a
      BY <1>1, <1>2, SnapshotKeeps DEF SnapshotsOK
    <3> QED
      BY <1>2, <2>2, <3>1 DEF SnapshotsOK
  <2> QED
    BY <1>2, <2>1, <2>2 DEF SnapshotsOK
<1>3. ASSUME NEW a \in Attempts, NEW w \in Flushers, Persist(a, w), owner[a] \in Ids,
             owner' = owner
      PROVE  SnapshotsOK'
  <2>1. snap' \in [Attempts \X Flushers -> {None} \cup SUBSET Chunks]
    BY <1>1, <1>3, PersistKeeps DEF SnapshotsOK
  <2>2. ASSUME NEW b \in Attempts, NEW v \in Flushers, snap'[b, v] # None PROVE owner[b] # None
    <3>1. snap'[b, v] \in {None, snap[b, v]}
      BY <1>1, <1>3, PersistKeeps DEF SnapshotsOK
    <3> QED
      BY <2>2, <3>1 DEF SnapshotsOK
  <2> QED
    BY <1>3, <2>1, <2>2 DEF SnapshotsOK
<1>4. CASE UNCHANGED <<snap, owner>>
  BY <1>4 DEF SnapshotsOK
<1>5. ASSUME NEW t \in Ids, NEW a \in Attempts, NEW d \in BOOLEAN, NewRecvState(t, a, d),
             snap' = snap
      PROVE  SnapshotsOK'
  BY <1>1, <1>5, NoneIsFresh DEF SnapshotsOK, NewRecvState, Register
<1>6. CASE HandlerSnapshot \/ HandlerRename
  BY <1>1, <1>2, <1>3, <1>6, NoneIsFresh DEF HandlerSnapshot, HandlerRename, Flushers
<1>7. ASSUME NEW a \in Attempts, TickSnapshot(a) \/ FinishSnapshot(a) PROVE SnapshotsOK'
  <2>1. owner[a] # None /\ owner' = owner
    BY <1>7 DEF TickSnapshot, FinishSnapshot, At, Core, CoreReferences, control
  <2> QED
    BY <1>2, <1>7, <2>1 DEF TickSnapshot, FinishSnapshot, Flushers
<1>8. ASSUME NEW a \in Attempts, TickRename(a) \/ Retire(a) \/ FinishRename(a) PROVE SnapshotsOK'
  <2>1. owner' = owner
    BY <1>8 DEF TickRename, Retire, FinishRename, control
  <2>2. owner[a] \in Ids
    <3>1. CASE TickRename(a)
      BY <1>1, <3>1 DEF TickRename, SnapshotsOK, Flushers
    <3>2. CASE Retire(a) \/ FinishRename(a)
      BY <1>1, <3>2 DEF Retire, FinishRename, At, Core, CoreReferences
    <3> QED
      BY <1>8, <3>1, <3>2
  <2> QED
    BY <1>3, <1>8, <2>1, <2>2 DEF TickRename, Retire, FinishRename, Flushers
<1>9. CASE Crash
  BY <1>9 DEF Crash, SnapshotsOK, Flushers
<1>10. ASSUME NEW t \in Ids, NEW a \in Attempts, NEW d \in BOOLEAN,
              Offer(t, a, d) \/ ReplaceSuperseded(a, d)
       PROVE  SnapshotsOK'
  BY <1>1, <1>5, <1>10 DEF Offer, ReplaceSuperseded
<1>11. ASSUME NEW t \in Ids,
              Supersede(t) \/ Manifest(t) \/ \E drop \in BOOLEAN : Cancel(t, drop)
       PROVE  UNCHANGED <<snap, owner>>
  BY <1>11 DEF Supersede, Manifest, Cancel
<1>12. ASSUME NEW s \in Streams,
              \/ StreamReady(s) \/ EndStream(s) \/ WriteChunk(s) \/ MarkChunk(s)
              \/ \E c \in Chunks, m \in BOOLEAN : TakeChunk(s, c, m)
       PROVE  UNCHANGED <<snap, owner>>
  BY <1>12 DEF StreamReady, EndStream, WriteChunk, MarkChunk, TakeChunk, control
<1>13. ASSUME NEW a \in Attempts,
              \/ FinishBegin(a) \/ CopyFailures(a) \/ TestComplete(a) \/ DropBitmap(a)
              \/ Report(a) \/ \E f \in Files : RenameFile(a, f)
       PROVE  UNCHANGED <<snap, owner>>
  BY <1>13 DEF FinishBegin, CopyFailures, TestComplete, DropBitmap, Report, RenameFile, control
<1>14. RemoveParts \/ DiscardState \/ UNCHANGED vars => UNCHANGED <<snap, owner>>
  BY DEF RemoveParts, DiscardState, vars, control
<1>15. ASSUME NEW s \in Streams, NEW t \in Ids, OpenStream(s, t) PROVE UNCHANGED <<snap, owner>>
  BY <1>15 DEF OpenStream, control
<1> HIDE DEF SnapshotsOK, Core
<1>16. CASE \E a \in Attempts :
               \/ TickSnapshot(a) \/ FinishSnapshot(a) \/ TickRename(a) \/ Retire(a) \/ FinishRename(a)
  BY <1>7, <1>8, <1>16
<1>17. CASE \E a \in Attempts, d \in BOOLEAN :
               ReplaceSuperseded(a, d) \/ \E t \in Ids : Offer(t, a, d)
  <2>1. CASE \E t \in Ids, a \in Attempts, d \in BOOLEAN : Offer(t, a, d)
    BY <2>1, <1>10
  <2>2. CASE \E a \in Attempts, d \in BOOLEAN : ReplaceSuperseded(a, d)
    <3>1. PICK a \in Attempts, d \in BOOLEAN : ReplaceSuperseded(a, d)
      BY <2>2
    <3>2. handler.id \in Ids
      BY <1>1, <3>1 DEF ReplaceSuperseded
    <3> QED
      BY <3>1, <3>2, <1>10
  <2> QED
    BY <1>17, <2>1, <2>2
<1>18. CASE UNCHANGED <<snap, owner>>
  BY <1>4, <1>18
<1>19. [Next]_vars =>
         \/ UNCHANGED <<snap, owner>> \/ HandlerSnapshot \/ HandlerRename \/ Crash
         \/ \E a \in Attempts :
               \/ TickSnapshot(a) \/ FinishSnapshot(a) \/ TickRename(a) \/ Retire(a) \/ FinishRename(a)
         \/ \E a \in Attempts, d \in BOOLEAN :
               ReplaceSuperseded(a, d) \/ \E t \in Ids : Offer(t, a, d)
  BY <1>11, <1>12, <1>13, <1>14, <1>15 DEF Next
<1> QED
  BY <1>6, <1>9, <1>16, <1>17, <1>18, <1>19

LEMMA TypeStep == TypeOK /\ References /\ [Next]_vars => TypeOK' /\ References'
<1>1. TypeOK' /\ References' <=> Core' /\ SnapshotsOK'
  BY DEF TypeOK, References, Core, CoreTypes, CoreReferences, SnapshotsOK
<1> QED
  BY <1>1, TypeParts, CoreStep, SnapshotsStep

LEMMA TypeInit == Init => TypeOK /\ References
<1> SUFFICES ASSUME Init PROVE TypeOK /\ References
  OBVIOUS
<1>1. strm \in [Streams -> StreamState] /\ handler \in HandlerState
  BY DEF Init, StreamState, StreamPcs, NewStream, HandlerState, Free, Task
<1>2. crashes \in 0..MaxCrashes
  BY CountsAreNat DEF Init
<1>3. TypeOK
  BY <1>1, <1>2 DEF Init, TypeOK, FileImage, FinStates
<1>4. References
  BY NoneIsFresh DEF Init, References, NewStream, Free, Task, Flushers
<1> QED
  BY <1>3, <1>4

\* TypeOK holds in every state of the receiver (recv.go's recvState, the
\* Capability's map of them, and the files on disk).
THEOREM TypeCorrect == Spec => []TypeOK
  BY TypeInit, TypeStep, PTL DEF Spec

----------------------------------------------------------------------------

\* A data stream's own steps.
StreamStep(s) ==
    \/ StreamReady(s) \/ EndStream(s) \/ WriteChunk(s) \/ MarkChunk(s)
    \/ \E c \in Chunks, m \in BOOLEAN : TakeChunk(s, c, m)

LEMMA StreamKeeps ==
  ASSUME TypeOK, References, NEW s \in Streams, StreamStep(s)
  PROVE  /\ strm[s].a \in Attempts /\ owner[strm[s].a] \in Ids
         /\ fin' \in {fin, Called(fin, strm[s].a)}
         /\ \A r \in Streams : strm'[r].a = strm[r].a
         /\ \A r \in Streams \ {s} : strm'[r] = strm[r]
         /\ strm'[s].pc = "marking" =>
              strm[s].pc = "writing" /\ strm'[s].c = strm[s].c /\ WriteChunk(s)
         /\ \A b \in Attempts \ {strm[s].a} : bits'[b] = bits[b]
         /\ \A b \in Attempts : bits[b] \in SUBSET bits'[b]
         /\ UNCHANGED <<saved, flags, good, told, control, snap, open, crashes>>
<1>1. /\ strm \in [Streams -> StreamState] /\ fin \in [Attempts -> FinStates]
      /\ bits \in [Attempts -> SUBSET Chunks] /\ owner \in [Attempts -> Ids \cup {None}]
  BY DEF TypeOK
<1>2. strm[s].pc # "idle"
  BY DEF StreamStep, StreamReady, EndStream, WriteChunk, MarkChunk, TakeChunk
<1>3. strm[s].a \in Attempts /\ owner[strm[s].a] \in Ids
  <2>1. CoreTypes /\ CoreReferences
    BY TypeParts DEF Core
  <2> QED
    BY <1>1, <1>2, <2>1, NoneIsFresh DEF CoreReferences, StreamState
<1>4. CASE StreamReady(s)
  <2>1. To(s, "reading", None) /\ UNCHANGED <<bits, fin>>
    BY <1>4 DEF StreamReady, chunks, finish
  <2>2. UNCHANGED <<saved, flags, good, told, control, snap, open, crashes>>
    BY <1>4 DEF StreamReady, disk, finish
  <2> QED
    BY <2>1, <2>2, <1>1, <1>3, ToKeeps DEF StreamPcs
<1>5. CASE EndStream(s)
  <2>1. Leave(s, FALSE) /\ bits' = bits
    BY <1>5 DEF EndStream, chunks
  <2>2. UNCHANGED <<saved, flags, good, told, control, snap, open, crashes>>
    BY <1>5 DEF EndStream, disk
  <2> QED
    BY <2>1, <2>2, <1>1, <1>3, LeaveKeeps
<1>6. CASE WriteChunk(s)
  <2>1. strm[s].pc = "writing" /\ bits' = bits
    BY <1>6 DEF WriteChunk, chunks
  <2>2. UNCHANGED <<saved, flags, good, told, control, snap, open, crashes>>
    BY <1>6 DEF WriteChunk
  <2>3. CASE To(s, "marking", strm[s].c) /\ UNCHANGED fin
    <3>1. strm[s].c \in {None} \cup Chunks
      BY <1>1 DEF StreamState
    <3> QED
      BY <2>1, <2>2, <2>3, <3>1, <1>1, <1>3, <1>6, ToKeeps DEF StreamPcs
  <2>4. CASE Leave(s, FALSE)
    BY <2>1, <2>2, <2>4, <1>1, <1>3, LeaveKeeps
  <2> QED
    BY <1>6, <2>3, <2>4 DEF WriteChunk
<1>7. CASE MarkChunk(s)
  <2>1. NextHeader(s)
    BY <1>7 DEF MarkChunk
  <2>2. /\ \A b \in Attempts \ {strm[s].a} : bits'[b] = bits[b]
        /\ \A b \in Attempts : bits[b] \in SUBSET bits'[b]
    BY <1>7, <1>1, <1>3 DEF MarkChunk
  <2>3. UNCHANGED <<saved, flags, good, told, control, snap, open, crashes>>
    BY <1>7 DEF MarkChunk, disk
  <2> QED
    BY <2>1, <2>2, <2>3, <1>1, <1>3, NextHeaderKeeps
<1>8. ASSUME NEW c \in Chunks, NEW m \in BOOLEAN, TakeChunk(s, c, m)
      PROVE  /\ (To(s, "writing", c) /\ UNCHANGED fin) \/ NextHeader(s)
             /\ bits' = bits
             /\ UNCHANGED <<saved, flags, good, told, control, snap, open, crashes>>
  BY <1>8 DEF TakeChunk, disk
<1>9. CASE \E c \in Chunks, m \in BOOLEAN : TakeChunk(s, c, m)
  <2>1. PICK c \in Chunks, m \in BOOLEAN : TakeChunk(s, c, m)
    BY <1>9
  <2>2. CASE To(s, "writing", c) /\ UNCHANGED fin
    BY <2>1, <2>2, <1>8, <1>1, <1>3, ToKeeps DEF StreamPcs
  <2>3. CASE NextHeader(s)
    BY <2>1, <2>3, <1>8, <1>1, <1>3, NextHeaderKeeps
  <2> QED
    BY <2>1, <2>2, <2>3, <1>8
<1> QED
  BY <1>4, <1>5, <1>6, <1>7, <1>9 DEF StreamStep

\* The types the remaining lemmas use, without the variables they never mention.
Types ==
    /\ part \in [Paths -> FileImage] /\ final \in [Paths -> FileImage]
    /\ saved \in [Ids -> {None} \cup SUBSET Chunks]
    /\ cur \in [Ids -> Attempts \cup {None}]
    /\ owner \in [Attempts -> Ids \cup {None}]
    /\ bits \in [Attempts -> SUBSET Chunks]
    /\ snap \in [Attempts \X Flushers -> {None} \cup SUBSET Chunks]
    /\ open \in [Attempts -> SUBSET Files]
    /\ lost \in [Attempts -> BOOLEAN]
    /\ superseded \in [Attempts -> BOOLEAN]
    /\ cancelled \in [Attempts -> BOOLEAN]
    /\ fin \in [Attempts -> FinStates]
    /\ good \in [Attempts -> BOOLEAN]
    /\ told \in [Attempts -> BOOLEAN \cup {None}]
    /\ \A s \in Streams : strm[s].a \in Attempts \cup {None} /\ strm[s].c \in Chunks \cup {None}
    /\ handler.id \in Ids \cup {None} /\ handler.att \in Attempts \cup {None}
    /\ ended \in SUBSET Ids
    /\ revived \in SUBSET Ids

LEMMA TypesOf == TypeOK => Types
BY DEF TypeOK, Types, StreamState, HandlerState

\* An id has at most one attempt that has not finished, and its destinations are held
\* by that attempt alone.
LEMMA HoldersStep ==
  ASSUME TypeOK, References, Holders, [Next]_vars
  PROVE  Holders'
<1>1. /\ Types /\ CoreReferences /\ None \notin Attempts /\ None \notin Ids
      /\ handler.op # "idle" => handler.id \in Ids /\ handler.att \in Attempts
  BY TypesOf, TypeParts, NoneIsFresh DEF Core, CoreReferences, Types
<1> USE <1>1
<1> USE DEF Types, CoreReferences, Holders, Working, Running, FinStates
\* A step that registers nobody and opens nothing: the finishers it moves.
<1>2. ASSUME NEW a \in Attempts, UNCHANGED <<cur, owner, lost, told>>,
             fin[a] \in Running, fin'[a] \in Running \cup {"done"},
             \A b \in Attempts \ {a} : fin'[b] = fin[b] /\ open'[b] = open[b],
             \A b \in Attempts : owner[b] = None => bits'[b] = bits[b],
             open'[a] = {} \/ (open'[a] = open[a] /\ fin'[a] \in Running \ {"reporting"}),
             fin'[a] \in Working => open'[a] = open[a] /\ fin[a] \in Working,
             handler'.op # "idle" => cur[handler'.id] \in {handler'.att, None}
      PROVE  Holders'
  BY <1>2
<1>3. ASSUME UNCHANGED <<cur, owner, lost, told, fin, open>>,
             \A b \in Attempts : owner[b] = None => bits'[b] = bits[b],
             handler'.op # "idle" => cur[handler'.id] \in {handler'.att, None}
      PROVE  Holders'
  BY <1>3
<1>4. ASSUME NEW t \in Ids, NEW a \in Attempts, NEW d \in BOOLEAN, NewRecvState(t, a, d),
             \A b \in Attempts : fin[b] \in Running => owner[b] # t,
             told' = told, handler'.op = "idle"
      PROVE  Holders'
  <2>1. /\ owner[a] = None
        /\ owner' = [owner EXCEPT ![a] = t] /\ cur' = [cur EXCEPT ![t] = a]
    BY <1>4 DEF NewRecvState, Register
  <2>2. /\ \/ open'[a] = Files /\ ~lost'[a]
           \/ open'[a] = {} /\ lost'[a]
        /\ fin'[a] \in {"idle", "called"}
        /\ \A b \in Attempts \ {a} : /\ fin'[b] = fin[b] /\ bits'[b] = bits[b]
                                     /\ open'[b] = open[b] /\ lost'[b] = lost[b]
    <3> HIDE DEF CoreReferences, Holders, Working, Running, FinStates
    <3>1. /\ open' = [open EXCEPT ![a] = IF d THEN Files ELSE {}]
          /\ lost' = [lost EXCEPT ![a] = ~d]
          /\ bits' = [bits EXCEPT ![a] = LoadedBits(t)]
          /\ fin' = [fin EXCEPT ![a] = IF d /\ LoadedBits(t) = Chunks THEN "called" ELSE "idle"]
      BY <1>4 DEF NewRecvState, Register
    <3>2. CASE d
      BY <3>1, <3>2
    <3>3. CASE ~d
      BY <3>1, <3>3
    <3> QED
      BY <3>2, <3>3
  <2>3. fin[a] = "none" /\ told[a] = None
    BY <2>1
  <2>4. ASSUME NEW b \in Attempts, fin'[b] \in Running PROVE cur'[owner'[b]] = b
    <3>1. CASE b = a
      BY <3>1, <2>1
    <3>2. CASE b # a
      BY <3>2, <2>1, <2>2, <2>4, <1>4
    <3> QED
      BY <3>1, <3>2
  <2>5. ASSUME NEW b \in Attempts
        PROVE  /\ open'[b] # {} => fin'[b] \in Running \ {"reporting"} /\ ~lost'[b]
               /\ (fin'[b] \in Working /\ ~lost'[b]) => open'[b] = Files
               /\ owner'[b] = None => bits'[b] = {} /\ told'[b] = None
    <3>1. CASE b = a
      BY <3>1, <2>1, <2>2
    <3>2. CASE b # a
      <4>1. /\ open'[b] = open[b] /\ lost'[b] = lost[b] /\ fin'[b] = fin[b]
            /\ bits'[b] = bits[b] /\ owner'[b] = owner[b]
        BY <3>2, <2>1, <2>2
      <4> QED
        BY <4>1, <1>4
    <3> QED
      BY <3>1, <3>2
  <2> QED
    BY <1>4, <2>4, <2>5
<1>5. ASSUME NEW t \in Ids, NEW a \in Attempts, NEW d \in BOOLEAN, Offer(t, a, d) PROVE Holders'
  <2>1. cur[t] = None /\ NewRecvState(t, a, d) /\ told' = told /\ handler' = handler
        /\ handler.op = "idle"
    BY <1>5 DEF Offer
  <2>2. \A b \in Attempts : fin[b] \in Running => owner[b] # t
    BY <2>1
  <2>3. NewRecvState(t, a, d) /\ told' = told /\ handler'.op = "idle"
    BY <2>1
  <2> HIDE DEF Types, CoreReferences, Holders, Working, Running, FinStates
  <2> QED
    BY <1>4, <2>2, <2>3
<1>6. ASSUME NEW a \in Attempts, NEW d \in BOOLEAN, ReplaceSuperseded(a, d) PROVE Holders'
  <2>1. /\ handler.op = "supersede" /\ fin[handler.att] = "done"
        /\ NewRecvState(handler.id, a, d) /\ told' = told /\ handler' = Free
    BY <1>6 DEF ReplaceSuperseded
  <2>2. handler.id \in Ids /\ cur[handler.id] \in {handler.att, None}
    BY <2>1
  <2>3. \A b \in Attempts : fin[b] \in Running => owner[b] # handler.id
    BY <2>1, <2>2
  <2>4. handler'.op = "idle"
    BY <2>1 DEF Free, Task
  <2> DEFINE t == handler.id
  <2>5. t \in Ids /\ NewRecvState(t, a, d) /\ \A b \in Attempts : fin[b] \in Running => owner[b] # t
    BY <2>1, <2>2, <2>3
  <2> HIDE DEF t, Types, CoreReferences, Holders, Running, FinStates
  <2> QED
    BY <1>4, <2>1, <2>4, <2>5
<1>7. ASSUME NEW t \in Ids, Supersede(t) \/ Manifest(t) \/ \E drop \in BOOLEAN : Cancel(t, drop)
      PROVE  Holders'
  <2>1. UNCHANGED <<cur, owner, lost, told, fin, open, bits>>
    BY <1>7 DEF Supersede, Manifest, Cancel, chunks, finish
  <2>2. handler'.op # "idle" => cur[handler'.id] \in {handler'.att, None}
    BY <1>7 DEF Supersede, Manifest, Cancel, Task
  <2> QED
    BY <1>3, <2>1, <2>2
<1>8. CASE HandlerSnapshot \/ RemoveParts \/ DiscardState
  <2>1. UNCHANGED <<cur, owner, lost, told, fin, open, bits>>
    BY <1>8 DEF HandlerSnapshot, RemoveParts, DiscardState, chunks, finish
  <2>2. handler'.op # "idle" => handler'.id = handler.id /\ handler'.att = handler.att
                                  /\ handler.op # "idle"
    BY <1>8, TypeParts DEF HandlerSnapshot, RemoveParts, DiscardState, Free, Task, Core, CoreTypes, HandlerState
  <2> QED
    BY <1>3, <2>1, <2>2
<1>9. CASE HandlerRename
  <2>1. /\ UNCHANGED <<cur, owner, lost, told, open, bits>> /\ fin' = Called(fin, handler.att)
        /\ handler.op # "idle"
    BY <1>9 DEF HandlerRename, chunks
  <2>2. handler'.id = handler.id /\ handler'.att = handler.att
    BY <1>9, TypeParts DEF HandlerRename, Core, CoreTypes, HandlerState
  <2>3. CASE fin[handler.att] = "idle"
    <3>1. fin'[handler.att] = "called" /\ \A b \in Attempts \ {handler.att} : fin'[b] = fin[b]
      BY <2>1, <2>3 DEF Called
    <3> QED
      BY <1>2, <2>1, <2>2, <2>3, <3>1
  <2>4. CASE fin[handler.att] # "idle"
    <3>1. fin' = fin
      BY <2>1, <2>4 DEF Called
    <3> QED
      BY <1>3, <2>1, <2>2, <3>1
  <2> QED
    BY <2>3, <2>4
<1>10. ASSUME NEW s \in Streams, NEW t \in Ids, OpenStream(s, t) PROVE Holders'
  BY <1>3, <1>10 DEF OpenStream, chunks, finish, control
<1>11. ASSUME NEW s \in Streams, StreamStep(s) PROVE Holders'
  <2> DEFINE a == strm[s].a
  <2>1. /\ a \in Attempts /\ owner[a] \in Ids /\ fin' \in {fin, Called(fin, a)}
        /\ \A b \in Attempts \ {a} : bits'[b] = bits[b]
        /\ UNCHANGED <<cur, owner, lost, told, open, handler>>
    BY <1>11, StreamKeeps DEF control
  <2> HIDE DEF a
  <2>2. \A b \in Attempts : owner[b] = None => bits'[b] = bits[b]
    BY <2>1
  <2>3. CASE fin[a] = "idle" /\ fin' = Called(fin, a)
    <3>1. fin'[a] = "called" /\ \A b \in Attempts \ {a} : fin'[b] = fin[b]
      BY <2>1, <2>3 DEF Called
    <3> QED
      BY <1>2, <2>1, <2>2, <2>3, <3>1
  <2>4. CASE fin' = fin
    BY <1>3, <2>1, <2>2, <2>4
  <2> QED
    BY <2>1, <2>3, <2>4 DEF Called
<1>14. ASSUME NEW a \in Attempts, TickSnapshot(a) \/ TickRename(a) PROVE Holders'
  BY <1>3, <1>14 DEF TickSnapshot, TickRename, chunks, finish, control
<1>15. ASSUME NEW a \in Attempts, FinishBegin(a) \/ CopyFailures(a) \/ TestComplete(a) \/ FinishSnapshot(a)
       PROVE  Holders'
  <2>1. UNCHANGED <<cur, owner, lost, told, open, bits, handler>>
    BY <1>15 DEF FinishBegin, CopyFailures, TestComplete, FinishSnapshot, chunks, control
  <2>2. \E here \in {"called", "listing", "testing", "flushing", "retiring"},
           there \in {"listing", "testing", "flushing", "saving", "retiring", "retired"} :
           At(a, here, there) /\ (there \in Working => here \in Working)
    BY <1>15 DEF FinishBegin, CopyFailures, TestComplete, FinishSnapshot
  <2>3. /\ fin[a] \in Running /\ fin'[a] \in Running \ {"reporting"}
        /\ fin'[a] \in Working => fin[a] \in Working
        /\ \A b \in Attempts \ {a} : fin'[b] = fin[b]
    BY <2>2 DEF At
  <2> QED
    BY <1>2, <2>1, <2>3
<1>16. ASSUME NEW a \in Attempts, Retire(a) \/ FinishRename(a) PROVE Holders'
  <2>1. UNCHANGED <<cur, owner, lost, told, bits, handler>>
    BY <1>16 DEF Retire, FinishRename, chunks, control
  <2>2. /\ fin[a] \in Running
        /\ \/ fin'[a] \in {"done", "reporting"} /\ open' = [open EXCEPT ![a] = {}]
           \/ fin'[a] = "renaming" /\ open' = open
        /\ \A b \in Attempts \ {a} : fin'[b] = fin[b]
    BY <1>16 DEF Retire, FinishRename, At
  <2> QED
    BY <1>2, <2>1, <2>2
<1>17. ASSUME NEW a \in Attempts, DropBitmap(a) PROVE Holders'
  <2>1. /\ UNCHANGED <<cur, owner, lost, told, bits, handler, open>> /\ open[a] = {}
        /\ fin[a] = "renaming" /\ fin' = [fin EXCEPT ![a] = "reporting"]
    BY <1>17 DEF DropBitmap, chunks, control
  <2> QED
    BY <1>2, <2>1
<1>18. ASSUME NEW a \in Attempts, Report(a) PROVE Holders'
  <2>1. /\ UNCHANGED <<owner, lost, bits, handler, open>>
        /\ fin[a] = "reporting" /\ fin' = [fin EXCEPT ![a] = "done"]
        /\ \A b \in Attempts \ {a} : told'[b] = told[b]
    BY <1>18 DEF Report, disk, chunks
  <2>2. \A t \in Ids : cur'[t] = IF t = owner[a] /\ cur[t] = a THEN None ELSE cur[t]
    BY <1>18 DEF Report
  <2> QED
    BY <2>1, <2>2
<1>19. ASSUME NEW a \in Attempts, NEW f \in Files, RenameFile(a, f) PROVE Holders'
  <2>1. /\ UNCHANGED <<cur, owner, lost, told, bits, handler, fin>>
        /\ fin[a] = "renaming" /\ f \in open[a] /\ open' = [open EXCEPT ![a] = open[a] \ {f}]
    BY <1>19 DEF RenameFile, chunks, control
  <2> QED
    BY <2>1
<1>20. CASE Crash
  BY <1>20 DEF Crash, Free, Task, disk
<1>21. CASE UNCHANGED vars
  BY <1>3, <1>21 DEF vars, chunks, finish, control
<1> HIDE DEF Types, CoreReferences, Holders
<1> QED
  BY <1>5, <1>6, <1>7, <1>8, <1>9, <1>10, <1>11, <1>14, <1>15, <1>16, <1>17, <1>18,
     <1>19, <1>20, <1>21 DEF Next, StreamStep

\* What is being renamed or discarded belongs to an id that has ended.
LEMMA EndingsStep ==
  ASSUME TypeOK, References, Endings, [Next]_vars
  PROVE  Endings' /\ ended \in SUBSET ended'
<1>1. /\ Types /\ CoreReferences /\ None \notin Attempts /\ None \notin Ids
  BY TypesOf, TypeParts, NoneIsFresh DEF Core
<1> USE <1>1
<1> USE DEF Types, CoreReferences, Endings, FinStates
<1>2. ASSUME UNCHANGED <<owner, ended>>,
             \A a \in Attempts : fin'[a] = "renaming" => fin[a] = "renaming",
             handler'.op = "discard" => handler' = handler
      PROVE  Endings' /\ ended \in SUBSET ended'
  BY <1>2
<1>3. ASSUME NEW t \in Ids, NEW a \in Attempts, NEW d \in BOOLEAN, NewRecvState(t, a, d),
             handler'.op = "idle", ended' = ended
      PROVE  Endings' /\ ended \in SUBSET ended'
  <2>1. /\ owner[a] = None /\ owner' = [owner EXCEPT ![a] = t]
        /\ fin'[a] # "renaming" /\ \A b \in Attempts \ {a} : fin'[b] = fin[b]
    <3>1. fin' = [fin EXCEPT ![a] = IF d /\ LoadedBits(t) = Chunks THEN "called" ELSE "idle"]
      BY <1>3 DEF NewRecvState, Register
    <3> QED
      BY <1>3, <3>1 DEF NewRecvState, Register
  <2> QED
    BY <1>3, <2>1
<1>4. ASSUME NEW t \in Ids, NEW a \in Attempts, NEW d \in BOOLEAN, Offer(t, a, d)
      PROVE  Endings' /\ ended \in SUBSET ended'
  BY <1>3, <1>4 DEF Offer
<1>5. ASSUME NEW a \in Attempts, NEW d \in BOOLEAN, ReplaceSuperseded(a, d)
      PROVE  Endings' /\ ended \in SUBSET ended'
  <2>1. /\ handler.id \in Ids /\ NewRecvState(handler.id, a, d) /\ handler'.op = "idle"
        /\ ended' = ended
    BY <1>5 DEF ReplaceSuperseded, Free, Task
  <2> QED
    BY <1>3, <2>1
<1>7. ASSUME NEW t \in Ids, Supersede(t) \/ Manifest(t) \/ \E drop \in BOOLEAN : Cancel(t, drop)
      PROVE  Endings' /\ ended \in SUBSET ended'
  BY <1>2, <1>7 DEF Supersede, Manifest, Cancel, Task, finish, history
<1>8. CASE HandlerSnapshot \/ DiscardState
  <2>1. UNCHANGED <<owner, ended, fin>> /\ handler'.op # "discard"
    BY <1>8, TypeParts
       DEF HandlerSnapshot, DiscardState, Free, Task, Core, CoreTypes, HandlerState, finish, history
  <2> QED
    BY <1>2, <2>1
<1>9. CASE HandlerRename
  <2>1. UNCHANGED <<owner, ended>> /\ fin' = Called(fin, handler.att) /\ handler'.op # "discard"
    BY <1>9, TypeParts DEF HandlerRename, Core, CoreTypes, HandlerState, history
  <2> QED
    BY <1>2, <2>1 DEF Called
<1>10. CASE RemoveParts
  <2>1. /\ handler.id \in Ids /\ UNCHANGED <<owner, fin>>
        /\ \/ handler'.op = "discard" /\ handler'.id = handler.id /\ ended' = ended \cup {handler.id}
           \/ handler'.op = "idle" /\ ended' = ended
    BY <1>10, TypeParts DEF RemoveParts, Free, Task, Core, CoreTypes, HandlerState, finish
  <2> QED
    BY <2>1
<1>11. ASSUME NEW s \in Streams, NEW t \in Ids, OpenStream(s, t)
       PROVE  Endings' /\ ended \in SUBSET ended'
  BY <1>2, <1>11 DEF OpenStream, finish, control, history
<1>12. ASSUME NEW s \in Streams, StreamStep(s) PROVE Endings' /\ ended \in SUBSET ended'
  BY <1>2, <1>12, StreamKeeps DEF Called, control, history
<1>14. ASSUME NEW a \in Attempts,
              \/ TickSnapshot(a) \/ TickRename(a) \/ FinishBegin(a) \/ CopyFailures(a)
              \/ TestComplete(a) \/ FinishSnapshot(a) \/ Retire(a) \/ DropBitmap(a) \/ Report(a)
       PROVE  Endings' /\ ended \in SUBSET ended'
  <2>1. UNCHANGED <<owner, ended, handler>>
    BY <1>14 DEF TickSnapshot, TickRename, FinishBegin, CopyFailures, TestComplete, FinishSnapshot,
                 Retire, DropBitmap, Report, control, history
  <2>2. \/ fin' = fin
        \/ \E there \in FinStates \ {"renaming"} : fin' = [fin EXCEPT ![a] = there]
    <3>1. CASE TickSnapshot(a) \/ TickRename(a)
      BY <3>1 DEF TickSnapshot, TickRename, finish
    <3>2. CASE FinishBegin(a)
      BY <3>2 DEF FinishBegin, At
    <3>3. CASE CopyFailures(a) \/ TestComplete(a)
      BY <3>3 DEF CopyFailures, TestComplete, At
    <3>4. CASE FinishSnapshot(a)
      BY <3>4 DEF FinishSnapshot, At
    <3>5. CASE Retire(a) \/ DropBitmap(a)
      BY <3>5 DEF Retire, DropBitmap, At
    <3>6. CASE Report(a)
      BY <3>6 DEF Report, At
    <3> QED
      BY <1>14, <3>1, <3>2, <3>3, <3>4, <3>5, <3>6
  <2>3. \A b \in Attempts : fin'[b] = "renaming" => fin[b] = "renaming"
    BY <2>2
  <2> QED
    BY <1>2, <2>1, <2>3
<1>15. ASSUME NEW a \in Attempts, FinishRename(a) PROVE Endings' /\ ended \in SUBSET ended'
  <2>1. /\ UNCHANGED <<owner, handler>> /\ owner[a] \in Ids
        /\ ended' = IF good[a] THEN ended \cup {owner[a]} ELSE ended
        /\ fin' = [fin EXCEPT ![a] = IF good[a] THEN "renaming" ELSE "reporting"]
    BY <1>15 DEF FinishRename, At
  <2> QED
    BY <2>1
<1>19. ASSUME NEW a \in Attempts, NEW f \in Files, RenameFile(a, f)
       PROVE  Endings' /\ ended \in SUBSET ended'
  BY <1>2, <1>19 DEF RenameFile, control, history
<1>20. CASE Crash
  BY <1>20 DEF Crash, Free, Task, history
<1>21. CASE UNCHANGED vars
  BY <1>2, <1>21 DEF vars, finish, control, history
<1> HIDE DEF Types, CoreReferences, Endings
<1> QED
  BY <1>4, <1>5, <1>7, <1>8, <1>9, <1>10, <1>11, <1>12, <1>14, <1>15, <1>19, <1>20, <1>21
     DEF Next, StreamStep

\* Two attempts that have not finished and would write to one path are one attempt.
LEMMA OneHolder ==
  ASSUME TypeOK, References, Holders, DistinctDestinations,
         NEW a \in Attempts, NEW b \in Attempts, NEW f \in Files, NEW g \in Files,
         fin[a] \in Running, fin[b] \in Running, PathOf(owner[a], f) = PathOf(owner[b], g)
  PROVE  a = b /\ f = g
<1>1. owner[a] \in Ids /\ owner[b] \in Ids
  BY TypesOf, TypeParts DEF Core, CoreReferences, Types, Working, Running
<1> QED
  BY <1>1 DEF Holders, DistinctDestinations

\* newRecvState only creates the parts that are missing.
LEMMA NewStateKeepsParts ==
  ASSUME TypeOK, NEW t \in Ids, NEW a \in Attempts, NEW d \in BOOLEAN, NewRecvState(t, a, d)
  PROVE  /\ \A q \in Paths : part[q] # None => part'[q] = part[q]
         /\ \A f \in Files : part'[PathOf(t, f)] # None
         /\ \A u \in Ids, c \in Chunks : Holds(part, u, c) => Holds(part', u, c)
<1>1. part' = [q \in Paths |-> IF q \in DestOf(t) /\ part[q] = None THEN Empty ELSE part[q]]
  BY DEF NewRecvState, Register
<1>2. Empty # None
  BY NoneIsNoValue DEF Empty, Content
<1>3. \A q \in Paths : part[q] # None => part'[q] = part[q]
  BY <1>1
<1>4. \A f \in Files : PathOf(t, f) \in Paths /\ PathOf(t, f) \in DestOf(t)
  BY PathOfType DEF DestOf
<1>5. \A u \in Ids, c \in Chunks : PathOf(u, c[1]) \in Paths
  <2>1. \A c \in Chunks : c[1] \in Files
    OBVIOUS
  <2> QED
    BY <2>1, PathOfType
<1> QED
  BY <1>1, <1>2, <1>3, <1>4, <1>5 DEF Holds

\* A stream that writes has its part open: the bytes land there, never in the final
\* file, and make the chunk's mark true.
LEMMA WriteLands ==
  ASSUME TypeOK, References, PartsOpen, DistinctDestinations,
         NEW s \in Streams, WriteChunk(s)
  PROVE  /\ final' = final
         /\ \A q \in Paths : part[q] # None => part'[q] # None
         /\ \A u \in Ids, c \in Chunks : Holds(part, u, c) => Holds(part', u, c)
         /\ strm'[s].pc = "marking" => Holds(part', owner[strm[s].a], strm[s].c)
<1> DEFINE a == strm[s].a
           c == strm[s].c
           p == PathOf(owner[a], c[1])
<1>1. /\ a \in Attempts /\ owner[a] \in Ids /\ Types /\ None \notin Attempts
      /\ None \notin Chunks /\ strm[s].pc = "writing"
  BY TypesOf, StreamKeeps, NoneIsFresh DEF StreamStep, WriteChunk
<1>2. c \in Chunks /\ c[1] \in Files /\ c[2] \in Slots /\ p \in Paths
  BY <1>1, PathOfType DEF References, Types
<1>3. CASE c[1] \notin open[a]
  <2>1. part' = part /\ final' = final /\ Leave(s, FALSE)
    BY <1>3 DEF WriteChunk
  <2>2. strm'[s].pc = "done"
    BY <2>1, <1>1, LeaveKeeps DEF TypeOK
  <2> QED
    BY <2>1, <2>2
<1>4. CASE c[1] \in open[a]
  <2>1. part[p] # None
    BY <1>1, <1>4 DEF PartsOpen
  <2>2. part' = [part EXCEPT ![p] = Land(part[p], c, a)] /\ final' = final
    BY <1>4, <2>1 DEF WriteChunk
  <2>3. part[p] \in [Slots -> Content]
    BY <1>1, <1>2, <2>1 DEF Types, FileImage
  <2>4. /\ Land(part[p], c, a)[c[2]] = Mark(owner[a], c[1])
        /\ \A k \in Slots : k # c[2] => Land(part[p], c, a)[k] = part[p][k]
        /\ Land(part[p], c, a) # None
    <3>1. Land(part[p], c, a) \in [Slots -> Content]
      BY <2>3, <1>1, <1>2 DEF Land, Mark, Content
    <3> QED
      BY <3>1, <2>3, <1>2, NoneIsNoValue DEF Land
  <2>5. /\ part'[p] = Land(part[p], c, a)
        /\ \A q \in Paths : q # p => part'[q] = part[q]
    BY <1>1, <1>2, <2>2 DEF Types
  <2>6. ASSUME NEW u \in Ids, NEW e \in Chunks, Holds(part, u, e)
        PROVE  Holds(part', u, e)
    <3>1. e[1] \in Files /\ e[2] \in Slots /\ PathOf(u, e[1]) \in Paths
      BY PathOfType
    <3>2. CASE PathOf(u, e[1]) # p
      BY <2>5, <2>6, <3>1, <3>2 DEF Holds
    <3>3. CASE PathOf(u, e[1]) = p
      <4>1. u = owner[a] /\ e[1] = c[1]
        BY <3>1, <3>3, <1>1, <1>2 DEF DistinctDestinations
      <4>2. part'[p] # None
        BY <2>4, <2>5
      <4>3. part'[p][e[2]] = Mark(u, e[1])
        <5>1. CASE e[2] = c[2]
          BY <2>4, <2>5, <4>1, <5>1
        <5>2. CASE e[2] # c[2]
          BY <2>4, <2>5, <2>6, <3>1, <3>3, <5>2 DEF Holds
        <5> QED
          BY <5>1, <5>2
      <4> QED
        BY <3>3, <4>2, <4>3 DEF Holds
    <3> QED
      BY <3>2, <3>3
  <2>7. \A q \in Paths : part[q] # None => part'[q] # None
    BY <2>4, <2>5
  <2>8. Holds(part', owner[a], c)
    BY <2>4, <2>5 DEF Holds
  <2> QED
    BY <2>2, <2>6, <2>7, <2>8
<1> QED
  BY <1>3, <1>4

\* A transfer's parts go only when they are discarded, or renamed into place.
LEMMA PartsKept ==
  ASSUME TypeOK, References, PartsOpen, DistinctDestinations, [Next]_vars, NEW u \in Ids,
         ~(RemoveParts /\ handler.drop /\ handler.id = u),
         \A a \in Attempts, f \in Files : RenameFile(a, f) => owner[a] # u
  PROVE  /\ \A f \in Files : part[PathOf(u, f)] # None => part'[PathOf(u, f)] # None
         /\ \A c \in Chunks : Holds(part, u, c) => Holds(part', u, c)
<1>1. Types /\ CoreReferences /\ None \notin Attempts /\ None \notin Ids
  BY TypesOf, TypeParts, NoneIsFresh DEF Core
<1>2. \A f \in Files : PathOf(u, f) \in Paths
  BY PathOfType
<1>3. ASSUME \A f \in Files : part'[PathOf(u, f)] = part[PathOf(u, f)]
      PROVE  \A c \in Chunks : Holds(part, u, c) => Holds(part', u, c)
  <2> SUFFICES ASSUME NEW c \in Chunks, Holds(part, u, c) PROVE Holds(part', u, c)
    OBVIOUS
  <2>1. c[1] \in Files
    OBVIOUS
  <2> QED
    BY <2>1, <1>3 DEF Holds
<1>4. ASSUME NEW t \in Ids, NEW a \in Attempts, NEW d \in BOOLEAN, NewRecvState(t, a, d)
      PROVE  /\ \A f \in Files : part[PathOf(u, f)] # None => part'[PathOf(u, f)] # None
             /\ \A c \in Chunks : Holds(part, u, c) => Holds(part', u, c)
  BY <1>2, <1>4, NewStateKeepsParts
<1>5. CASE part' = part
  BY <1>3, <1>5
<1>6. ASSUME NEW t \in Ids, NEW a \in Attempts, NEW d \in BOOLEAN, Offer(t, a, d)
      PROVE  NewRecvState(t, a, d)
  BY <1>6 DEF Offer
<1>7. ASSUME NEW a \in Attempts, NEW d \in BOOLEAN, ReplaceSuperseded(a, d)
      PROVE  handler.id \in Ids /\ NewRecvState(handler.id, a, d)
  BY <1>1, <1>7 DEF ReplaceSuperseded, CoreReferences, Types
<1>8. ASSUME NEW s \in Streams, WriteChunk(s)
      PROVE  /\ \A f \in Files : part[PathOf(u, f)] # None => part'[PathOf(u, f)] # None
             /\ \A c \in Chunks : Holds(part, u, c) => Holds(part', u, c)
  BY <1>2, <1>8, WriteLands
<1>9. CASE RemoveParts
  <2>1. handler.id \in Ids
    BY <1>1, <1>9 DEF RemoveParts, CoreReferences, Types
  <2>2. CASE handler.drop
    <3>1. handler.id # u
      BY <1>9, <2>2
    <3>2. part' = [q \in Paths |-> IF q \in DestOf(handler.id) THEN None ELSE part[q]]
      BY <1>9, <2>2 DEF RemoveParts
    <3>3. \A f \in Files : PathOf(u, f) \notin DestOf(handler.id)
      BY <2>1, <3>1 DEF DestOf, DistinctDestinations
    <3> QED
      BY <1>2, <1>3, <3>2, <3>3
  <2>3. CASE ~handler.drop
    BY <1>5, <1>9, <2>3 DEF RemoveParts
  <2> QED
    BY <2>2, <2>3
<1>10. ASSUME NEW a \in Attempts, NEW f \in Files, RenameFile(a, f)
       PROVE  \A g \in Files : part'[PathOf(u, g)] = part[PathOf(u, g)]
  <2>1. owner[a] \in Ids
    BY <1>1, <1>10 DEF RenameFile, CoreReferences, Types, FinStates
  <2>3. owner[a] # u
    BY <1>10
  <2>2. \A q \in Paths : q # PathOf(owner[a], f) => part'[q] = part[q]
    BY <1>1, <1>10 DEF RenameFile, Types
  <2> QED
    BY <1>2, <2>1, <2>2, <2>3 DEF DistinctDestinations
<1>11. ASSUME NEW s \in Streams, StreamStep(s), ~WriteChunk(s) PROVE part' = part
  BY <1>11 DEF StreamStep, StreamReady, EndStream, MarkChunk, TakeChunk, disk
<1>12. ASSUME NEW t \in Ids, NEW drop \in BOOLEAN, Supersede(t) \/ Manifest(t) \/ Cancel(t, drop)
       PROVE  part' = part
  BY <1>12 DEF Supersede, Manifest, Cancel, disk
<1>13. ASSUME NEW a \in Attempts,
              \/ TickSnapshot(a) \/ TickRename(a) \/ FinishBegin(a) \/ CopyFailures(a)
              \/ TestComplete(a) \/ FinishSnapshot(a) \/ Retire(a) \/ FinishRename(a)
              \/ DropBitmap(a) \/ Report(a)
       PROVE  part' = part
  BY <1>13 DEF TickSnapshot, TickRename, FinishBegin, CopyFailures, TestComplete, FinishSnapshot,
               Retire, FinishRename, DropBitmap, Report, disk
<1>14. ASSUME NEW s \in Streams, NEW t \in Ids, OpenStream(s, t) PROVE part' = part
  BY <1>14 DEF OpenStream, disk
<1>15. CASE HandlerSnapshot \/ HandlerRename \/ DiscardState \/ Crash \/ UNCHANGED vars
  BY <1>5, <1>15 DEF HandlerSnapshot, HandlerRename, DiscardState, Crash, vars, disk
<1> QED
  BY <1>3, <1>4, <1>5, <1>6, <1>7, <1>8, <1>9, <1>10, <1>11, <1>12, <1>13, <1>14, <1>15
     DEF Next, StreamStep

\* What is held open exists: a part goes only after its handle was closed.
LEMMA PartsOpenStep ==
  ASSUME TypeOK, References, Holders, PartsOpen, DistinctDestinations, [Next]_vars
  PROVE  PartsOpen'
<1>1. Types /\ CoreReferences /\ None \notin Attempts /\ None \notin Ids
  BY TypesOf, TypeParts, NoneIsFresh DEF Core
<1>2. ASSUME NEW b \in Attempts, NEW f \in open[b]
      PROVE  f \in Files /\ owner[b] \in Ids /\ fin[b] \in Running /\ fin[b] # "done"
  BY <1>1 DEF Types, CoreReferences, Holders, Working, Running
<1>3. ASSUME NEW b \in Attempts, NEW f \in open[b],
             \A a \in Attempts, g \in Files : ~RenameFile(a, g)
      PROVE  part'[PathOf(owner[b], f)] # None
  <2>1. ~(RemoveParts /\ handler.drop /\ handler.id = owner[b])
    <3> SUFFICES ASSUME RemoveParts, handler.id = owner[b] PROVE FALSE
      OBVIOUS
    <3>1. handler.op # "idle" /\ handler.att \in Attempts /\ fin[handler.att] = "done"
      BY <1>1 DEF RemoveParts, CoreReferences, Types
    <3>2. cur[owner[b]] = b /\ cur[owner[b]] \in {handler.att, None}
      BY <1>2, <3>1 DEF Holders
    <3> QED
      BY <1>1, <1>2, <3>1, <3>2
  <2> QED
    BY <1>2, <1>3, <2>1, PartsKept DEF PartsOpen
<1>4. ASSUME \A b \in Attempts : open'[b] \in SUBSET open[b], owner' = owner,
             \A a \in Attempts, g \in Files : ~RenameFile(a, g)
      PROVE  PartsOpen'
  BY <1>3, <1>4 DEF PartsOpen
<1>5. ASSUME NEW t \in Ids, NEW a \in Attempts, NEW d \in BOOLEAN, NewRecvState(t, a, d)
      PROVE  PartsOpen'
  <2>1. /\ owner[a] = None
        /\ owner' = [owner EXCEPT ![a] = t]
        /\ open' = [open EXCEPT ![a] = IF d THEN Files ELSE {}]
    BY <1>5 DEF NewRecvState, Register
  <2>2. owner'[a] = t /\ open'[a] \in SUBSET Files
    BY <1>1, <2>1 DEF Types
  <2>3. \A b \in Attempts \ {a} : owner'[b] = owner[b] /\ open'[b] = open[b]
    BY <1>1, <2>1 DEF Types
  <2>4. \A f \in open'[a] : part'[PathOf(t, f)] # None
    BY <1>5, <2>2, NewStateKeepsParts
  <2>5. ASSUME NEW b \in Attempts \ {a}, NEW f \in open[b] PROVE part'[PathOf(owner[b], f)] # None
    <3>1. part[PathOf(owner[b], f)] # None /\ PathOf(owner[b], f) \in Paths
      BY <1>2, PathOfType DEF PartsOpen
    <3> QED
      BY <1>5, <3>1, NewStateKeepsParts
  <2> QED
    BY <2>2, <2>3, <2>4, <2>5 DEF PartsOpen
<1>6. ASSUME NEW t \in Ids, NEW a \in Attempts, NEW d \in BOOLEAN, Offer(t, a, d) PROVE PartsOpen'
  BY <1>5, <1>6 DEF Offer
<1>7. ASSUME NEW a \in Attempts, NEW d \in BOOLEAN, ReplaceSuperseded(a, d) PROVE PartsOpen'
  <2>1. handler.id \in Ids /\ NewRecvState(handler.id, a, d)
    BY <1>1, <1>7 DEF ReplaceSuperseded, CoreReferences, Types
  <2> QED
    BY <2>1, <1>5
<1>8. ASSUME NEW a \in Attempts, NEW f \in Files, RenameFile(a, f) PROVE PartsOpen'
  <2>1. /\ f \in open[a] /\ owner' = owner
        /\ \A b \in Attempts : b # a => open'[b] = open[b]
        /\ open'[a] = open[a] \ {f}
        /\ \A q \in Paths : q # PathOf(owner[a], f) => part'[q] = part[q]
    BY <1>1, <1>8 DEF RenameFile, control, history, Types
  <2>2. ASSUME NEW b \in Attempts, NEW g \in open'[b] PROVE part'[PathOf(owner[b], g)] # None
    <3>1. g \in open[b] /\ ~(b = a /\ g = f)
      BY <2>1
    <3>2. PathOf(owner[b], g) # PathOf(owner[a], f)
      BY <1>2, <2>1, <3>1, OneHolder
    <3>3. PathOf(owner[b], g) \in Paths /\ part[PathOf(owner[b], g)] # None
      BY <1>2, <3>1, PathOfType DEF PartsOpen
    <3> QED
      BY <2>1, <3>2, <3>3
  <2> QED
    BY <2>1, <2>2 DEF PartsOpen
<1>9. ASSUME NEW s \in Streams, StreamStep(s) PROVE open' = open /\ owner' = owner
  BY <1>9, StreamKeeps DEF control, history
<1>10. ASSUME NEW t \in Ids, NEW drop \in BOOLEAN, Supersede(t) \/ Manifest(t) \/ Cancel(t, drop)
       PROVE  open' = open /\ owner' = owner
  BY <1>10 DEF Supersede, Manifest, Cancel
<1>11. ASSUME NEW a \in Attempts,
              \/ TickSnapshot(a) \/ TickRename(a) \/ FinishBegin(a) \/ CopyFailures(a)
              \/ TestComplete(a) \/ FinishSnapshot(a) \/ Retire(a) \/ FinishRename(a)
              \/ DropBitmap(a) \/ Report(a)
       PROVE  owner' = owner /\ \A b \in Attempts : open'[b] \in SUBSET open[b]
  BY <1>1, <1>11 DEF TickSnapshot, TickRename, FinishBegin, CopyFailures, TestComplete,
     FinishSnapshot, Retire, FinishRename, DropBitmap, Report, control, Types
<1>12. ASSUME NEW s \in Streams, NEW t \in Ids, OpenStream(s, t) PROVE open' = open /\ owner' = owner
  BY <1>12 DEF OpenStream, control, history
<1>13. HandlerSnapshot \/ HandlerRename \/ RemoveParts \/ DiscardState \/ Crash \/ UNCHANGED vars
         => owner' = owner /\ \A b \in Attempts : open'[b] \in SUBSET open[b]
  BY DEF HandlerSnapshot, HandlerRename, RemoveParts, DiscardState, Crash, vars, control
<1> QED
  BY <1>4, <1>6, <1>7, <1>8, <1>9, <1>10, <1>11, <1>12, <1>13 DEF Next, StreamStep

\* What is held of a file stays held while the handle is open.
LEMMA HoldsKept ==
  ASSUME TypeOK, References, Holders, PartsOpen, DistinctDestinations, [Next]_vars,
         NEW b \in Attempts, NEW c \in Chunks, c[1] \in open[b], c[1] \in open'[b],
         Holds(part, owner[b], c)
  PROVE  Holds(part', owner[b], c)
<1>1. Types /\ CoreReferences /\ None \notin Attempts /\ None \notin Ids
  BY TypesOf, TypeParts, NoneIsFresh DEF Core
<1>2. owner[b] \in Ids /\ fin[b] \in Running /\ fin[b] # "done" /\ c[1] \in Files
  BY <1>1 DEF Types, CoreReferences, Holders, Working, Running
<1>3. ~(RemoveParts /\ handler.drop /\ handler.id = owner[b])
  <2> SUFFICES ASSUME RemoveParts, handler.id = owner[b] PROVE FALSE
    OBVIOUS
  <2>1. handler.op # "idle" /\ handler.att \in Attempts /\ fin[handler.att] = "done"
    BY <1>1 DEF RemoveParts, CoreReferences, Types
  <2>2. cur[owner[b]] = b /\ cur[owner[b]] \in {handler.att, None}
    BY <1>2, <2>1 DEF Holders
  <2> QED
    BY <1>1, <1>2, <2>1, <2>2
<1>4. CASE \A a \in Attempts, f \in Files : RenameFile(a, f) => owner[a] # owner[b]
  BY <1>2, <1>3, <1>4, PartsKept
<1>5. ASSUME NEW a \in Attempts, NEW f \in Files, RenameFile(a, f), owner[a] = owner[b]
      PROVE  Holds(part', owner[b], c)
  <2>1. fin[a] = "renaming" /\ fin[a] \in Running
    BY <1>5 DEF RenameFile, Running
  <2>2. a = b
    BY <1>2, <1>5, <2>1, OneHolder
  <2>3. c[1] # f
    <3>1. open' = [open EXCEPT ![a] = open[a] \ {f}]
      BY <1>5 DEF RenameFile
    <3> QED
      BY <1>1, <2>2, <3>1 DEF Types
  <2>4. PathOf(owner[b], c[1]) # PathOf(owner[b], f) /\ PathOf(owner[b], c[1]) \in Paths
    BY <1>2, <2>3, PathOfType DEF DistinctDestinations
  <2>5. part'[PathOf(owner[b], c[1])] = part[PathOf(owner[b], c[1])]
    BY <1>1, <1>5, <2>4 DEF RenameFile, Types
  <2> QED
    BY <2>5 DEF Holds
<1> QED
  BY <1>4, <1>5

\* Every chunk a bitmap claims, and every chunk about to be marked, is in its part
\* file.
LEMMA ClaimsStep ==
  ASSUME TypeOK, References, Registry, DiskState, DistinctDestinations, [Next]_vars
  PROVE  Claims'
<1>1. Types /\ CoreReferences /\ None \notin Attempts /\ None \notin Ids /\ None \notin Chunks
  BY TypesOf, TypeParts, NoneIsFresh DEF Core
<1>2. \A u \in Ids \ ended', c \in Chunks :
         u \notin ended /\ (Holds(part, u, c) => Holds(part', u, c))
  <2>1. ended \in SUBSET ended'
    BY EndingsStep DEF Registry
  <2>2. RemoveParts /\ handler.drop => handler.id \in ended'
    BY DEF RemoveParts
  <2>3. \A a \in Attempts, f \in Files : RenameFile(a, f) => owner[a] \in ended
    BY DEF RenameFile, Registry, Endings
  <2> QED
    BY <2>1, <2>2, <2>3, PartsKept DEF DiskState
<1>3. \A b \in Attempts, c \in Chunks :
         c[1] \in open[b] /\ c[1] \in open'[b] /\ Holds(part, owner[b], c) => Holds(part', owner[b], c)
  BY HoldsKept DEF Registry, DiskState
<1>4. revived \in SUBSET ended' /\ ended \in SUBSET ended'
  BY EndingsStep DEF Registry, DiskState, Claims, BitmapsAreSound
\* What is claimed afterwards was already there, or was written just now.
<1>5. ASSUME revived' \in SUBSET ended',
             \A u \in Ids \ ended', c \in Chunks :
                /\ (saved'[u] # None /\ c \in saved'[u]) => Holds(part, u, c)
                /\ \A a \in Attempts : owner'[a] = u =>
                     /\ c \in bits'[a] => Holds(part, u, c)
                     /\ \A w \in Flushers : (snap'[a, w] # None /\ c \in snap'[a, w]) => Holds(part, u, c),
             \A a \in Attempts : owner'[a] \notin revived' =>
                \A c \in bits'[a] : c[1] \in open'[a] => Holds(part', owner'[a], c),
             \A s \in Streams :
                (strm'[s].pc = "marking" /\ (owner'[strm'[s].a] \notin ended'
                                             \/ strm'[s].c[1] \in open'[strm'[s].a])) =>
                Holds(part', owner'[strm'[s].a], strm'[s].c)
      PROVE  Claims'
  <2>1. ASSUME NEW u \in Ids \ ended', NEW c \in Chunks
        PROVE  /\ (c \in LoadedBits(u))' => Holds(part', u, c)
               /\ \A a \in Attempts : owner'[a] = u =>
                    /\ c \in bits'[a] => Holds(part', u, c)
                    /\ \A w \in Flushers : (snap'[a, w] # None /\ c \in snap'[a, w]) => Holds(part', u, c)
    BY <1>2, <1>5, <2>1 DEF LoadedBits
  <2>2. BitmapsAreSound'
    BY <1>5, <2>1 DEF BitmapsAreSound
  <2> QED
    BY <1>5, <2>2 DEF Claims
\* The steps that mark nothing and open nothing.
<1>6. ASSUME UNCHANGED <<bits, owner, revived, strm>>,
             \A a \in Attempts : open'[a] \in SUBSET open[a],
             \A u \in Ids : \/ saved'[u] \in {saved[u], None}
                            \/ \E a \in Attempts, w \in Flushers :
                                  owner[a] = u /\ snap[a, w] # None /\ saved'[u] = snap[a, w],
             \A a \in Attempts, w \in Flushers : snap'[a, w] \in {None, snap[a, w], bits[a]}
      PROVE  Claims'
  <2>1. revived' \in SUBSET ended'
    BY <1>4, <1>6
  <2>2. ASSUME NEW u \in Ids \ ended', NEW c \in Chunks, saved'[u] # None, c \in saved'[u]
        PROVE  Holds(part, u, c)
    <3>1. u \notin ended
      BY <1>2
    <3>2. CASE saved'[u] = saved[u]
      BY <2>2, <3>1, <3>2 DEF DiskState, Claims, BitmapsAreSound, LoadedBits
    <3>3. CASE saved'[u] # saved[u]
      <4>1. PICK a \in Attempts, w \in Flushers :
               owner[a] = u /\ snap[a, w] # None /\ saved'[u] = snap[a, w]
        BY <1>6, <2>2, <3>3
      <4> QED
        BY <2>2, <3>1, <4>1 DEF DiskState, Claims, BitmapsAreSound
    <3> QED
      BY <3>2, <3>3
  <2>3. ASSUME NEW u \in Ids \ ended', NEW c \in Chunks, NEW a \in Attempts, owner'[a] = u
        PROVE  /\ c \in bits'[a] => Holds(part, u, c)
               /\ \A w \in Flushers : (snap'[a, w] # None /\ c \in snap'[a, w]) => Holds(part, u, c)
    <3>1. u \notin ended /\ owner[a] = u /\ bits'[a] = bits[a]
      BY <1>2, <1>6, <2>3
    <3>2. c \in bits[a] => Holds(part, u, c)
      BY <3>1 DEF DiskState, Claims, BitmapsAreSound
    <3>3. ASSUME NEW w \in Flushers, snap'[a, w] # None, c \in snap'[a, w] PROVE Holds(part, u, c)
      <4>1. CASE snap'[a, w] = snap[a, w]
        BY <3>1, <3>3, <4>1 DEF DiskState, Claims, BitmapsAreSound
      <4>2. CASE snap'[a, w] = bits[a]
        BY <3>2, <3>3, <4>2
      <4> QED
        BY <1>6, <3>3, <4>1, <4>2
    <3> QED
      BY <3>1, <3>2, <3>3
  <2>4. ASSUME NEW a \in Attempts, owner'[a] \notin revived', NEW c \in bits'[a], c[1] \in open'[a]
        PROVE  Holds(part', owner'[a], c)
    <3>1. /\ owner'[a] = owner[a] /\ owner[a] \notin revived
          /\ c \in bits[a] /\ c[1] \in open[a] /\ c \in Chunks
      BY <1>1, <1>6, <2>4 DEF Types
    <3>2. Holds(part, owner[a], c)
      BY <3>1 DEF DiskState, Claims, BitmapsAreSound
    <3> QED
      BY <1>3, <2>4, <3>1, <3>2
  <2>5. ASSUME NEW s \in Streams, strm'[s].pc = "marking",
               owner'[strm'[s].a] \notin ended' \/ strm'[s].c[1] \in open'[strm'[s].a]
        PROVE  Holds(part', owner'[strm'[s].a], strm'[s].c)
    <3> DEFINE a == strm[s].a
               c == strm[s].c
    <3>1. /\ strm[s].pc = "marking" /\ a \in Attempts /\ c \in Chunks /\ owner[a] \in Ids
          /\ owner' = owner /\ strm' = strm
      <4>1. owner' = owner /\ strm' = strm /\ strm[s].pc = "marking"
        BY <1>6, <2>5
      <4>2. /\ a \in Attempts \cup {None} /\ a # None
            /\ c \in Chunks \cup {None} /\ c # None
        BY <1>1, <4>1 DEF CoreReferences, Types
      <4>3. owner[a] # None
        BY <1>1, <4>2 DEF CoreReferences
      <4> QED
        BY <1>1, <4>1, <4>2, <4>3 DEF Types
    <3> HIDE DEF a, c
    <3>2. owner[a] \notin ended' \/ c[1] \in open'[a]
      BY <2>5, <3>1 DEF a, c
    <3>3. owner[a] \notin ended \/ c[1] \in open[a]
      BY <1>2, <1>6, <3>1, <3>2
    <3>4. Holds(part, owner[a], c)
      BY <3>1, <3>3 DEF DiskState, Claims, a, c
    <3>5. Holds(part', owner[a], c)
      BY <1>2, <1>3, <1>6, <3>1, <3>2, <3>4
    <3> QED
      BY <3>1, <3>5 DEF a, c
  <2> QED
    BY <1>5, <2>1, <2>2, <2>3, <2>4, <2>5
\* The halves of a flush.
<1>7. ASSUME NEW a \in Attempts, NEW w \in Flushers, Snapshot(a, w)
      PROVE  \A b \in Attempts, v \in Flushers : snap'[b, v] \in {None, snap[b, v], bits[b]}
  <2>1. \A b \in Attempts, v \in Flushers :
           snap'[b, v] = snap[b, v] \/ (b = a /\ snap'[b, v] \in {None, bits[a]})
    BY <1>1, <1>7, SnapshotKeeps DEF Types, TypeOK
  <2> QED
    BY <2>1
<1>8. ASSUME NEW a \in Attempts, NEW w \in Flushers, Persist(a, w), owner[a] \in Ids
      PROVE  /\ \A u \in Ids : \/ saved'[u] \in {saved[u], None}
                               \/ \E b \in Attempts, v \in Flushers :
                                     owner[b] = u /\ snap[b, v] # None /\ saved'[u] = snap[b, v]
             /\ \A b \in Attempts, v \in Flushers : snap'[b, v] \in {None, snap[b, v], bits[b]}
  <2>1. /\ \A b \in Attempts, v \in Flushers : snap'[b, v] \in {None, snap[b, v]}
        /\ saved' = saved \/ saved' = [saved EXCEPT ![owner[a]] = snap[a, w]]
    BY <1>1, <1>8, PersistKeeps DEF Types
  <2>2. \A b \in Attempts, v \in Flushers : snap'[b, v] \in {None, snap[b, v], bits[b]}
    BY <2>1
  <2>3. ASSUME NEW u \in Ids
        PROVE  saved'[u] \in {saved[u], None} \/ (owner[a] = u /\ snap[a, w] # None /\ saved'[u] = snap[a, w])
    BY <1>1, <1>8, <2>1 DEF Types
  <2> QED
    BY <2>2, <2>3
<1>9. ASSUME UNCHANGED <<saved, snap>>
      PROVE  /\ \A u \in Ids : \/ saved'[u] \in {saved[u], None}
                               \/ \E a \in Attempts, w \in Flushers :
                                     owner[a] = u /\ snap[a, w] # None /\ saved'[u] = snap[a, w]
             /\ \A a \in Attempts, w \in Flushers : snap'[a, w] \in {None, snap[a, w], bits[a]}
  BY <1>9
<1>10. CASE HandlerSnapshot \/ HandlerRename
  <2>1. handler.att \in Attempts /\ owner[handler.att] \in Ids /\ "handler" \in Flushers
    BY <1>1, <1>10 DEF HandlerSnapshot, HandlerRename, CoreReferences, Types, Flushers
  <2>2. UNCHANGED <<bits, owner, revived, strm, open>>
    BY <1>10 DEF HandlerSnapshot, HandlerRename, chunks, history
  <2>3. CASE HandlerSnapshot
    BY <1>6, <1>7, <2>1, <2>2, <2>3 DEF HandlerSnapshot, disk
  <2>4. CASE HandlerRename
    BY <1>6, <1>8, <2>1, <2>2, <2>4 DEF HandlerRename
  <2> QED
    BY <1>10, <2>3, <2>4
<1>11. ASSUME NEW a \in Attempts, TickSnapshot(a) \/ FinishSnapshot(a) PROVE Claims'
  <2>1. UNCHANGED <<bits, owner, revived, strm, open, saved>>
    BY <1>11 DEF TickSnapshot, FinishSnapshot, disk, control, history
  <2>2. \A b \in Attempts, v \in Flushers : snap'[b, v] \in {None, snap[b, v], bits[b]}
    BY <1>7, <1>11 DEF TickSnapshot, FinishSnapshot, Flushers
  <2> QED
    BY <1>6, <2>1, <2>2
<1>12. ASSUME NEW a \in Attempts, TickRename(a) \/ Retire(a) \/ FinishRename(a) PROVE Claims'
  <2>1. /\ UNCHANGED <<bits, owner, revived, strm>>
        /\ \A b \in Attempts : open'[b] \in SUBSET open[b]
    BY <1>1, <1>12 DEF TickRename, Retire, FinishRename, chunks, control, history, Types
  <2>2. owner[a] \in Ids
    <3>1. owner[a] # None
      BY <1>12, TypeParts DEF TickRename, Retire, FinishRename, At, SnapshotsOK, Core, CoreReferences, Flushers
    <3> QED
      BY <1>1, <3>1 DEF Types
  <2>3. \E w \in Flushers : Persist(a, w)
    BY <1>12 DEF TickRename, Retire, FinishRename, Flushers
  <2> QED
    BY <1>6, <1>8, <2>1, <2>2, <2>3
<1>13. ASSUME NEW t \in Ids, Supersede(t) \/ Manifest(t) \/ \E drop \in BOOLEAN : Cancel(t, drop)
       PROVE  Claims'
  <2>1. UNCHANGED <<bits, owner, revived, strm, open, saved, snap>>
    BY <1>13 DEF Supersede, Manifest, Cancel, disk, chunks, history
  <2> QED
    BY <1>6, <1>9, <2>1
<1>14. CASE RemoveParts \/ UNCHANGED vars
  <2>1. UNCHANGED <<bits, owner, revived, strm, open, saved, snap>>
    BY <1>14 DEF RemoveParts, vars, disk, chunks, control, history
  <2> QED
    BY <1>6, <1>9, <2>1
<1>15. CASE DiscardState
  <2>1. UNCHANGED <<bits, owner, revived, strm, open, snap>>
    BY <1>15 DEF DiscardState, chunks, history
  <2>2. \A u \in Ids : saved'[u] \in {saved[u], None}
    BY <1>1, <1>15 DEF DiscardState, Types
  <2> QED
    BY <1>6, <2>1, <2>2
<1>16. ASSUME NEW a \in Attempts, DropBitmap(a) PROVE Claims'
  <2>1. UNCHANGED <<bits, owner, revived, strm, open, snap>>
    BY <1>16 DEF DropBitmap, chunks, control, history
  <2>2. \A u \in Ids : saved'[u] \in {saved[u], None}
    BY <1>1, <1>16 DEF DropBitmap, Types
  <2> QED
    BY <1>6, <2>1, <2>2
<1>17. ASSUME NEW a \in Attempts,
              FinishBegin(a) \/ CopyFailures(a) \/ TestComplete(a) \/ Report(a)
       PROVE  Claims'
  <2>1. UNCHANGED <<bits, owner, revived, strm, open, saved, snap>>
    BY <1>17 DEF FinishBegin, CopyFailures, TestComplete, Report, disk, chunks, control, history
  <2> QED
    BY <1>6, <1>9, <2>1
<1>18. ASSUME NEW a \in Attempts, NEW f \in Files, RenameFile(a, f) PROVE Claims'
  <2>1. /\ UNCHANGED <<bits, owner, revived, strm, saved, snap>>
        /\ \A b \in Attempts : open'[b] \in SUBSET open[b]
    BY <1>1, <1>18 DEF RenameFile, chunks, control, history, Types
  <2> QED
    BY <1>6, <1>9, <2>1
<1>19. CASE Crash
  <2>1. /\ UNCHANGED <<saved, owner, revived, ended>>
        /\ \A a \in Attempts : bits'[a] = {} /\ open'[a] = {}
        /\ \A a \in Attempts, w \in Flushers : snap'[a, w] = None
        /\ \A s \in Streams : strm'[s].pc # "marking"
    BY <1>19 DEF Crash, disk, history
  <2>2. \A u \in Ids \ ended', c \in Chunks : (saved[u] # None /\ c \in saved[u]) => Holds(part, u, c)
    BY <2>1 DEF DiskState, Claims, BitmapsAreSound, LoadedBits
  <2> QED
    BY <1>4, <1>5, <2>1, <2>2
<1>20. ASSUME NEW s \in Streams, NEW t \in Ids, OpenStream(s, t) PROVE Claims'
  <2>1. UNCHANGED <<saved, bits, snap, owner, ended, revived, part, open>>
    BY <1>20 DEF OpenStream, disk, chunks, control, history
  <2>2. \A r \in Streams : strm'[r] = strm[r] \/ strm'[r].pc = "waiting"
    BY <1>20 DEF OpenStream, TypeOK
  <2>3. ASSUME NEW r \in Streams, strm'[r].pc = "marking" PROVE strm'[r] = strm[r]
    BY <2>2, <2>3
  <2>4. \A r \in Streams :
           (strm'[r].pc = "marking" /\ (owner[strm'[r].a] \notin ended
                                        \/ strm'[r].c[1] \in open[strm'[r].a])) =>
           Holds(part, owner[strm'[r].a], strm'[r].c)
    BY <2>3 DEF DiskState, Claims
  <2>5. BitmapsAreSound
    BY DEF DiskState, Claims
  <2>6. ASSUME NEW u \in Ids \ ended, NEW c \in Chunks
        PROVE  /\ (saved[u] # None /\ c \in saved[u]) => Holds(part, u, c)
               /\ \A a \in Attempts : owner[a] = u =>
                    /\ c \in bits[a] => Holds(part, u, c)
                    /\ \A w \in Flushers : (snap[a, w] # None /\ c \in snap[a, w]) => Holds(part, u, c)
    BY <2>5, <2>6 DEF BitmapsAreSound, LoadedBits
  <2>7. \A a \in Attempts : owner[a] \notin revived =>
           \A c \in bits[a] : c[1] \in open[a] => Holds(part, owner[a], c)
    BY <2>5 DEF BitmapsAreSound
  <2>8. revived \in SUBSET ended
    BY <2>5 DEF BitmapsAreSound
  <2>9. ASSUME NEW u \in Ids \ ended', NEW c \in Chunks
        PROVE  /\ (saved'[u] # None /\ c \in saved'[u]) => Holds(part, u, c)
               /\ \A a \in Attempts : owner'[a] = u =>
                    /\ c \in bits'[a] => Holds(part, u, c)
                    /\ \A w \in Flushers : (snap'[a, w] # None /\ c \in snap'[a, w]) => Holds(part, u, c)
    <3>1. u \in Ids \ ended
      BY <2>1
    <3>2. saved' = saved /\ bits' = bits /\ snap' = snap /\ owner' = owner
      BY <2>1
    <3> QED
      BY <2>6, <3>1, <3>2
  <2>10. /\ part' = part /\ owner' = owner /\ ended' = ended /\ revived' = revived
         /\ open' = open /\ bits' = bits
    BY <2>1
  <2>11. ASSUME NEW r \in Streams, strm'[r].pc = "marking",
                owner'[strm'[r].a] \notin ended' \/ strm'[r].c[1] \in open'[strm'[r].a]
         PROVE  Holds(part', owner'[strm'[r].a], strm'[r].c)
    BY <2>4, <2>10, <2>11
  <2>12. \A a \in Attempts : owner'[a] \notin revived' =>
            \A c \in bits'[a] : c[1] \in open'[a] => Holds(part', owner'[a], c)
    BY <2>7, <2>10
  <2>13. revived' \in SUBSET ended'
    BY <2>8, <2>10
  <2> QED
    BY <1>5, <2>9, <2>11, <2>12, <2>13
<1>21. ASSUME NEW t \in Ids, NEW a \in Attempts, NEW d \in BOOLEAN, NewRecvState(t, a, d),
              UNCHANGED <<saved, snap, strm, ended>>
       PROVE  Claims'
  <2>1. /\ owner[a] = None
        /\ owner' = [owner EXCEPT ![a] = t]
        /\ bits' = [bits EXCEPT ![a] = LoadedBits(t)]
        /\ revived' = IF \A c \in LoadedBits(t) : Holds(part, t, c) THEN revived ELSE revived \cup {t}
        /\ \A b \in Attempts \ {a} : open'[b] = open[b]
    BY <1>21 DEF NewRecvState, Register
  <2>2. \A b \in Attempts \ {a} : owner'[b] = owner[b] /\ bits'[b] = bits[b]
    BY <1>1, <2>1 DEF Types
  <2>3. /\ owner'[a] = t /\ bits'[a] = LoadedBits(t)
        /\ \A w \in Flushers : snap[a, w] = None
    BY <1>1, <2>1, TypeParts DEF Types, SnapshotsOK
  <2>4. ASSUME NEW u \in Ids \ ended', NEW c \in Chunks
        PROVE  saved[u] # None /\ c \in saved[u] => Holds(part, u, c)
    BY <1>2 DEF DiskState, Claims, BitmapsAreSound, LoadedBits
  <2>5. ASSUME NEW u \in Ids \ ended', NEW c \in Chunks, NEW b \in Attempts, owner'[b] = u
        PROVE  /\ c \in bits'[b] => Holds(part, u, c)
               /\ \A w \in Flushers : (snap[b, w] # None /\ c \in snap[b, w]) => Holds(part, u, c)
    <3>1. CASE b = a
      BY <2>3, <2>4, <2>5, <3>1 DEF LoadedBits
    <3>2. CASE b # a
      BY <1>2, <2>2, <2>5, <3>2 DEF DiskState, Claims, BitmapsAreSound
    <3> QED
      BY <3>1, <3>2
  <2>6. \A u \in Ids, c \in Chunks : Holds(part, u, c) => Holds(part', u, c)
    BY <1>21, NewStateKeepsParts
  <2>7. revived' \in SUBSET ended'
    <3>1. CASE t \in ended
      BY <1>4, <1>21, <2>1, <3>1
    <3>2. CASE t \notin ended
      <4>1. \A c \in LoadedBits(t) : c \in Chunks /\ Holds(part, t, c)
        BY <1>1, <3>2 DEF DiskState, Claims, BitmapsAreSound, LoadedBits, Types
      <4> QED
        BY <1>4, <2>1, <4>1
    <3> QED
      BY <3>1, <3>2
  <2>8. ASSUME NEW b \in Attempts, owner'[b] \notin revived', NEW c \in bits'[b], c[1] \in open'[b]
        PROVE  Holds(part', owner'[b], c)
    <3>1. CASE b = a
      <4>1. c \in LoadedBits(t) /\ t \notin revived'
        BY <2>3, <2>8, <3>1
      <4>2. Holds(part, t, c) /\ c \in Chunks
        BY <1>1, <2>1, <4>1 DEF LoadedBits, Types
      <4> QED
        BY <2>3, <2>6, <3>1, <4>2
    <3>2. CASE b # a
      <4>1. /\ c \in bits[b] /\ c[1] \in open[b] /\ owner'[b] = owner[b] /\ owner[b] \notin revived
            /\ c \in Chunks
        BY <1>1, <2>1, <2>2, <2>8, <3>2 DEF Types
      <4>2. Holds(part, owner[b], c)
        BY <4>1 DEF DiskState, Claims, BitmapsAreSound
      <4>3. owner[b] \in Ids
        <5>1. fin[b] \in Running
          BY <4>1 DEF Registry, Holders
        <5> QED
          BY <1>1, <5>1 DEF CoreReferences, Types, Working, Running
      <4> QED
        BY <2>6, <4>1, <4>2, <4>3
    <3> QED
      BY <3>1, <3>2
  <2>9. ASSUME NEW s \in Streams, strm[s].pc = "marking",
               owner'[strm[s].a] \notin ended' \/ strm[s].c[1] \in open'[strm[s].a]
        PROVE  Holds(part', owner'[strm[s].a], strm[s].c)
    <3>1. strm[s].a \in Attempts \ {a} /\ owner[strm[s].a] \in Ids /\ strm[s].c \in Chunks
      BY <1>1, <2>1, <2>9 DEF Types, CoreReferences
    <3>2. owner'[strm[s].a] = owner[strm[s].a] /\ open'[strm[s].a] = open[strm[s].a] /\ ended' = ended
      BY <1>21, <2>1, <2>2, <3>1
    <3>3. Holds(part, owner[strm[s].a], strm[s].c)
      BY <2>9, <3>2 DEF DiskState, Claims
    <3> QED
      BY <2>6, <3>1, <3>2, <3>3
  <2>10. saved' = saved /\ snap' = snap /\ strm' = strm
    BY <1>21
  <2>11. ASSUME NEW u \in Ids \ ended', NEW c \in Chunks
         PROVE  /\ (saved'[u] # None /\ c \in saved'[u]) => Holds(part, u, c)
                /\ \A b \in Attempts : owner'[b] = u =>
                     /\ c \in bits'[b] => Holds(part, u, c)
                     /\ \A w \in Flushers : (snap'[b, w] # None /\ c \in snap'[b, w]) => Holds(part, u, c)
    <3>1. ASSUME NEW b \in Attempts, owner'[b] = u
          PROVE  /\ c \in bits'[b] => Holds(part, u, c)
                 /\ \A w \in Flushers : (snap'[b, w] # None /\ c \in snap'[b, w]) => Holds(part, u, c)
      BY <2>5, <2>10, <3>1
    <3>2. (saved'[u] # None /\ c \in saved'[u]) => Holds(part, u, c)
      BY <2>4, <2>10
    <3> QED
      BY <3>1, <3>2
  <2>12. ASSUME NEW s \in Streams, strm'[s].pc = "marking",
                owner'[strm'[s].a] \notin ended' \/ strm'[s].c[1] \in open'[strm'[s].a]
         PROVE  Holds(part', owner'[strm'[s].a], strm'[s].c)
    BY <2>9, <2>10, <2>12
  <2> QED
    BY <1>5, <2>7, <2>8, <2>11, <2>12
<1>22. ASSUME NEW t \in Ids, NEW a \in Attempts, NEW d \in BOOLEAN, Offer(t, a, d) PROVE Claims'
  BY <1>21, <1>22 DEF Offer
<1>23. ASSUME NEW a \in Attempts, NEW d \in BOOLEAN, ReplaceSuperseded(a, d) PROVE Claims'
  <2>1. /\ handler.id \in Ids /\ NewRecvState(handler.id, a, d)
        /\ UNCHANGED <<saved, snap, strm, ended>>
    BY <1>1, <1>23 DEF ReplaceSuperseded, CoreReferences, Types
  <2> QED
    BY <1>21, <2>1
<1>24. ASSUME NEW s \in Streams, StreamStep(s) PROVE Claims'
  <2> DEFINE a == strm[s].a
             c == strm[s].c
  <2>1. /\ a \in Attempts /\ owner[a] \in Ids
        /\ \A r \in Streams \ {s} : strm'[r] = strm[r]
        /\ strm'[s].a = a
        /\ strm'[s].pc = "marking" => strm'[s].c = c /\ WriteChunk(s)
        /\ \A b \in Attempts \ {a} : bits'[b] = bits[b]
        /\ UNCHANGED <<saved, owner, ended, revived, snap, open>>
    BY <1>24, StreamKeeps DEF control, history
  <2>2. \A u \in Ids, e \in Chunks : Holds(part, u, e) => Holds(part', u, e)
    <3>1. CASE WriteChunk(s)
      BY <3>1, WriteLands DEF DiskState
    <3>2. CASE ~WriteChunk(s)
      <4>1. part' = part
        BY <1>24, <3>2 DEF StreamStep, StreamReady, EndStream, MarkChunk, TakeChunk, disk
      <4> QED
        BY <4>1
    <3> QED
      BY <3>1, <3>2
  <2>3. ASSUME NEW e \in bits'[a]
        PROVE  e \in bits[a] \/ (e = c /\ strm[s].pc = "marking" /\ c \in Chunks)
    <3>1. CASE MarkChunk(s)
      BY <1>1, <2>1, <2>3, <3>1 DEF MarkChunk, Types, CoreReferences
    <3>2. CASE ~MarkChunk(s)
      <4>1. bits' = bits
        BY <1>24, <3>2 DEF StreamStep, StreamReady, EndStream, TakeChunk, WriteChunk, chunks
      <4> QED
        BY <4>1, <2>3
    <3> QED
      BY <3>1, <3>2
  <2>4. ASSUME NEW r \in Streams, strm'[r].pc = "marking",
               owner'[strm'[r].a] \notin ended' \/ strm'[r].c[1] \in open'[strm'[r].a]
        PROVE  Holds(part', owner'[strm'[r].a], strm'[r].c)
    <3>1. CASE r = s
      BY <3>1, <2>1, <2>4, WriteLands DEF DiskState
    <3>2. CASE r # s
      <4>1. /\ strm'[r] = strm[r] /\ owner[strm[r].a] \in Ids /\ strm[r].c \in Chunks
            /\ strm[r].pc = "marking"
        BY <1>1, <3>2, <2>1, <2>4 DEF CoreReferences, Types
      <4>2. Holds(part, owner[strm[r].a], strm[r].c)
        BY <2>1, <2>4, <4>1 DEF DiskState, Claims
      <4> QED
        BY <2>1, <2>2, <4>1, <4>2
    <3> QED
      BY <3>1, <3>2
  <2>5. ASSUME NEW u \in Ids \ ended', NEW e \in Chunks, NEW b \in Attempts, owner[b] = u
        PROVE  /\ e \in bits'[b] => Holds(part, u, e)
               /\ \A w \in Flushers : (snap[b, w] # None /\ e \in snap[b, w]) => Holds(part, u, e)
    <3>1. CASE b = a /\ e \in bits'[b] /\ e \notin bits[b]
      <4>1. e = c /\ strm[s].pc = "marking"
        BY <2>3, <3>1
      <4> QED
        BY <1>2, <2>5, <3>1, <4>1 DEF DiskState, Claims, BitmapsAreSound
    <3>2. CASE ~(b = a /\ e \in bits'[b] /\ e \notin bits[b])
      BY <1>2, <2>1, <2>5, <3>2 DEF DiskState, Claims, BitmapsAreSound
    <3> QED
      BY <3>1, <3>2
  <2>6. ASSUME NEW u \in Ids \ ended', NEW e \in Chunks, saved[u] # None, e \in saved[u]
        PROVE  Holds(part, u, e)
    BY <1>2, <2>6 DEF DiskState, Claims, BitmapsAreSound, LoadedBits
  <2>7. ASSUME NEW b \in Attempts, owner[b] \notin revived, NEW e \in bits'[b], e[1] \in open[b]
        PROVE  Holds(part', owner[b], e)
    <3>1. owner[b] \in Ids
      <4>1. fin[b] \in Running
        BY <2>7 DEF Registry, Holders
      <4> QED
        BY <1>1, <4>1 DEF CoreReferences, Types, Working, Running
    <3>2. Holds(part, owner[b], e) /\ e \in Chunks
      <4>1. CASE e \in bits[b]
        BY <1>1, <2>7, <4>1 DEF DiskState, Claims, BitmapsAreSound, Types
      <4>2. CASE e \notin bits[b]
        <5>1. b = a
          BY <2>1, <2>7, <4>2
        <5>2. e = c /\ strm[s].pc = "marking" /\ c \in Chunks
          BY <2>3, <2>7, <4>2, <5>1
        <5> QED
          BY <2>7, <5>1, <5>2 DEF DiskState, Claims
      <4> QED
        BY <4>1, <4>2
    <3> QED
      BY <2>2, <3>1, <3>2
  <2> HIDE DEF a, c
  <2>8. revived' \in SUBSET ended'
    BY <1>4, <2>1
  <2>9. \A u \in Ids \ ended', e \in Chunks :
              /\ (saved'[u] # None /\ e \in saved'[u]) => Holds(part, u, e)
              /\ \A b \in Attempts : owner'[b] = u =>
                   /\ e \in bits'[b] => Holds(part, u, e)
                   /\ \A w \in Flushers : (snap'[b, w] # None /\ e \in snap'[b, w]) => Holds(part, u, e)
    <3>1. UNCHANGED <<saved, owner, snap>>
      BY <2>1
    <3> QED
      BY <3>1, <2>5, <2>6
  <2>10. \A b \in Attempts : owner'[b] \notin revived' =>
             \A e \in bits'[b] : e[1] \in open'[b] => Holds(part', owner'[b], e)
    BY <2>1, <2>7
  <2> QED
    BY <1>5, <2>4, <2>8, <2>9, <2>10
<1> QED
  BY <1>10, <1>11, <1>12, <1>13, <1>14, <1>15, <1>16, <1>17, <1>18, <1>19, <1>20, <1>22, <1>23,
     <1>24 DEF Next, StreamStep

\* A complete bitmap stays complete: bits are only ever added.
LEMMA TestedStep ==
  ASSUME TypeOK, References, Tested, [Next]_vars
  PROVE  Tested'
<1>1. Types /\ CoreReferences
  BY TypesOf, TypeParts DEF Core
<1> USE <1>1 DEF Types, Tested, FinStates
<1>2. ASSUME \A a \in Attempts : fin'[a] \in {"flushing", "saving"} /\ good'[a] =>
                fin[a] \in {"flushing", "saving"} /\ good[a] /\ bits'[a] = bits[a]
      PROVE  Tested'
  BY <1>2
<1>3. ASSUME NEW t \in Ids, NEW a \in Attempts, NEW d \in BOOLEAN, NewRecvState(t, a, d), good' = good
      PROVE  Tested'
  <2>1. fin' = [fin EXCEPT ![a] = IF d /\ LoadedBits(t) = Chunks THEN "called" ELSE "idle"]
    BY <1>3 DEF NewRecvState, Register
  <2>2. fin'[a] \notin {"flushing", "saving"} /\ \A b \in Attempts \ {a} : fin'[b] = fin[b]
    BY <2>1
  <2>3. \A b \in Attempts \ {a} : bits'[b] = bits[b]
    BY <1>3 DEF NewRecvState, Register
  <2> QED
    BY <1>2, <1>3, <2>2, <2>3
<1>4. ASSUME NEW t \in Ids, NEW a \in Attempts, NEW d \in BOOLEAN, Offer(t, a, d) PROVE Tested'
  BY <1>3, <1>4 DEF Offer
<1>5. ASSUME NEW a \in Attempts, NEW d \in BOOLEAN, ReplaceSuperseded(a, d) PROVE Tested'
  <2>1. handler.id \in Ids /\ NewRecvState(handler.id, a, d) /\ good' = good
    BY <1>5, NoneIsFresh DEF ReplaceSuperseded, CoreReferences
  <2> QED
    BY <1>3, <2>1
<1>6. ASSUME NEW t \in Ids, Supersede(t) \/ Manifest(t) \/ \E drop \in BOOLEAN : Cancel(t, drop)
      PROVE  Tested'
  BY <1>2, <1>6 DEF Supersede, Manifest, Cancel, chunks, finish
<1>7. CASE HandlerSnapshot \/ HandlerRename \/ RemoveParts \/ DiscardState \/ Crash \/ UNCHANGED vars
  <2>1. \A a \in Attempts : fin'[a] \in {"flushing", "saving"} /\ good'[a] =>
                fin[a] \in {"flushing", "saving"} /\ good[a] /\ bits'[a] = bits[a]
    BY <1>7 DEF HandlerSnapshot, HandlerRename, RemoveParts, DiscardState, Crash, Called, vars, chunks, finish
  <2> QED
    BY <1>2, <2>1
<1>8. ASSUME NEW s \in Streams, NEW t \in Ids, OpenStream(s, t) PROVE Tested'
  BY <1>2, <1>8 DEF OpenStream, chunks, finish
<1>9. ASSUME NEW s \in Streams, StreamStep(s) PROVE Tested'
  <2>1. /\ fin' \in {fin, Called(fin, strm[s].a)} /\ good' = good
        /\ \A b \in Attempts : bits[b] \in SUBSET bits'[b]
    BY <1>9, StreamKeeps
  <2>2. \A b \in Attempts : bits'[b] \in SUBSET Chunks
    BY <1>9, TypeStep DEF StreamStep, Next, TypeOK
  <2> QED
    BY <2>1, <2>2 DEF Called
<1>10. ASSUME NEW a \in Attempts,
              \/ TickSnapshot(a) \/ TickRename(a) \/ FinishBegin(a) \/ CopyFailures(a)
              \/ FinishSnapshot(a) \/ Retire(a) \/ FinishRename(a) \/ DropBitmap(a) \/ Report(a)
       PROVE  Tested'
  <2>1. bits' = bits /\ \A b \in Attempts \ {a} : fin'[b] = fin[b] /\ good'[b] = good[b]
    BY <1>10 DEF TickSnapshot, TickRename, FinishBegin, CopyFailures, FinishSnapshot, Retire,
                 FinishRename, DropBitmap, Report, At, chunks, finish
  <2>2. \/ fin'[a] = fin[a] /\ good'[a] = good[a]
        \/ fin[a] = "flushing" /\ fin'[a] = "saving" /\ good'[a] = good[a]
        \/ fin'[a] \notin {"flushing", "saving"}
    BY <1>10 DEF TickSnapshot, TickRename, FinishBegin, CopyFailures, FinishSnapshot, Retire,
                 FinishRename, DropBitmap, Report, At, chunks, finish
  <2> QED
    BY <1>2, <2>1, <2>2
<1>11. ASSUME NEW a \in Attempts, TestComplete(a) PROVE Tested'
  <2>1. /\ bits' = bits /\ \A b \in Attempts \ {a} : fin'[b] = fin[b] /\ good'[b] = good[b]
        /\ good'[a] = Complete(a)
    BY <1>11 DEF TestComplete, At, chunks
  <2> QED
    BY <2>1 DEF Complete
<1>12. ASSUME NEW a \in Attempts, NEW f \in Files, RenameFile(a, f) PROVE Tested'
  BY <1>2, <1>12 DEF RenameFile, chunks
<1> HIDE DEF Types, Tested
<1> QED
  BY <1>4, <1>5, <1>6, <1>7, <1>8, <1>9, <1>10, <1>11, <1>12 DEF Next, StreamStep

Presented == Committing /\ FinalWhole /\ OkMeansDelivered

\* Steps that touch no file under its final name and no part of a transfer that is
\* renaming, and bring no attempt to its commit.
LEMMA PresentedFrame ==
  ASSUME Presented,
         UNCHANGED <<final, owner, told, lost>>,
         revived \in SUBSET revived',
         \A a \in Attempts : fin'[a] \in {"renaming", "reporting"} =>
            fin'[a] = fin[a] /\ good'[a] = good[a] /\ open'[a] = open[a],
         \A a \in Attempts : \A f \in Files :
            fin[a] = "renaming" /\ f \in open[a] /\ Ready(a, f)
              => Whole(part'[PathOf(owner[a], f)], owner[a], f)
  PROVE  Presented'
<1>1. \A a \in Attempts : Sound(a)' => Sound(a)
  BY DEF Sound
<1>2. Committing'
  BY <1>1 DEF Presented, Committing, Ready, InPlace
<1>3. FinalWhole'
  BY DEF Presented, FinalWhole
<1>4. OkMeansDelivered'
  BY DEF Presented, OkMeansDelivered
<1> QED
  BY <1>2, <1>3, <1>4 DEF Presented

LEMMA WholeIsHeld ==
  ASSUME NEW parts \in [Paths -> FileImage], NEW t \in Ids, NEW f \in Files
  PROVE  Whole(parts[PathOf(t, f)], t, f) <=>
           parts[PathOf(t, f)] # None /\ \A k \in Slots : Holds(parts, t, <<f, k>>)
<1> DEFINE file == parts[PathOf(t, f)]
<1>1. file \in {None} \cup [Slots -> Content] /\ Mark(t, f) \in Content
  BY PathOfType DEF FileImage, Mark, Content
<1>2. Whole(file, t, f) => file # None
  BY <1>1, NoneIsNoValue DEF Whole
<1>3. file # None => (Whole(file, t, f) <=> \A k \in Slots : file[k] = Mark(t, f))
  BY <1>1 DEF Whole
<1>4. file # None => \A k \in Slots : Holds(parts, t, <<f, k>>) <=> file[k] = Mark(t, f)
  BY DEF Holds
<1> QED
  BY <1>2, <1>3, <1>4

\* The same for a new attempt, which only creates parts that are missing.
LEMMA NewStateKeepsPresented ==
  ASSUME TypeOK, References, Holders, PartsOpen, Presented,
         NEW t \in Ids, NEW a \in Attempts, NEW d \in BOOLEAN,
         NewRecvState(t, a, d), UNCHANGED <<final, good, told>>
  PROVE  Presented'
<1>1. Types /\ CoreReferences /\ None \notin Attempts /\ None \notin Ids
  BY TypesOf, TypeParts, NoneIsFresh DEF Core
<1>2. /\ owner[a] = None
      /\ owner' = [owner EXCEPT ![a] = t]
      /\ open' = [open EXCEPT ![a] = IF d THEN Files ELSE {}]
      /\ lost' = [lost EXCEPT ![a] = ~d]
      /\ revived \in SUBSET revived'
  BY DEF NewRecvState, Register
<1>3. fin'[a] \in {"idle", "called"} /\ \A b \in Attempts : b # a => fin'[b] = fin[b]
  <2>1. fin' = [fin EXCEPT ![a] = IF d /\ LoadedBits(t) = Chunks THEN "called" ELSE "idle"]
    BY DEF NewRecvState, Register
  <2> QED
    BY <2>1, <1>1 DEF Types
<1>4. \A b \in Attempts : b # a => owner'[b] = owner[b] /\ open'[b] = open[b] /\ lost'[b] = lost[b]
  BY <1>1, <1>2 DEF Types
<1>5. told[a] = None
  BY <1>2 DEF Holders
<1>6. \A q \in Paths : part[q] # None => part'[q] = part[q]
  BY NewStateKeepsParts
<1>7. ASSUME NEW b \in Attempts, fin[b] = "renaming", NEW f \in Files, f \in open[b], Ready(b, f)
      PROVE  Whole(part'[PathOf(owner[b], f)], owner[b], f)
  <2>1. part[PathOf(owner[b], f)] # None
    BY <1>7 DEF PartsOpen
  <2>2. PathOf(owner[b], f) \in Paths
    BY <1>1, <1>7, PathOfType DEF Types, CoreReferences
  <2> QED
    BY <1>6, <1>7, <2>1, <2>2 DEF Ready
<1>8. \A b \in Attempts : b # a /\ Sound(b)' => Sound(b)
  BY <1>2, <1>4 DEF Sound
<1>9. Committing'
  <2>1. ASSUME NEW b \in Attempts, b # a, Sound(b)', fin'[b] = "renaming", NEW f \in Files
        PROVE  IF f \in open'[b] THEN Whole(part'[PathOf(owner'[b], f)], owner'[b], f)
                                 ELSE Whole(final[PathOf(owner'[b], f)], owner'[b], f)
    BY <2>1, <1>3, <1>4, <1>7, <1>8 DEF Presented, Committing, InPlace
  <2>2. ASSUME NEW b \in Attempts, b # a, Sound(b)', good[b], fin'[b] = "reporting", NEW f \in Files
        PROVE  Whole(final[PathOf(owner'[b], f)], owner'[b], f)
    BY <2>2, <1>3, <1>4, <1>8 DEF Presented, Committing, InPlace
  <2> QED
    BY <1>3, <2>1, <2>2 DEF Committing, InPlace, Ready
<1>10. OkMeansDelivered'
  <2>1. ASSUME NEW b \in Attempts, told[b] = TRUE, owner'[b] \notin revived', ~lost'[b], NEW f \in Files
        PROVE  Whole(final[PathOf(owner'[b], f)], owner'[b], f)
    <3>1. b # a
      BY <2>1, <1>5, NoneIsNoValue
    <3> QED
      BY <2>1, <3>1, <1>2, <1>4 DEF Presented, OkMeansDelivered
  <2> QED
    BY <2>1 DEF OkMeansDelivered
<1>11. FinalWhole'
  BY <1>2 DEF Presented, FinalWhole
<1> QED
  BY <1>9, <1>10, <1>11 DEF Presented

\* What a commit renames is whole, so what is presented is whole, and what was
\* reported delivered stays delivered.
LEMMA PresentedStep ==
  ASSUME TypeOK, TypeOK', References, Holders, PartsOpen, Tested, Backed, Presented,
         DistinctDestinations, [Next]_vars
  PROVE  Presented'
<1>1. Types /\ CoreReferences /\ None \notin Attempts /\ None \notin Ids
  BY TypesOf, TypeParts, NoneIsFresh DEF Core
<1>2. ASSUME UNCHANGED <<part, final, owner, told, lost, revived>>,
             \A a \in Attempts : fin'[a] \in {"renaming", "reporting"} =>
                fin'[a] = fin[a] /\ good'[a] = good[a] /\ open'[a] = open[a]
      PROVE  Presented'
  <2>1. \A a \in Attempts : \A f \in Files :
           fin[a] = "renaming" /\ f \in open[a] /\ Ready(a, f)
             => Whole(part'[PathOf(owner[a], f)], owner[a], f)
    BY <1>2 DEF Ready
  <2> QED
    BY <1>2, <2>1, PresentedFrame
<1>3. ASSUME NEW t \in Ids, Supersede(t) \/ Manifest(t) \/ \E drop \in BOOLEAN : Cancel(t, drop)
      PROVE  Presented'
  <2>1. UNCHANGED <<part, final, owner, told, lost, revived, fin, good, open>>
    BY <1>3 DEF Supersede, Manifest, Cancel, disk, finish, history
  <2> QED
    BY <1>2, <2>1
<1>4. CASE HandlerSnapshot \/ HandlerRename \/ DiscardState
  <2>1. /\ UNCHANGED <<part, final, owner, told, lost, revived, good, open>>
        /\ fin' = fin \/ fin' = Called(fin, handler.att)
    BY <1>4 DEF HandlerSnapshot, HandlerRename, DiscardState, disk, finish, history, flags
  <2>2. \A a \in Attempts : fin'[a] \in {"renaming", "reporting"} => fin'[a] = fin[a]
    BY <1>1, <2>1 DEF Called, Types
  <2> QED
    BY <1>2, <2>1, <2>2
<1>9. ASSUME NEW s \in Streams, NEW t \in Ids, OpenStream(s, t) PROVE Presented'
  BY <1>2, <1>9 DEF OpenStream, disk, flags, finish, control, history
<1>14. ASSUME NEW a \in Attempts, TickSnapshot(a) \/ TickRename(a) PROVE Presented'
  <2>1. UNCHANGED <<part, final, owner, told, lost, revived, fin, good, open>>
    BY <1>14 DEF TickSnapshot, TickRename, disk, finish, control, history
  <2> QED
    BY <1>2, <2>1
<1>15. ASSUME NEW a \in Attempts,
              \/ FinishBegin(a) \/ CopyFailures(a) \/ TestComplete(a) \/ FinishSnapshot(a) \/ Retire(a)
       PROVE  Presented'
  <2>1. UNCHANGED <<part, final, owner, told, lost, revived>>
    BY <1>15 DEF FinishBegin, CopyFailures, TestComplete, FinishSnapshot, Retire, disk, control, history
  <2>2. /\ \A b \in Attempts \ {a} : fin'[b] = fin[b] /\ good'[b] = good[b] /\ open'[b] = open[b]
        /\ fin'[a] \notin {"renaming", "reporting"}
    BY <1>1, <1>15 DEF FinishBegin, CopyFailures, TestComplete, FinishSnapshot, Retire, At, Types
  <2> QED
    BY <1>2, <2>1, <2>2
<1>20. CASE Crash
  <2>1. UNCHANGED <<part, final, owner, told, lost, revived>>
    BY <1>20 DEF Crash, disk, history
  <2>2. \A a \in Attempts : fin'[a] \in {"none", "done"}
    BY <1>20 DEF Crash
  <2> QED
    BY <1>2, <2>1, <2>2
<1>21. CASE UNCHANGED vars
  BY <1>2, <1>21 DEF vars, disk, flags, finish, control, history
<1>22. ASSUME NEW t \in Ids, NEW a \in Attempts, NEW d \in BOOLEAN, Offer(t, a, d)
       PROVE  Presented'
  BY <1>22, NewStateKeepsPresented DEF Offer
<1>23. ASSUME NEW a \in Attempts, NEW d \in BOOLEAN, ReplaceSuperseded(a, d) PROVE Presented'
  <2>1. handler.id \in Ids /\ NewRecvState(handler.id, a, d) /\ UNCHANGED <<final, good, told>>
    BY <1>1, <1>23 DEF ReplaceSuperseded, CoreReferences, Types
  <2> QED
    BY <2>1, NewStateKeepsPresented
<1>10. ASSUME NEW s \in Streams, StreamStep(s) PROVE Presented'
  <2>1. /\ strm[s].a \in Attempts
        /\ fin' \in {fin, Called(fin, strm[s].a)}
        /\ UNCHANGED <<owner, good, told, open, lost, revived>>
    BY <1>10, StreamKeeps DEF control, history
  <2>2. \A a \in Attempts : fin'[a] \in {"renaming", "reporting"} => fin'[a] = fin[a]
    BY <2>1, <1>1 DEF Called, Types
  <2>3. final' = final
    <3>1. CASE WriteChunk(s)
      BY <3>1, WriteLands
    <3>2. CASE ~WriteChunk(s)
      BY <1>10, <3>2 DEF StreamStep, StreamReady, EndStream, MarkChunk, TakeChunk, disk
    <3> QED
      BY <3>1, <3>2
  <2>4. ASSUME NEW a \in Attempts, NEW f \in Files, fin[a] = "renaming", f \in open[a], Ready(a, f)
        PROVE  Whole(part'[PathOf(owner[a], f)], owner[a], f)
    <3>1. CASE WriteChunk(s)
      <4>1. owner[a] \in Ids
        BY <1>1, <2>4 DEF Types, CoreReferences
      <4>2. part[PathOf(owner[a], f)] # None /\ \A k \in Slots : Holds(part, owner[a], <<f, k>>)
        BY <4>1, <2>4, <1>1, WholeIsHeld DEF Ready, Types
      <4>3. part'[PathOf(owner[a], f)] # None /\ \A k \in Slots : Holds(part', owner[a], <<f, k>>)
        BY <4>1, <4>2, <3>1, WriteLands, PathOfType
      <4>4. part' \in [Paths -> FileImage]
        BY DEF TypeOK
      <4> QED
        BY <4>1, <4>3, <4>4, WholeIsHeld
    <3>2. CASE ~WriteChunk(s)
      <4>1. part' = part
        BY <1>10, <3>2 DEF StreamStep, StreamReady, EndStream, MarkChunk, TakeChunk, disk
      <4> QED
        BY <4>1, <2>4 DEF Ready
    <3> QED
      BY <3>1, <3>2
  <2> QED
    BY <2>1, <2>2, <2>3, <2>4, PresentedFrame
<1>24. CASE RemoveParts
  <2> DEFINE t == handler.id
  <2>1. /\ t \in Ids /\ handler.att \in Attempts /\ fin[handler.att] = "done"
        /\ cur[t] \in {handler.att, None}
    BY <1>1, <1>24 DEF RemoveParts, CoreReferences, Holders, Types
  <2>2. UNCHANGED <<final, owner, good, told, fin, open, lost, revived>>
    BY <1>24 DEF RemoveParts, finish
  <2>3. \A q \in Paths : q \notin DestOf(t) => part'[q] = part[q]
    BY <1>24 DEF RemoveParts
  <2>4. ASSUME NEW a \in Attempts, NEW f \in Files, fin[a] = "renaming", f \in open[a], Ready(a, f)
        PROVE  Whole(part'[PathOf(owner[a], f)], owner[a], f)
    <3>1. owner[a] \in Ids
      BY <1>1, <2>4 DEF Types, CoreReferences
    <3>2. owner[a] # t
      BY <2>1, <2>4, <3>1, <1>1 DEF Holders, Running
    <3>3. PathOf(owner[a], f) \in Paths /\ PathOf(owner[a], f) \notin DestOf(t)
      BY <2>1, <3>1, <3>2, PathOfType DEF DestOf, DistinctDestinations
    <3> QED
      BY <2>3, <2>4, <3>3 DEF Ready
  <2> QED
    BY <2>2, <2>4, PresentedFrame
<1>16. ASSUME NEW a \in Attempts, FinishRename(a) PROVE Presented'
  <2>1. UNCHANGED <<part, final, good, told, owner, lost, revived>> /\ fin[a] = "saving"
    BY <1>16 DEF FinishRename, At
  <2>2. \A b \in Attempts \ {a} : fin'[b] = fin[b] /\ open'[b] = open[b]
    BY <1>1, <1>16 DEF FinishRename, At, Types
  <2>3. \/ fin'[a] = "renaming" /\ good[a] /\ open'[a] = open[a]
        \/ fin'[a] = "reporting" /\ ~good[a]
    BY <1>1, <1>16 DEF FinishRename, At, Types
  <2>4. ASSUME fin'[a] = "renaming", Sound(a), NEW f \in Files PROVE f \in open'[a] /\ Ready(a, f)
    <3>1. open[a] = Files /\ owner[a] \in Ids /\ bits[a] = Chunks /\ open'[a] = open[a]
      BY <1>1, <2>1, <2>3, <2>4 DEF Holders, CoreReferences, Types, Sound, Tested, Working
    <3>2. \A k \in Slots : Holds(part, owner[a], <<f, k>>)
      BY <2>1, <2>4, <3>1 DEF Backed, Working
    <3>3. part[PathOf(owner[a], f)] # None
      BY <3>1 DEF PartsOpen
    <3> QED
      BY <3>1, <3>2, <3>3, <1>1, WholeIsHeld DEF Ready, Types
  <2>5. Committing'
    <3>1. ASSUME NEW b \in Attempts, b # a, Sound(b), NEW f \in Files
          PROVE  /\ fin'[b] = "renaming" => IF f \in open'[b] THEN Ready(b, f) ELSE InPlace(b, f)
                 /\ (good[b] /\ fin'[b] = "reporting") => InPlace(b, f)
      BY <2>2, <3>1 DEF Presented, Committing
    <3>2. \A b \in Attempts, f \in Files :
             /\ Ready(b, f)' = Ready(b, f) /\ InPlace(b, f)' = InPlace(b, f) /\ Sound(b)' = Sound(b)
      BY <2>1 DEF Ready, InPlace, Sound
    <3>3. ASSUME NEW b \in Attempts, Sound(b), NEW f \in Files
          PROVE  /\ fin'[b] = "renaming" => IF f \in open'[b] THEN Ready(b, f) ELSE InPlace(b, f)
                 /\ (good[b] /\ fin'[b] = "reporting") => InPlace(b, f)
      BY <2>3, <2>4, <3>1, <3>3
    <3> QED
      BY <2>1, <3>2, <3>3 DEF Committing
  <2> QED
    BY <2>1, <2>5 DEF Presented, FinalWhole, OkMeansDelivered
<1>17. ASSUME NEW a \in Attempts, DropBitmap(a) PROVE Presented'
  <2>1. /\ UNCHANGED <<part, final, owner, good, told, open, lost, revived>>
        /\ fin[a] = "renaming" /\ open[a] = {} /\ fin'[a] = "reporting"
        /\ \A b \in Attempts : b # a => fin'[b] = fin[b]
    BY <1>17, <1>1 DEF DropBitmap, control, history, Types
  <2>2. Committing'
    BY <2>1 DEF Presented, Committing, Ready, InPlace, Sound
  <2> QED
    BY <2>1, <2>2 DEF Presented, FinalWhole, OkMeansDelivered
<1>18. ASSUME NEW a \in Attempts, Report(a) PROVE Presented'
  <2>1. /\ UNCHANGED <<part, final, owner, good, open, lost, revived>>
        /\ fin[a] = "reporting" /\ fin'[a] = "done" /\ told'[a] = good[a]
        /\ \A b \in Attempts : b # a => fin'[b] = fin[b] /\ told'[b] = told[b]
    BY <1>18, <1>1 DEF Report, disk, history, Types
  <2>2. Committing'
    BY <2>1 DEF Presented, Committing, Ready, InPlace, Sound
  <2>3. OkMeansDelivered'
    BY <2>1 DEF Presented, Committing, InPlace, OkMeansDelivered, Sound
  <2> QED
    BY <2>1, <2>2, <2>3 DEF Presented, FinalWhole
<1>19. ASSUME NEW a \in Attempts, NEW f \in Files, RenameFile(a, f) PROVE Presented'
  <2> DEFINE p == PathOf(owner[a], f)
  <2>1. /\ fin[a] = "renaming" /\ f \in open[a] /\ owner[a] \in Ids /\ p \in Paths
        /\ part[p] # None /\ ~lost[a]
    BY <1>1, <1>19, PathOfType DEF RenameFile, CoreReferences, Holders, Types, PartsOpen
  <2>2. /\ UNCHANGED <<owner, good, fin, told, lost, revived>>
        /\ final' = [final EXCEPT ![p] = part[p]]
        /\ part' = [part EXCEPT ![p] = None]
        /\ open' = [open EXCEPT ![a] = open[a] \ {f}]
    BY <1>19, <2>1 DEF RenameFile, control, history
  <2>3. /\ \A q \in Paths : q # p => part'[q] = part[q]
        /\ \A q \in Paths : q # p => final'[q] = final[q]
        /\ final'[p] = part[p]
        /\ \A b \in Attempts : b # a => open'[b] = open[b]
        /\ open'[a] = open[a] \ {f}
    BY <2>1, <2>2, <1>1 DEF Types
  <2>4. owner[a] \in revived \/ Whole(final'[p], owner[a], f)
    BY <2>1, <2>3 DEF Presented, Committing, Sound, Ready
  <2>5. ASSUME NEW u \in Ids \ revived, NEW g \in Files, Whole(final[PathOf(u, g)], u, g)
        PROVE  Whole(final'[PathOf(u, g)], u, g)
    <3>1. CASE PathOf(u, g) = p
      <4>1. u = owner[a] /\ g = f
        BY <3>1, <2>1 DEF DistinctDestinations
      <4> QED
        BY <3>1, <4>1, <2>4
    <3>2. CASE PathOf(u, g) # p
      BY <3>2, <2>3, <2>5, PathOfType
    <3> QED
      BY <3>1, <3>2
  <2>6. ASSUME NEW b \in Attempts, Sound(b), fin[b] = "renaming", NEW g \in Files
        PROVE  IF g \in open'[b] THEN Whole(part'[PathOf(owner[b], g)], owner[b], g)
                                 ELSE Whole(final'[PathOf(owner[b], g)], owner[b], g)
    <3>1. owner[b] \in Ids \ revived /\ PathOf(owner[b], g) \in Paths
      BY <1>1, <2>6, PathOfType DEF CoreReferences, Types, Sound
    <3>2. CASE g \in open'[b]
      <4>1. g \in open[b] /\ ~(b = a /\ g = f)
        BY <2>3, <3>2
      <4>2. PathOf(owner[b], g) # p
        BY <2>1, <2>6, <4>1, OneHolder DEF Running
      <4> QED
        BY <2>3, <2>6, <3>1, <3>2, <4>1, <4>2 DEF Presented, Committing, Ready
    <3>3. CASE g \notin open'[b]
      <4>1. CASE b = a /\ g = f
        BY <3>1, <3>3, <4>1, <2>4
      <4>2. CASE ~(b = a /\ g = f)
        <5>1. g \notin open[b]
          BY <3>3, <4>2, <2>3
        <5>2. Whole(final[PathOf(owner[b], g)], owner[b], g)
          BY <5>1, <2>6 DEF Presented, Committing, InPlace
        <5> QED
          BY <3>1, <3>3, <5>2, <2>5
      <4> QED
        BY <4>1, <4>2
    <3> QED
      BY <3>2, <3>3
  <2>7. Committing'
    <3>1. ASSUME NEW b \in Attempts, Sound(b), good[b], fin[b] = "reporting", NEW g \in Files
          PROVE  Whole(final'[PathOf(owner[b], g)], owner[b], g)
      <4>1. owner[b] \in Ids \ revived
        BY <1>1, <3>1 DEF CoreReferences, Types, Sound
      <4> QED
        BY <3>1, <4>1, <2>5 DEF Presented, Committing, InPlace
    <3>2. \A b \in Attempts : Sound(b)' = Sound(b)
      BY <2>2 DEF Sound
    <3> QED
      BY <2>2, <2>6, <3>1, <3>2 DEF Presented, Committing, Ready, InPlace
  <2>8. OkMeansDelivered'
    <3>1. ASSUME NEW b \in Attempts, told[b] = TRUE, owner[b] \notin revived, ~lost[b], NEW g \in Files
          PROVE  Whole(final'[PathOf(owner[b], g)], owner[b], g)
      <4>1. owner[b] \in Ids \ revived
        <5>1. told[b] # None
          BY <3>1, NoneIsNoValue
        <5>2. owner[b] # None
          BY <5>1 DEF Holders
        <5> QED
          BY <3>1, <5>2, <1>1 DEF Types
      <4> QED
        BY <3>1, <4>1, <2>5 DEF Presented, OkMeansDelivered
    <3> QED
      BY <2>2, <3>1 DEF OkMeansDelivered
  <2>9. FinalWhole'
    <3>1. ASSUME NEW q \in Paths, final'[q] # None
          PROVE  \E u \in Ids, g \in Files : PathOf(u, g) = q /\ (u \in revived \/ Whole(final'[q], u, g))
      <4>1. CASE q = p
        BY <4>1, <2>1, <2>4
      <4>2. CASE q # p
        BY <3>1, <4>2, <2>3 DEF Presented, FinalWhole
      <4> QED
        BY <4>1, <4>2
    <3> QED
      BY <2>2, <3>1 DEF FinalWhole
  <2> QED
    BY <2>7, <2>8, <2>9 DEF Presented
<1> QED
  BY <1>3, <1>4, <1>9, <1>10, <1>14, <1>15, <1>16, <1>17, <1>18, <1>19, <1>20, <1>21,
     <1>22, <1>23, <1>24 DEF Next, StreamStep

----------------------------------------------------------------------------

LEMMA InitInv == Init => IInv
<1> SUFFICES ASSUME Init PROVE IInv
  OBVIOUS
<1>1. TypeOK /\ References
  BY TypeInit
<1>2. Registry
  BY DEF Init, Registry, Holders, Endings, Working, Running, NewStream, Free, Task
<1>3. DiskState
  BY DEF Init, DiskState, PartsOpen, Claims, BitmapsAreSound, LoadedBits, Flushers, NewStream
<1>4. Tested /\ Committing /\ FinalWhole /\ OkMeansDelivered
  BY NoneIsNoValue DEF Init, Tested, Committing, FinalWhole, OkMeansDelivered
<1> QED
  BY <1>1, <1>2, <1>3, <1>4 DEF IInv

\* What an attempt that may yet be committed claims, it holds: its handles are open.
LEMMA BackedNow ==
  ASSUME Types, Registry, DiskState
  PROVE  Backed
<1> SUFFICES ASSUME NEW a \in Attempts, fin[a] \in Working, Sound(a), NEW c \in bits[a]
             PROVE  Holds(part, owner[a], c)
  BY DEF Backed
<1>1. open[a] = Files /\ c \in Chunks /\ owner[a] \notin revived
  BY DEF Registry, Holders, Sound, Types
<1>2. c[1] \in open[a]
  BY <1>1
<1> QED
  BY <1>1, <1>2 DEF DiskState, Claims, BitmapsAreSound

LEMMA InvStep == ASSUME DistinctDestinations, IInv, [Next]_vars PROVE IInv'
<1>1. TypeOK' /\ References'
  BY TypeStep DEF IInv
<1>2. Holders' /\ Endings'
  BY HoldersStep, EndingsStep DEF IInv, Registry
<1>3. PartsOpen' /\ Claims' /\ Tested'
  BY PartsOpenStep, ClaimsStep, TestedStep DEF IInv, Registry, DiskState
<1>4. Presented'
  BY <1>1, BackedNow, TypesOf, PresentedStep DEF IInv, Registry, DiskState, Presented
<1> QED
  BY <1>1, <1>2, <1>3, <1>4 DEF IInv, Registry, DiskState, Presented

\* The inductive invariant, whatever is offered again and whenever: the receiver rests
\* on distinct destinations alone.
THEOREM Invariance ==
  ASSUME DistinctDestinations
  PROVE  Spec => []IInv
BY InitInv, InvStep, PTL DEF Spec

\* No file is presented under its own name unless every chunk of it was verified for
\* one offered file, or its id came back under a bitmap it had outlived (finish and
\* commit of recv.go).
THEOREM FilesAreWhole ==
  ASSUME DistinctDestinations
  PROVE  Spec => []FinalWhole
<1>1. IInv => FinalWhole
  BY DEF IInv
<1> QED
  BY <1>1, Invariance, PTL

\* A transfer reported ok by an attempt whose accept was sent is in place, and stays in
\* place unless its id comes back under such a bitmap (finish's TransferComplete).
THEOREM ReportsAreTrue ==
  ASSUME DistinctDestinations
  PROVE  Spec => []OkMeansDelivered
<1>1. IInv => OkMeansDelivered
  BY DEF IInv
<1> QED
  BY <1>1, Invariance, PTL

\* A bitmap, in memory, being flushed or on disk, claims only chunks that are in the
\* part files, until its id has ended (state.go's flush and load, against commit,
\* cancel and supersede and their late flushes).
THEOREM BitmapsHold ==
  ASSUME DistinctDestinations
  PROVE  Spec => []BitmapsAreSound
<1>1. IInv => BitmapsAreSound
  BY DEF IInv, DiskState, Claims
<1> QED
  BY <1>1, Invariance, PTL

\* A destination has one writer: a re-offer opens the parts only after the attempt it
\* supersedes has closed them (onOffer).
THEOREM OneWriter ==
  ASSUME DistinctDestinations
  PROVE  Spec => []SingleWriter
<1>1. IInv => SingleWriter
  <2> SUFFICES ASSUME IInv, NEW a \in Attempts, NEW b \in Attempts, NEW f \in open[a], NEW g \in open[b],
                      PathOf(owner[a], f) = PathOf(owner[b], g)
               PROVE  a = b /\ f = g
    BY DEF SingleWriter
  <2>1. f \in Files /\ g \in Files
    BY DEF IInv, TypeOK
  <2>2. fin[a] \in Running /\ fin[b] \in Running
    BY DEF IInv, Registry, Holders
  <2> QED
    BY <2>1, <2>2, OneHolder DEF IInv, Registry
<1> QED
  BY <1>1, Invariance, PTL

----------------------------------------------------------------------------
(* Whole transfers.                                                         *)

\* What a step of the receiver does to what has been delivered: it adds the files of
\* one transfer, or replaces those of a revived one, or revives one.
LEMMA FinalStep ==
  ASSUME TypeOK, References, Holders, PartsOpen, Committing, DistinctDestinations, [Next]_vars
  PROVE  \/ UNCHANGED <<Delivered, revived>>
         \/ /\ revived' = revived
            /\ \E t \in Ids \ Delivered : Delivered' = Delivered \cup {t}
         \/ revived' = revived /\ \E t \in revived : Delivered' = Delivered \ {t}
         \/ Delivered' = Delivered /\ \E t \in Ids : revived' = revived \cup {t}
<1>1. Types /\ CoreReferences /\ None \notin Attempts /\ None \notin Ids
  BY TypesOf, TypeParts, NoneIsFresh DEF Core
<1>2. final' = final => Delivered' = Delivered
  BY DEF Delivered
<1>3. ASSUME NEW a \in Attempts, NEW f \in Files, RenameFile(a, f)
      PROVE  /\ revived' = revived
             /\ \/ Delivered' = Delivered
                \/ \E t \in Ids \ Delivered : Delivered' = Delivered \cup {t}
                \/ \E t \in revived : Delivered' = Delivered \ {t}
  <2> DEFINE p == PathOf(owner[a], f)
             t == owner[a]
  <2>1. /\ fin[a] = "renaming" /\ f \in open[a] /\ revived' = revived
        /\ part[p] # None => final' = [final EXCEPT ![p] = part[p]]
    BY <1>3 DEF RenameFile, control, history
  <2>2. t \in Ids /\ p \in Paths /\ part[p] # None /\ ~lost[a]
    BY <1>1, <2>1, PathOfType DEF CoreReferences, Types, PartsOpen, Holders
  <2>3. final'[p] = part[p] /\ \A q \in Paths : q # p => final'[q] = final[q]
    BY <1>1, <2>1, <2>2 DEF Types
  <2>4. \A u \in Ids, g \in Files : PathOf(u, g) \in Paths /\ (PathOf(u, g) = p => u = t /\ g = f)
    BY <2>2, PathOfType DEF DistinctDestinations
  <2>5. ASSUME NEW u \in Ids, u # t, NEW g \in Files
        PROVE  final'[PathOf(u, g)] = final[PathOf(u, g)]
    BY <2>3, <2>4, <2>5
  <2>6. Delivered \ {t} = Delivered' \ {t} /\ Delivered \subseteq Ids /\ Delivered' \subseteq Ids
    BY <2>5 DEF Delivered
  <2>7. CASE t \in revived
    BY <2>1, <2>2, <2>6, <2>7
  <2>8. CASE t \notin revived
    <3>1. Ready(a, f)
      BY <2>1, <2>2, <2>8 DEF Committing, Sound
    <3>2. ASSUME NEW g \in Files, Whole(final[PathOf(t, g)], t, g)
          PROVE  Whole(final'[PathOf(t, g)], t, g)
      BY <3>1, <3>2, <2>2, <2>3, <2>4 DEF Ready
    <3>3. t \in Delivered => t \in Delivered'
      BY <3>2, <2>2 DEF Delivered
    <3> QED
      BY <2>1, <2>2, <2>6, <3>3
  <2> QED
    BY <2>7, <2>8
<1>4. ASSUME NEW s \in Streams, StreamStep(s) PROVE UNCHANGED <<final, revived>>
  <2>1. CASE WriteChunk(s)
    BY <2>1, WriteLands DEF WriteChunk, control, history
  <2>2. CASE ~WriteChunk(s)
    BY <1>4, <2>2 DEF StreamStep, StreamReady, EndStream, MarkChunk, TakeChunk, disk, control, history
  <2> QED
    BY <2>1, <2>2
<1>5. ASSUME NEW t \in Ids, NEW a \in Attempts, NEW d \in BOOLEAN, NewRecvState(t, a, d), final' = final
      PROVE  /\ Delivered' = Delivered
             /\ revived' = revived \/ \E u \in Ids : revived' = revived \cup {u}
  BY <1>2, <1>5 DEF NewRecvState, Register
<1>6. ASSUME NEW t \in Ids, NEW a \in Attempts, NEW d \in BOOLEAN,
             Offer(t, a, d) \/ (ReplaceSuperseded(a, d) /\ t = handler.id)
      PROVE  /\ Delivered' = Delivered
             /\ revived' = revived \/ \E u \in Ids : revived' = revived \cup {u}
  BY <1>5, <1>6 DEF Offer, ReplaceSuperseded
<1>7. ASSUME NEW a \in Attempts, NEW d \in BOOLEAN, ReplaceSuperseded(a, d) PROVE handler.id \in Ids
  BY <1>1, <1>7 DEF ReplaceSuperseded, CoreReferences, Types
<1>8. ASSUME NEW t \in Ids, Supersede(t) \/ Manifest(t) \/ \E drop \in BOOLEAN : Cancel(t, drop)
      PROVE  UNCHANGED <<final, revived>>
  BY <1>8 DEF Supersede, Manifest, Cancel, disk, history
<1>9. HandlerSnapshot \/ HandlerRename \/ RemoveParts \/ DiscardState \/ Crash \/ UNCHANGED vars
        => UNCHANGED <<final, revived>>
  BY DEF HandlerSnapshot, HandlerRename, RemoveParts, DiscardState, Crash, vars, disk, history, control
<1>10. ASSUME NEW s \in Streams, NEW t \in Ids, OpenStream(s, t) PROVE UNCHANGED <<final, revived>>
  BY <1>10 DEF OpenStream, disk, control, history
<1>11. ASSUME NEW a \in Attempts,
              \/ TickSnapshot(a) \/ TickRename(a) \/ FinishBegin(a) \/ CopyFailures(a)
              \/ TestComplete(a) \/ FinishSnapshot(a) \/ Retire(a) \/ FinishRename(a)
              \/ DropBitmap(a) \/ Report(a)
       PROVE  UNCHANGED <<final, revived>>
  BY <1>11 DEF TickSnapshot, TickRename, FinishBegin, CopyFailures, TestComplete, FinishSnapshot, Retire,
     FinishRename, DropBitmap, Report, disk, control, history
<1> QED
  BY <1>2, <1>3, <1>4, <1>6, <1>7, <1>8, <1>9, <1>10, <1>11 DEF Next, StreamStep

\* A data stream in use carries the id its header names, and one in Write a frame.
Named ==
    \A s \in Streams : /\ data[s].pc # "unopened" => data[s].id # None
                       /\ data[s].pc = "writing" => data[s].out \in Frame

\* A re-offer being taken up has its session and an attempt nobody else takes.
Asking == handler.op = "supersede" => asked \in 0..drops /\ \E a \in Attempts : owner[a] = None

\* What a step of a transfer is to the receiver.
LEMMA XferReceives ==
  ASSUME XferTypeOK, Asking, Named, [XferNext]_allVars
  PROVE  [Next]_vars
<1>1. ASSUME NEW t \in Ids, NEW drop \in BOOLEAN,
             \/ SendOffer(t) \/ OnAccept(t) \/ OnReject(t) \/ OnComplete(t) \/ Pumped(t)
             \/ SendDone(t) \/ GiveUp(t) \/ Abandon(t) \/ CancelSend(t, drop) \/ Decline(t)
      PROVE  UNCHANGED vars
  <2>1. ASSUME Decline(t) PROVE UNCHANGED vars
    BY <2>1 DEF Decline
  <2>2. ASSUME NEW pc, Return(t, pc) PROVE UNCHANGED vars
    BY <2>2 DEF Return
  <2> QED
    BY <1>1, <2>1, <2>2 DEF SendOffer, OnAccept, OnReject, OnComplete, Pumped, SendDone, GiveUp, Abandon,
       CancelSend
<1>2. ASSUME NEW t \in Ids, RecvOffer(t) PROVE Next
  <2>1. NewAttempt \in Attempts /\ Offer(t, NewAttempt, TRUE)
    BY <1>2 DEF RecvOffer, NewAttempt
  <2> QED
    BY <2>1 DEF Next
<1>3. ASSUME NEW t \in Ids, RecvReoffer(t) \/ RecvManifest(t) \/ RecvCancel(t)
      PROVE  [Next]_vars
  <2>1. CASE RecvReoffer(t)
    BY <2>1 DEF RecvReoffer, Next
  <2>2. CASE RecvManifest(t)
    BY <2>2 DEF RecvManifest, Next
  <2>3. CASE RecvCancel(t)
    <3>1. Cancel(t, Head(toRecv).flag) \/ UNCHANGED vars
      BY <2>3 DEF RecvCancel
    <3>2. Head(toRecv).flag \in BOOLEAN
      <4>1. toRecv \in Seq(Message) /\ toRecv # <<>>
        BY <2>3 DEF RecvCancel, Arrives, XferTypeOK
      <4>2. Head(toRecv) \in Message
        BY <4>1
      <4> QED
        BY <4>2 DEF Message
    <3> QED
      BY <3>1, <3>2 DEF Next
  <2> QED
    BY <1>3, <2>1, <2>2, <2>3
<1>4. ASSUME NEW s \in Streams, NEW m \in BOOLEAN,
             \/ SendChunk(s, m) \/ WriteFrame(s) \/ StopWorker(s) \/ SourceFails(s)
             \/ CloseStream(s) \/ RefuseStream(s)
      PROVE  UNCHANGED vars
  BY <1>4 DEF SendChunk, WriteFrame, StopWorker, SourceFails, Fails, CloseStream, RefuseStream
<1>5. ASSUME NEW s \in Streams, RecvStream(s) PROVE Next
  <2>1. data[s].id \in Ids
    BY <1>5 DEF RecvStream, Named, XferTypeOK, DataState
  <2> QED
    BY <1>5, <2>1 DEF RecvStream, Next
<1>6. ASSUME NEW s \in Streams, RecvChunk(s) PROVE Next
  <2>1. data[s].q \in Seq(Frame) /\ data[s].q # <<>>
    BY <1>6 DEF RecvChunk, XferTypeOK, DataState
  <2>2. Head(data[s].q) \in Frame
    BY <2>1
  <2>3. Head(data[s].q).c \in Chunks /\ Head(data[s].q).match \in BOOLEAN
    BY <2>2 DEF Frame
  <2> QED
    BY <1>6, <2>3 DEF RecvChunk, Next
<1>7. ASSUME NEW s \in Streams, RecvEnd(s) \/ RecvTimeout(s) \/ RecvWrite(s) \/ RecvStep(s) PROVE Next
  BY <1>7 DEF RecvEnd, RecvTimeout, RecvWrite, RecvStep, Next
<1>8. ASSUME NEW a \in Attempts, RecvReport(a) \/ RecvFinish(a) \/ RecvTick(a) PROVE Next
  BY <1>8 DEF RecvReport, RecvFinish, RecvTick, Next
<1>9. CASE RecvHandler
  BY <1>9 DEF RecvHandler, Next
<1>10. CASE RecvReplace
  <2>1. NewAttempt \in Attempts
    BY <1>10 DEF RecvReplace, ReplaceSuperseded, Asking, NewAttempt
  <2>2. ReplaceSuperseded(NewAttempt, asked = drops) /\ (asked = drops) \in BOOLEAN
    BY <1>10 DEF RecvReplace
  <2> QED
    BY <2>1, <2>2 DEF Next
<1>11. CASE DropSession
  BY <1>11 DEF DropSession
<1>12. UNCHANGED allVars => UNCHANGED vars
  BY DEF allVars
<1> QED
  BY <1>1, <1>2, <1>3, <1>4, <1>5, <1>6, <1>7, <1>8, <1>9, <1>10, <1>11, <1>12 DEF XferNext

\* An attempt whose accept was lost belongs to a session that is over.
Sessions ==
    /\ \A a \in Attempts : sess[a] <= drops /\ (lost[a] => sess[a] < drops)
    /\ Asking

\* The receiver's steps that neither create an attempt nor set out to.
LEMMA OtherSteps ==
  ASSUME TypeOK, \/ UNCHANGED vars \/ HandlerSnapshot \/ HandlerRename \/ RemoveParts \/ DiscardState
                 \/ \E t \in Ids : Manifest(t) \/ \E drop \in BOOLEAN : Cancel(t, drop)
                 \/ \E s \in Streams : StreamStep(s) \/ \E t \in Ids : OpenStream(s, t)
                 \/ \E a \in Attempts :
                      \/ TickSnapshot(a) \/ TickRename(a) \/ FinishBegin(a) \/ CopyFailures(a)
                      \/ TestComplete(a) \/ FinishSnapshot(a) \/ Retire(a) \/ FinishRename(a)
                      \/ DropBitmap(a) \/ Report(a) \/ \E f \in Files : RenameFile(a, f)
  PROVE  UNCHANGED <<lost, owner>> /\ (handler'.op = "supersede" => handler.op = "supersede")
<1>1. CASE UNCHANGED vars
  BY <1>1 DEF vars, control
<1>2. CASE HandlerSnapshot \/ HandlerRename \/ RemoveParts \/ DiscardState
  <2>1. handler \in HandlerState
    BY DEF TypeOK
  <2>2. CASE HandlerSnapshot
    BY <2>1, <2>2 DEF HandlerSnapshot, HandlerState
  <2>3. CASE HandlerRename
    BY <2>1, <2>3 DEF HandlerRename, HandlerState
  <2>4. CASE RemoveParts
    <3>1. UNCHANGED <<lost, owner>> /\ (handler' = Free \/ handler' = [handler EXCEPT !.op = "discard"])
      BY <2>4 DEF RemoveParts
    <3> QED
      BY <2>1, <3>1 DEF HandlerState, Free, Task
  <2>5. CASE DiscardState
    BY <2>5 DEF DiscardState, Free, Task
  <2> QED
    BY <1>2, <2>2, <2>3, <2>4, <2>5
<1>3. CASE \E t \in Ids : Manifest(t) \/ \E drop \in BOOLEAN : Cancel(t, drop)
  BY <1>3 DEF Manifest, Cancel, Task
<1>4. CASE \E s \in Streams : StreamStep(s) \/ \E t \in Ids : OpenStream(s, t)
  BY <1>4 DEF OpenStream, StreamStep, StreamReady, EndStream, WriteChunk, MarkChunk, TakeChunk, control
<1>5. CASE \E a \in Attempts :
              \/ TickSnapshot(a) \/ TickRename(a) \/ FinishBegin(a) \/ CopyFailures(a)
              \/ TestComplete(a) \/ FinishSnapshot(a) \/ Retire(a) \/ FinishRename(a)
              \/ DropBitmap(a) \/ Report(a) \/ \E f \in Files : RenameFile(a, f)
  BY <1>5 DEF TickSnapshot, TickRename, FinishBegin, CopyFailures, TestComplete, FinishSnapshot, Retire,
     FinishRename, DropBitmap, Report, RenameFile, control
<1> QED
  BY <1>1, <1>2, <1>3, <1>4, <1>5

LEMMA SessionsStep ==
  ASSUME XferTypeOK, References, Sessions, Named, [XferNext]_allVars
  PROVE  Sessions'
<1>1. /\ drops \in Nat /\ TypeOK /\ Types /\ CoreReferences
      /\ sess \in [Attempts -> 0..MaxDrops] /\ MaxDrops \in Nat /\ None \notin Ids
  BY BoundsAreNat, TypesOf, TypeParts, NoneIsFresh DEF XferTypeOK, Core
<1>2. ASSUME UNCHANGED <<sess, asked, drops, lost, owner>>,
             handler'.op = "supersede" => handler.op = "supersede"
      PROVE  Sessions'
  BY <1>2 DEF Sessions, Asking
<1>3. ASSUME UNCHANGED vars, UNCHANGED <<sess, asked, drops>> PROVE Sessions'
  BY <1>1, <1>2, <1>3, OtherSteps
<1>4. ASSUME NEW t \in Ids, NEW drop \in BOOLEAN,
             \/ SendOffer(t) \/ OnAccept(t) \/ OnReject(t) \/ OnComplete(t) \/ Pumped(t)
             \/ SendDone(t) \/ GiveUp(t) \/ Abandon(t) \/ CancelSend(t, drop) \/ Decline(t)
      PROVE  Sessions'
  <2>1. ASSUME Decline(t) PROVE UNCHANGED vars /\ UNCHANGED <<sess, asked, drops>>
    BY <2>1 DEF Decline
  <2>2. ASSUME NEW pc, Return(t, pc) PROVE UNCHANGED vars /\ UNCHANGED <<sess, asked, drops>>
    BY <2>2 DEF Return
  <2>3. UNCHANGED vars /\ UNCHANGED <<sess, asked, drops>>
    BY <1>4, <2>1, <2>2 DEF SendOffer, OnAccept, OnReject, OnComplete, Pumped, SendDone, GiveUp, Abandon,
       CancelSend
  <2> QED
    BY <1>3, <2>3
<1>5. ASSUME NEW s \in Streams, NEW m \in BOOLEAN,
             \/ SendChunk(s, m) \/ WriteFrame(s) \/ StopWorker(s) \/ SourceFails(s)
             \/ CloseStream(s) \/ RefuseStream(s)
      PROVE  Sessions'
  <2>1. UNCHANGED vars /\ UNCHANGED <<sess, asked, drops>>
    BY <1>5 DEF SendChunk, WriteFrame, StopWorker, SourceFails, Fails, CloseStream, RefuseStream
  <2> QED
    BY <1>3, <2>1
<1>6. ASSUME NEW t \in Ids, RecvOffer(t) PROVE Sessions'
  <2> DEFINE a == NewAttempt
  <2>1. /\ a \in Attempts /\ owner[a] = None /\ Offer(t, a, TRUE) /\ handler.op = "idle"
        /\ sess' = [sess EXCEPT ![a] = drops] /\ UNCHANGED <<asked, drops>>
    BY <1>6 DEF RecvOffer, NewAttempt, Offer
  <2> HIDE DEF a
  <2>2. lost' = [lost EXCEPT ![a] = FALSE] /\ handler' = handler
    BY <2>1 DEF Offer, NewRecvState, Register
  <2> QED
    BY <1>1, <2>1, <2>2 DEF Sessions, Asking, Types
<1>7. CASE RecvReplace
  <2> DEFINE a == NewAttempt
             d == (asked = drops)
  <2>1. /\ handler.op = "supersede" /\ asked \in 0..drops
        /\ ReplaceSuperseded(a, d) /\ d \in BOOLEAN
        /\ sess' = [sess EXCEPT ![a] = asked] /\ drops' = drops
    BY <1>7 DEF RecvReplace, ReplaceSuperseded, Sessions, Asking
  <2>2. a \in Attempts
    BY <2>1 DEF NewAttempt, Sessions, Asking
  <2>3. lost' = [lost EXCEPT ![a] = ~d] /\ handler'.op = "idle"
    BY <2>1 DEF ReplaceSuperseded, NewRecvState, Register, Free, Task
  <2>4. ~d => asked < drops
    BY <1>1, <2>1
  <2> HIDE DEF a, d
  <2>5. lost \in [Attempts -> BOOLEAN] /\ asked \in Nat /\ asked <= drops
    BY <1>1, <2>1 DEF Types
  <2>6. ASSUME NEW b \in Attempts PROVE sess'[b] <= drops' /\ (lost'[b] => sess'[b] < drops')
    <3>1. CASE b = a
      BY <1>1, <3>1, <2>1, <2>2, <2>3, <2>4, <2>5
    <3>2. CASE b # a
      BY <1>1, <3>2, <2>1, <2>2, <2>3, <2>5 DEF Sessions
    <3> QED
      BY <3>1, <3>2
  <2> QED
    BY <2>3, <2>6 DEF Sessions, Asking
<1>8. ASSUME NEW t \in Ids, RecvReoffer(t) PROVE Sessions'
  <2>1. /\ Supersede(t) /\ asked' = drops /\ UNCHANGED <<sess, drops>>
        /\ UNCHANGED <<lost, owner>> /\ \E a \in Attempts : owner[a] = None
    BY <1>8 DEF RecvReoffer, Supersede
  <2> QED
    BY <1>1, <2>1 DEF Sessions, Asking
<1>9. ASSUME NEW t \in Ids, RecvManifest(t) \/ RecvCancel(t) PROVE Sessions'
  <2>1. UNCHANGED <<sess, asked, drops>>
    BY <1>9 DEF RecvManifest, RecvCancel
  <2>2. \/ UNCHANGED vars \/ Manifest(t) \/ Cancel(t, Head(toRecv).flag)
    BY <1>9 DEF RecvManifest, RecvCancel
  <2>3. UNCHANGED <<lost, owner>> /\ (handler'.op = "supersede" => handler.op = "supersede")
    BY <2>2, <1>1, OtherSteps DEF Manifest, Cancel, Task
  <2> QED
    BY <1>2, <2>1, <2>3
<1>10. ASSUME NEW s \in Streams,
              \/ RecvStream(s) \/ RecvChunk(s) \/ RecvEnd(s) \/ RecvTimeout(s) \/ RecvWrite(s)
              \/ RecvStep(s)
       PROVE  Sessions'
  <2>1. UNCHANGED <<sess, asked, drops>>
    BY <1>10 DEF RecvStream, RecvChunk, RecvEnd, RecvTimeout, RecvWrite, RecvStep, sendVars
  <2>2. UNCHANGED control
    BY <1>10 DEF RecvStream, RecvChunk, RecvEnd, RecvTimeout, RecvWrite, RecvStep, OpenStream, TakeChunk,
       EndStream, WriteChunk, StreamReady, MarkChunk
  <2> QED
    BY <1>2, <2>1, <2>2 DEF control
<1>11. ASSUME NEW a \in Attempts, RecvReport(a) \/ RecvFinish(a) \/ RecvTick(a) PROVE Sessions'
  <2>1. UNCHANGED <<sess, asked, drops>>
    BY <1>11 DEF RecvReport, RecvFinish, RecvTick, sendVars
  <2>2. UNCHANGED <<lost, owner>> /\ (handler'.op = "supersede" => handler.op = "supersede")
    BY <1>1, <1>11, OtherSteps DEF RecvReport, RecvFinish, RecvTick
  <2> QED
    BY <1>2, <2>1, <2>2
<1>12. CASE RecvHandler
  <2>1. UNCHANGED <<sess, asked, drops>>
    BY <1>12 DEF RecvHandler, sendVars
  <2>2. UNCHANGED <<lost, owner>> /\ (handler'.op = "supersede" => handler.op = "supersede")
    BY <1>1, <1>12, OtherSteps DEF RecvHandler
  <2> QED
    BY <1>2, <2>1, <2>2
<1>13. CASE DropSession
  <2>1. UNCHANGED vars /\ UNCHANGED <<sess, asked>> /\ drops' = drops + 1
    BY <1>13, Zenon DEF DropSession
  <2>2. UNCHANGED <<lost, owner, handler>>
    BY <2>1 DEF vars, control
  <2> QED
    BY <1>1, <2>1, <2>2 DEF Sessions, Asking
<1>14. CASE UNCHANGED allVars
  BY <1>3, <1>14 DEF allVars, sendVars
<1> QED
  BY <1>4, <1>5, <1>6, <1>7, <1>8, <1>9, <1>10, <1>11, <1>12, <1>13, <1>14 DEF XferNext

\* Every message the two sides build is one.
LEMMA Messages ==
  /\ \A t \in Ids, type \in {"offer", "manifest", "cancel", "accept", "reject", "complete"} :
       Msg(type, t) \in Message
  /\ \A t \in Ids, flag \in BOOLEAN : /\ [Msg("cancel", t) EXCEPT !.flag = flag] \in Message
                                      /\ [Msg("complete", t) EXCEPT !.flag = flag] \in Message
  /\ TypeOK => \A t \in Ids : Accepting(t) \in Message
<1>1. TypeOK => \A t \in Ids : LoadedBits(t) \in SUBSET Chunks
  BY DEF TypeOK, LoadedBits
<1> QED
  BY <1>1 DEF Msg, Message, Accepting

\* Every variable of the transport keeps its type.
WireTypes ==
    /\ send \in [Ids -> SendState]
    /\ toRecv \in Seq(Message) /\ toSend \in Seq(Message)
    /\ data \in [Streams -> DataState]
    /\ sess \in [Attempts -> 0..MaxDrops] /\ asked \in {None} \cup 0..MaxDrops
    /\ calls \in 0..MaxCalls /\ drops \in 0..MaxDrops /\ mishaps \in 0..MaxMishaps

CallPcs == {"idle", "offered", "pumping", "sent", "ok", "error"}

\* An update of a call, or of a stream's sending end, is one again.
LEMMA CallEntry ==
  ASSUME NEW r \in SendState, NEW x \in {None} \cup BOOLEAN, NEW pc \in CallPcs,
         NEW cs \in SUBSET Chunks
  PROVE  /\ [r EXCEPT !.done = x] \in SendState
         /\ [r EXCEPT !.pc = pc, !.have = cs] \in SendState
         /\ [r EXCEPT !.pc = pc, !.done = x] \in SendState
         /\ [r EXCEPT !.claimed = cs] \in SendState
         /\ [r EXCEPT !.failed = TRUE] \in SendState
         /\ [r EXCEPT !.gone = TRUE] \in SendState
         /\ [Start(pc, r.on) EXCEPT !.done = x] \in SendState
         /\ r.done \in {None} \cup BOOLEAN /\ r.claimed \in SUBSET Chunks
BY DEF SendState, CallPcs, Start

LEMMA EmptyLine == <<>> \in Seq(Frame) /\ <<>> \in Seq(Message)
OBVIOUS

LEMMA DataEntry ==
  ASSUME NEW r \in DataState, NEW q \in Seq(Frame)
  PROVE  /\ \A f \in Frame : /\ [r EXCEPT !.pc = "writing", !.out = f] \in DataState
                             /\ [r EXCEPT !.pc = "writing", !.out = f].id = r.id
                             /\ [r EXCEPT !.pc = "writing", !.out = f].out = f
         /\ \A e \in {[r EXCEPT !.pc = "loop", !.q = q, !.out = None],
                      [r EXCEPT !.pc = "done", !.out = None, !.end = "reset"],
                      [r EXCEPT !.pc = "done", !.end = "eof"],
                      [r EXCEPT !.pc = "done", !.end = r.end]} :
              e \in DataState /\ e.id = r.id /\ e.pc # "writing"
         /\ \A e \in {[r EXCEPT !.end = "reset", !.q = q], [r EXCEPT !.q = q]} :
              e \in DataState /\ e.id = r.id /\ e.pc = r.pc /\ e.out = r.out
         /\ r.q \in Seq(Frame)
BY DEF DataState

\* One stream's entry is replaced by another about the same transfer.
LEMMA DataUpdate ==
  ASSUME WireTypes, Named, NEW s \in Streams, NEW e \in DataState, e.id = data[s].id,
         e.pc # "unopened" => data[s].pc # "unopened", e.pc = "writing" => e.out \in Frame,
         data' = [data EXCEPT ![s] = e]
  PROVE  data' \in [Streams -> DataState] /\ Named'
<1> HIDE DEF DataState
<1> QED
  BY DEF WireTypes, Named

LEMMA ReturnTypes ==
  ASSUME WireTypes, Named, NEW t \in Ids, NEW pc \in {"ok", "error", "sent"}, Return(t, pc)
  PROVE  WireTypes' /\ Named'
<1> DEFINE r == [Start(pc, send[t].on) EXCEPT !.done = send[t].done]
<1>1. send' = [send EXCEPT ![t] = r] /\ UNCHANGED <<toRecv, toSend, data, sess, asked, calls, drops>>
  BY DEF Return, wire
<1>2. r \in SendState
  <2>1. send[t] \in SendState /\ pc \in CallPcs
    BY DEF WireTypes, CallPcs
  <2>2. send[t].done \in {None} \cup BOOLEAN
    BY <2>1 DEF SendState
  <2> HIDE DEF SendState
  <2> QED
    BY <2>1, <2>2, CallEntry
<1> HIDE DEF r
<1>3. mishaps' = mishaps
  BY DEF Return
<1> QED
  BY <1>1, <1>2, <1>3 DEF WireTypes, Named

\* The sender's own steps.
LEMMA SenderTypesStep ==
  ASSUME TypeOK, WireTypes, Named, NEW t \in Ids, NEW drop \in BOOLEAN,
         \/ SendOffer(t) \/ OnAccept(t) \/ OnReject(t) \/ OnComplete(t) \/ Pumped(t)
         \/ SendDone(t) \/ GiveUp(t) \/ Abandon(t) \/ CancelSend(t, drop)
  PROVE  WireTypes' /\ Named'
<1> USE BoundsAreNat
<1>1. \A q \in Seq(Message), m \in Message : Append(q, m) \in Seq(Message)
  OBVIOUS
<1>2. \A q \in Seq(Message) : q # <<>> => Head(q) \in Message /\ Tail(q) \in Seq(Message)
  OBVIOUS
<1>3. ASSUME NEW type, Hears(type, t)
      PROVE  /\ toSend' \in Seq(Message)
             /\ Head(toSend).have \in SUBSET Chunks /\ Head(toSend).flag \in BOOLEAN
  <2>1. Head(toSend) \in Message /\ toSend' \in Seq(Message)
    BY <1>2, <1>3 DEF Hears, WireTypes
  <2> QED
    BY <2>1 DEF Message
<1>4. send \in [Ids -> SendState] /\ send[t] \in SendState
  BY DEF WireTypes
<1>5. CASE SendOffer(t)
  <2>1. toRecv' \in Seq(Message)
    BY <1>1, <1>5, Messages DEF SendOffer, WireTypes
  <2>2. Start("offered", drops) \in SendState
    BY DEF Start, SendState, WireTypes
  <2> QED
    BY <1>5, <2>1, <2>2 DEF SendOffer, WireTypes, Named
<1>6. CASE OnAccept(t)
  <2>1. toSend' \in Seq(Message) /\ Head(toSend).have \in SUBSET Chunks
    BY <1>3, <1>6 DEF OnAccept
  <2>2. toRecv' \in Seq(Message)
    BY <1>1, <1>6, Messages DEF OnAccept, WireTypes
  <2>3. send' \in [Ids -> SendState]
    <3>1. send' \in {send, [send EXCEPT ![t].pc = "pumping", ![t].have = Head(toSend).have]}
      BY <1>6 DEF OnAccept
    <3>2. [send[t] EXCEPT !.pc = "pumping", !.have = Head(toSend).have] \in SendState
      BY <2>1, <1>4, CallEntry DEF CallPcs
    <3> QED
      BY <1>4, <3>1, <3>2
  <2>4. data' \in [Streams -> DataState] /\ Named'
    <3>1. CASE data' = data
      BY <3>1 DEF WireTypes, Named
    <3>2. CASE data' # data
      <4> DEFINE fresh == [NoData EXCEPT !.pc = "loop", !.id = t]
      <4>1. data' = [s \in Streams |-> IF s \in NewStreams THEN fresh ELSE data[s]]
        BY <1>6, <3>2 DEF OnAccept
      <4>2. fresh \in DataState /\ fresh.id = t /\ fresh.pc = "loop"
        BY EmptyLine DEF NoData, DataState
      <4>3. t # None
        BY NoneIsFresh
      <4> HIDE DEF fresh
      <4> QED
        BY <4>1, <4>2, <4>3 DEF WireTypes, Named
    <3> QED
      BY <3>1, <3>2
  <2> QED
    BY <1>6, <2>1, <2>2, <2>3, <2>4 DEF OnAccept, WireTypes
<1>7. CASE OnReject(t)
  <2>1. toSend' \in Seq(Message)
    BY <1>3, <1>7 DEF OnReject
  <2>2. send' \in [Ids -> SendState]
    <3>1. send' \in {send, [send EXCEPT ![t].pc = "error", ![t].done = FALSE]}
      BY <1>7 DEF OnReject
    <3>2. [send[t] EXCEPT !.pc = "error", !.done = FALSE] \in SendState
      BY <1>4, CallEntry DEF CallPcs
    <3> QED
      BY <1>4, <3>1, <3>2
  <2> QED
    BY <1>7, <2>1, <2>2 DEF OnReject, WireTypes, Named
<1>8. CASE OnComplete(t)
  <2>1. toSend' \in Seq(Message) /\ Head(toSend).flag \in BOOLEAN
    BY <1>3, <1>8 DEF OnComplete
  <2>2. send' \in [Ids -> SendState]
    <3>1. send' \in {send, [send EXCEPT ![t].done = Head(toSend).flag]}
      BY <1>8 DEF OnComplete
    <3>2. [send[t] EXCEPT !.done = Head(toSend).flag] \in SendState
      <4>1. \A x \in {None} \cup BOOLEAN : [send[t] EXCEPT !.done = x] \in SendState
        <5>1. "ok" \in CallPcs /\ {} \in SUBSET Chunks
          BY DEF CallPcs
        <5> QED
          BY <1>4, <5>1, CallEntry
      <4> QED
        BY <2>1, <4>1
    <3> QED
      BY <1>4, <3>1, <3>2
  <2> QED
    BY <1>8, <2>1, <2>2 DEF OnComplete, WireTypes, Named
<1>9. CASE Pumped(t) \/ SendDone(t) \/ GiveUp(t)
  <2>1. \E pc \in {"ok", "error", "sent"} : Return(t, pc)
    BY <1>9 DEF Pumped, SendDone, GiveUp
  <2> QED
    BY <2>1, ReturnTypes
<1>10. CASE Abandon(t) \/ CancelSend(t, drop)
  <2>1. send' \in [Ids -> SendState]
    <3>1. send' = [send EXCEPT ![t].gone = TRUE]
      BY <1>10 DEF Abandon, CancelSend
    <3>2. [send[t] EXCEPT !.gone = TRUE] \in SendState
      BY <1>4, CallEntry DEF CallPcs
    <3> QED
      BY <1>4, <3>1, <3>2
  <2>2. toRecv' \in Seq(Message)
    BY <1>1, <1>10, Messages DEF Abandon, CancelSend, WireTypes, wire
  <2>3. mishaps' \in 0..MaxMishaps
    BY <1>10 DEF Abandon, CancelSend, Mishap, WireTypes
  <2>4. UNCHANGED <<toSend, data, sess, asked, calls, drops>>
    BY <1>10 DEF Abandon, CancelSend, wire
  <2> QED
    BY <2>1, <2>2, <2>3, <2>4 DEF WireTypes, Named
<1> QED
  BY <1>5, <1>6, <1>7, <1>8, <1>9, <1>10

\* Its workers' steps.
LEMMA WorkerTypesStep ==
  ASSUME WireTypes, Named, NEW s \in Streams, NEW m \in BOOLEAN,
         \/ SendChunk(s, m) \/ WriteFrame(s) \/ StopWorker(s) \/ SourceFails(s) \/ CloseStream(s)
  PROVE  WireTypes' /\ Named'
<1> USE BoundsAreNat
<1> DEFINE t == data[s].id
<1>1. /\ data \in [Streams -> DataState] /\ data[s] \in DataState /\ data[s].pc # "unopened"
      /\ t \in Ids /\ send \in [Ids -> SendState] /\ send[t] \in SendState
  <2>1. data[s].pc # "unopened" /\ data[s] \in DataState
    BY DEF SendChunk, WriteFrame, StopWorker, SourceFails, CloseStream, WireTypes
  <2>2. data[s].id # None
    BY <2>1 DEF Named
  <2>3. data[s].id \in {None} \cup Ids
    BY <2>1 DEF DataState
  <2> QED
    BY <2>1, <2>2, <2>3 DEF WireTypes
<1> HIDE DEF t
<1>2. CASE SendChunk(s, m)
  <2> DEFINE c == Claim(t)
             f == [c |-> c, match |-> m]
             cs == send[t].claimed \cup {c}
  <2>1. c \in Chunks /\ f \in Frame
    <3>1. Unclaimed(t) # {} /\ Unclaimed(t) \subseteq Chunks
      BY <1>2 DEF SendChunk, Unclaimed, t
    <3> QED
      BY <3>1 DEF Claim, Frame
  <2>2. /\ send' = [send EXCEPT ![t].claimed = cs]
        /\ data' = [data EXCEPT ![s].pc = "writing", ![s].out = f]
        /\ mishaps' \in 0..MaxMishaps
        /\ UNCHANGED <<toRecv, toSend, sess, asked, calls, drops>>
    BY <1>2 DEF SendChunk, Mishap, WireTypes, t
  <2> HIDE DEF c, f
  <2>3. [send[t] EXCEPT !.claimed = cs] \in SendState
    <3>1. cs \in SUBSET Chunks
      BY <1>1, <2>1 DEF SendState
    <3> HIDE DEF cs, SendState
    <3> QED
      BY <1>1, <3>1, CallEntry DEF CallPcs
  <2> DEFINE e == [data[s] EXCEPT !.pc = "writing", !.out = f]
  <2>4. e \in DataState /\ e.id = data[s].id /\ e.out = f
    <3>1. \A g \in Frame : /\ [data[s] EXCEPT !.pc = "writing", !.out = g] \in DataState
                           /\ [data[s] EXCEPT !.pc = "writing", !.out = g].id = data[s].id
                           /\ [data[s] EXCEPT !.pc = "writing", !.out = g].out = g
      BY <1>1, EmptyLine, DataEntry
    <3> QED
      BY <2>1, <3>1
  <2>5. data' = [data EXCEPT ![s] = e]
    BY <1>1, <2>2
  <2>6. send' = [send EXCEPT ![t] = [send[t] EXCEPT !.claimed = cs]]
    BY <2>2
  <2> HIDE DEF e, cs
  <2>7. data' \in [Streams -> DataState] /\ Named'
    BY <1>1, <2>1, <2>4, <2>5, DataUpdate
  <2>8. send' \in [Ids -> SendState]
    BY <1>1, <2>3, <2>6
  <2> QED
    BY <2>2, <2>7, <2>8 DEF WireTypes
<1>3. CASE WriteFrame(s)
  <2> DEFINE q == Append(data[s].q, data[s].out)
             e == [data[s] EXCEPT !.pc = "loop", !.q = q, !.out = None]
  <2>1. q \in Seq(Frame)
    <3>1. data[s].out \in Frame /\ data[s].q \in Seq(Frame)
      BY <1>1, <1>3 DEF WriteFrame, Named, DataState
    <3> QED
      BY <3>1
  <2>2. data' = [data EXCEPT ![s] = e]
    BY <1>1, <1>3 DEF WriteFrame
  <2> HIDE DEF q
  <2>3. e \in DataState /\ e.id = data[s].id /\ e.pc # "writing"
    BY <1>1, <2>1, DataEntry
  <2> HIDE DEF e
  <2>4. data' \in [Streams -> DataState] /\ Named'
    BY <1>1, <2>2, <2>3, DataUpdate
  <2> QED
    BY <1>3, <2>4 DEF WriteFrame, WireTypes
<1>4. CASE StopWorker(s) \/ SourceFails(s)
  <2> DEFINE e == [data[s] EXCEPT !.pc = "done", !.out = None, !.end = "reset"]
  <2>1. /\ Fails(s) /\ mishaps' \in 0..MaxMishaps
    BY <1>4 DEF StopWorker, SourceFails, Mishap, WireTypes
  <2>2. data' = [data EXCEPT ![s] = e] /\ send' = [send EXCEPT ![t].failed = TRUE]
    BY <1>1, <2>1 DEF Fails, t
  <2>3. e \in DataState /\ e.id = data[s].id /\ e.pc # "writing"
    BY <1>1, EmptyLine, DataEntry
  <2> HIDE DEF e
  <2>4. data' \in [Streams -> DataState] /\ Named'
    BY <1>1, <2>2, <2>3, DataUpdate
  <2>5. send' \in [Ids -> SendState]
    <3>1. [send[t] EXCEPT !.failed = TRUE] \in SendState
      BY <1>1, CallEntry DEF CallPcs
    <3> QED
      BY <1>1, <2>2, <3>1
  <2> QED
    BY <2>1, <2>4, <2>5 DEF Fails, WireTypes
<1>5. CASE CloseStream(s)
  <2> DEFINE e == [data[s] EXCEPT !.pc = "done", !.end = IF data[s].end = "open" THEN "eof" ELSE data[s].end]
  <2>1. data' = [data EXCEPT ![s] = e]
    BY <1>1, <1>5 DEF CloseStream
  <2>2. e \in DataState /\ e.id = data[s].id /\ e.pc # "writing"
    BY <1>1, EmptyLine, DataEntry
  <2> HIDE DEF e
  <2>3. data' \in [Streams -> DataState] /\ Named'
    BY <1>1, <2>1, <2>2, DataUpdate
  <2> QED
    BY <1>5, <2>3 DEF CloseStream, WireTypes
<1> QED
  BY <1>2, <1>3, <1>4, <1>5

\* The receiver's, and the session's.
LEMMA ReceiverTypesStep ==
  ASSUME TypeOK, References, WireTypes, Named, Asking,
         \/ \E t \in Ids : \/ Decline(t) \/ RecvOffer(t) \/ RecvReoffer(t) \/ RecvManifest(t)
                           \/ RecvCancel(t)
         \/ \E s \in Streams : \/ RecvStream(s) \/ RefuseStream(s) \/ RecvChunk(s) \/ RecvEnd(s)
                               \/ RecvTimeout(s) \/ RecvWrite(s) \/ RecvStep(s)
         \/ \E a \in Attempts : RecvReport(a) \/ RecvFinish(a) \/ RecvTick(a)
         \/ RecvHandler \/ RecvReplace \/ DropSession
         \/ UNCHANGED allVars
  PROVE  WireTypes' /\ Named'
<1> USE BoundsAreNat
<1>1. \A q \in Seq(Message), m \in Message : Append(q, m) \in Seq(Message)
  OBVIOUS
<1>2. \A q \in Seq(Message) : q # <<>> => Head(q) \in Message /\ Tail(q) \in Seq(Message)
  OBVIOUS
<1>3. ASSUME NEW type, NEW t \in Ids, Arrives(type, t) PROVE toRecv' \in Seq(Message)
  BY <1>2, <1>3 DEF Arrives, WireTypes
<1>4. ASSUME NEW session, NEW m \in Message, Reply(session, m) PROVE toSend' \in Seq(Message)
  BY <1>1, <1>4 DEF Reply, WireTypes
<1>5. ASSUME NEW t \in Ids, Decline(t) PROVE WireTypes' /\ Named'
  BY <1>1, <1>3, <1>5, Messages DEF Decline, WireTypes, Named
<1>6. ASSUME NEW t \in Ids, RecvOffer(t) PROVE WireTypes' /\ Named'
  <2>1. toRecv' \in Seq(Message) /\ toSend' \in Seq(Message)
    BY <1>3, <1>4, <1>6, Messages DEF RecvOffer
  <2> QED
    BY <1>6, <2>1 DEF RecvOffer, WireTypes, Named
<1>7. ASSUME NEW t \in Ids, RecvReoffer(t) \/ RecvManifest(t) \/ RecvCancel(t)
      PROVE  WireTypes' /\ Named'
  <2>1. toRecv' \in Seq(Message)
    BY <1>3, <1>7 DEF RecvReoffer, RecvManifest, RecvCancel
  <2> QED
    BY <1>7, <2>1 DEF RecvReoffer, RecvManifest, RecvCancel, WireTypes, Named
<1>8. CASE RecvReplace
  <2>1. handler.id \in Ids /\ asked \in 0..MaxDrops
    <3>1. Types /\ CoreReferences /\ None \notin Ids /\ handler.op = "supersede"
      BY <1>8, TypesOf, TypeParts, NoneIsFresh DEF Core, RecvReplace, ReplaceSuperseded
    <3>2. drops \in 0..MaxDrops /\ asked \in 0..drops
      BY <3>1 DEF WireTypes, Asking
    <3> QED
      BY <3>1, <3>2 DEF CoreReferences, Types
  <2>2. toSend' \in Seq(Message)
    BY <1>4, <1>8, <2>1, Messages DEF RecvReplace
  <2> QED
    BY <1>8, <2>1, <2>2 DEF RecvReplace, WireTypes, Named
<1>9. ASSUME NEW a \in Attempts, RecvReport(a) PROVE WireTypes' /\ Named'
  <2>1. owner[a] \in Ids /\ good[a] \in BOOLEAN
    <3>1. Types /\ CoreReferences /\ fin[a] = "reporting"
      BY <1>9, TypesOf, TypeParts DEF Core, RecvReport, Report
    <3> QED
      BY <3>1 DEF CoreReferences, Types
  <2>2. toSend' \in Seq(Message)
    BY <1>4, <1>9, <2>1, Messages DEF RecvReport
  <2> QED
    BY <1>9, <2>2 DEF RecvReport, WireTypes, Named
<1>10. ASSUME UNCHANGED sendVars PROVE WireTypes' /\ Named'
  BY <1>10 DEF sendVars, wire, WireTypes, Named
<1>11. ASSUME NEW s \in Streams, Reset(s) PROVE data' \in [Streams -> DataState] /\ Named'
  <2> DEFINE e == [data[s] EXCEPT !.end = "reset", !.q = <<>>]
  <2>1. data[s] \in DataState /\ (data[s].pc = "writing" => data[s].out \in Frame)
    BY <1>11 DEF WireTypes, Named
  <2>2. data' = [data EXCEPT ![s] = e]
    BY <1>11, <2>1 DEF Reset, WireTypes
  <2>3. e \in DataState /\ e.id = data[s].id /\ e.pc = data[s].pc /\ e.out = data[s].out
    BY <2>1, EmptyLine, DataEntry
  <2> HIDE DEF e
  <2> QED
    BY <1>11, <2>1, <2>2, <2>3, DataUpdate
<1>12. ASSUME NEW s \in Streams, RecvChunk(s) PROVE WireTypes' /\ Named'
  <2> DEFINE e == [data[s] EXCEPT !.q = Tail(data[s].q)]
  <2>1. data[s] \in DataState /\ data[s].q # <<>> /\ data' = [data EXCEPT ![s] = e]
    BY <1>12 DEF RecvChunk, WireTypes
  <2>2. Tail(data[s].q) \in Seq(Frame)
    <3>1. data[s].q \in Seq(Frame)
      BY <2>1 DEF DataState
    <3> QED
      BY <2>1, <3>1
  <2>3. e \in DataState /\ e.id = data[s].id /\ e.pc = data[s].pc /\ e.out = data[s].out
    BY <2>1, <2>2, DataEntry
  <2> HIDE DEF e
  <2>4. data[s].pc = "writing" => data[s].out \in Frame
    BY DEF Named
  <2>5. data' \in [Streams -> DataState] /\ Named'
    BY <2>1, <2>3, <2>4, DataUpdate
  <2> QED
    BY <1>12, <2>5 DEF RecvChunk, WireTypes
<1>13. ASSUME NEW s \in Streams, RefuseStream(s) PROVE WireTypes' /\ Named'
  <2>1. data' \in [Streams -> DataState] /\ Named'
    BY <1>11, <1>13 DEF RefuseStream
  <2> QED
    BY <1>13, <2>1 DEF RefuseStream, WireTypes
<1>14. ASSUME NEW s \in Streams, RecvTimeout(s) \/ RecvWrite(s) PROVE WireTypes' /\ Named'
  <2>1. Reset(s) \/ UNCHANGED data
    BY <1>14 DEF RecvTimeout, RecvWrite
  <2>2. data' \in [Streams -> DataState] /\ Named'
    <3>1. CASE UNCHANGED data
      BY <3>1 DEF WireTypes, Named
    <3> QED
      BY <1>11, <2>1, <3>1
  <2>3. mishaps' \in 0..MaxMishaps
    BY <1>14 DEF RecvTimeout, RecvWrite, Mishap, WireTypes
  <2> QED
    BY <1>14, <2>2, <2>3 DEF RecvTimeout, RecvWrite, WireTypes
<1>15. CASE DropSession
  <2>1. data' \in [Streams -> DataState] /\ Named'
    <3> DEFINE cut(s) == [data[s] EXCEPT !.end = "reset", !.q = <<>>]
    <3>1. data' = [s \in Streams |-> IF data[s].pc = "unopened" THEN data[s] ELSE cut(s)]
      BY <1>15, Zenon DEF DropSession
    <3>2. ASSUME NEW s \in Streams
          PROVE  /\ cut(s) \in DataState /\ cut(s).id = data[s].id
                 /\ cut(s).pc = data[s].pc /\ cut(s).out = data[s].out
      BY EmptyLine, DataEntry DEF WireTypes
    <3> HIDE DEF cut, DataState
    <3> QED
      BY <3>1, <3>2 DEF WireTypes, Named
  <2>2. drops' \in 0..MaxDrops /\ UNCHANGED <<send, sess, asked, calls, mishaps>>
    <3>1. /\ drops < MaxDrops /\ drops' = drops + 1
          /\ UNCHANGED <<send, sess, asked, calls, mishaps>>
      BY <1>15, Zenon DEF DropSession
    <3> QED
      BY <3>1 DEF WireTypes
  <2>3. toRecv' \in Seq(Message) /\ toSend' \in Seq(Message)
    BY <1>15, EmptyLine DEF DropSession
  <2> QED
    BY <2>1, <2>2, <2>3 DEF WireTypes
<1>16. ASSUME NEW s \in Streams, RecvStream(s) \/ RecvEnd(s) \/ RecvStep(s) PROVE WireTypes' /\ Named'
  BY <1>10, <1>16 DEF RecvStream, RecvEnd, RecvStep
<1>17. ASSUME NEW a \in Attempts, RecvFinish(a) \/ RecvTick(a) PROVE WireTypes' /\ Named'
  BY <1>10, <1>17 DEF RecvFinish, RecvTick
<1>18. RecvHandler \/ UNCHANGED allVars => WireTypes' /\ Named'
  BY <1>10 DEF RecvHandler, allVars
<1> HIDE DEF WireTypes, Named
<1> QED
  BY <1>5, <1>6, <1>7, <1>8, <1>9, <1>12, <1>13, <1>14, <1>15, <1>16, <1>17, <1>18

\* What makes the types inductive, whatever the destinations.
XferTypes == TypeOK /\ References /\ WireTypes /\ Named /\ Sessions

LEMMA XferTypesStep ==
  ASSUME XferTypes, [XferNext]_allVars
  PROVE  XferTypes' /\ [Next]_vars
<1>1. XferTypeOK /\ Asking
  BY DEF XferTypes, WireTypes, XferTypeOK, Sessions
<1>2. [Next]_vars
  BY <1>1, XferReceives DEF XferTypes
<1>3. TypeOK' /\ References'
  BY <1>2, TypeStep DEF XferTypes
<1>4. WireTypes' /\ Named'
  <2> USE DEF XferTypes
  <2>1. ASSUME NEW t \in Ids, NEW drop \in BOOLEAN,
               \/ SendOffer(t) \/ OnAccept(t) \/ OnReject(t) \/ OnComplete(t) \/ Pumped(t)
               \/ SendDone(t) \/ GiveUp(t) \/ Abandon(t) \/ CancelSend(t, drop)
        PROVE  WireTypes' /\ Named'
    BY <2>1, SenderTypesStep
  <2>2. ASSUME NEW s \in Streams, NEW m \in BOOLEAN,
               \/ SendChunk(s, m) \/ WriteFrame(s) \/ StopWorker(s) \/ SourceFails(s) \/ CloseStream(s)
        PROVE  WireTypes' /\ Named'
    BY <2>2, WorkerTypesStep
  <2>3. ASSUME \/ \E t \in Ids : \/ Decline(t) \/ RecvOffer(t) \/ RecvReoffer(t) \/ RecvManifest(t)
                                 \/ RecvCancel(t)
               \/ \E s \in Streams : \/ RecvStream(s) \/ RefuseStream(s) \/ RecvChunk(s) \/ RecvEnd(s)
                                     \/ RecvTimeout(s) \/ RecvWrite(s) \/ RecvStep(s)
               \/ \E a \in Attempts : RecvReport(a) \/ RecvFinish(a) \/ RecvTick(a)
               \/ RecvHandler \/ RecvReplace \/ DropSession
               \/ UNCHANGED allVars
        PROVE  WireTypes' /\ Named'
    BY <1>1, <2>3, ReceiverTypesStep
  <2> HIDE DEF XferTypes
  <2> QED
    BY <2>1, <2>2, <2>3 DEF XferNext
<1>5. Sessions'
  BY <1>1, SessionsStep DEF XferTypes
<1> QED
  BY <1>2, <1>3, <1>4, <1>5 DEF XferTypes

LEMMA XferTypesInit == XferInit => XferTypes
<1> SUFFICES ASSUME XferInit PROVE XferTypes
  OBVIOUS
<1>1. TypeOK /\ References
  BY TypeInit DEF XferInit
<1>2. Start("idle", 0) \in SendState /\ NoData \in DataState /\ NoData.pc = "unopened"
  BY BoundsAreNat, EmptyLine DEF Start, SendState, NoData, DataState
<1>3. send \in [Ids -> SendState] /\ data \in [Streams -> DataState] /\ Named
  BY <1>2 DEF XferInit, Named
<1>4. toRecv \in Seq(Message) /\ toSend \in Seq(Message)
  BY EmptyLine DEF XferInit
<1>5. /\ sess \in [Attempts -> 0..MaxDrops] /\ asked \in {None} \cup 0..MaxDrops
      /\ calls \in 0..MaxCalls /\ drops \in 0..MaxDrops /\ mishaps \in 0..MaxMishaps
  BY BoundsAreNat DEF XferInit
<1>6. Sessions
  BY DEF XferInit, Init, Sessions, Asking, Free, Task
<1> QED
  BY <1>1, <1>3, <1>4, <1>5, <1>6 DEF WireTypes, XferTypes

\* Every variable of the receiver, of the sender and of what is between them keeps its
\* type.
THEOREM XferTypeCorrect == XferSpec => []XferTypeOK
<1>1. XferTypes => XferTypeOK
  BY DEF XferTypes, WireTypes, XferTypeOK
<1>2. XferTypes /\ [XferNext]_allVars => XferTypes'
  BY XferTypesStep
<1> QED
  BY <1>1, <1>2, XferTypesInit, PTL DEF XferSpec

\* A TransferComplete{ok: true} on its way, or taken by a call, is about a delivered
\* transfer, or a revived one.
Kept == Delivered \cup revived
Honest == {m \in Message : m.type = "complete" /\ m.flag => m.id \in Kept}
Truthful ==
    /\ toSend \in Seq(Honest)
    /\ \A t \in Ids : send[t].done = TRUE => t \in Kept

LEMMA TruthfulStep ==
  ASSUME TypeOK, References, WireTypes, Named, Sessions, Committing, Truthful,
         Kept \subseteq Kept', [XferNext]_allVars
  PROVE  Truthful'
<1>1. \A q \in Seq(Honest), m \in Honest : Append(q, m) \in Seq(Honest)
  OBVIOUS
<1>2. \A q \in Seq(Honest) : q # <<>> => Head(q) \in Honest /\ Tail(q) \in Seq(Honest)
  OBVIOUS
<1>3. \A t \in Ids : Msg("reject", t) \in Honest /\ Accepting(t) \in Honest
  BY Messages DEF Honest, Msg, Accepting
<1>4. Types /\ CoreReferences /\ None \notin Attempts /\ None \notin Ids
  BY TypesOf, TypeParts, NoneIsFresh DEF Core
<1>5. ASSUME NEW session, NEW m \in Honest, Reply(session, m) PROVE toSend' \in Seq(Honest)
  BY <1>1, <1>5 DEF Reply, Truthful
<1>6. ASSUME NEW type, NEW t \in Ids, Hears(type, t)
      PROVE  toSend' \in Seq(Honest) /\ Head(toSend) \in Honest
  BY <1>2, <1>6 DEF Hears, Truthful
<1>7. ASSUME toSend' \in Seq(Honest), \A t \in Ids : send'[t].done = TRUE => t \in Kept
      PROVE  Truthful'
  <2>1. Honest \subseteq Honest'
    BY DEF Honest
  <2>2. toSend' \in Seq(Honest')
    BY <1>7, <2>1
  <2> QED
    BY <1>7, <2>2 DEF Truthful
<1>8. ASSUME toSend' \in Seq(Honest), \A t \in Ids : send'[t].done = send[t].done PROVE Truthful'
  BY <1>7, <1>8 DEF Truthful
<1>9. ASSUME UNCHANGED toSend, \A t \in Ids : send'[t].done = send[t].done PROVE Truthful'
  BY <1>8, <1>9 DEF Truthful
<1>10. FALSE # TRUE /\ None # TRUE
  BY NoneIsNoValue
<1>11. ASSUME NEW t \in Ids, SendOffer(t) PROVE Truthful'
  <2>1. /\ toSend' = toSend
        /\ \A u \in Ids : send'[u].done \in {send[u].done, None}
    BY <1>11 DEF SendOffer, Start, WireTypes
  <2> QED
    BY <1>7, <1>10, <2>1 DEF Truthful
<1>12. ASSUME NEW t \in Ids, OnAccept(t) PROVE Truthful'
  <2>1. \A u \in Ids : send'[u].done = send[u].done
    <3> DEFINE h == Head(toSend).have
               r == [send[t] EXCEPT !.pc = "pumping", !.have = h]
    <3>1. send' = send \/ send' = [send EXCEPT ![t].pc = "pumping", ![t].have = h]
      BY <1>12, Zenon DEF OnAccept
    <3> HIDE DEF h
    <3>2. r.done = send[t].done
      BY DEF WireTypes, SendState
    <3>3. send' = send \/ send' = [send EXCEPT ![t] = r]
      BY <3>1 DEF WireTypes
    <3> HIDE DEF r
    <3> QED
      BY <3>2, <3>3 DEF WireTypes
  <2> QED
    BY <1>6, <1>8, <1>12, <2>1 DEF OnAccept
<1>13. ASSUME NEW t \in Ids, OnReject(t) PROVE Truthful'
  <2>1. \A u \in Ids : send'[u].done \in {send[u].done, FALSE}
    BY <1>13 DEF OnReject, WireTypes, SendState
  <2> QED
    BY <1>6, <1>7, <1>10, <1>13, <2>1 DEF OnReject, Truthful
<1>14. ASSUME NEW t \in Ids, OnComplete(t) PROVE Truthful'
  <2>1. \A u \in Ids : \/ send'[u].done = send[u].done
                       \/ u = t /\ send'[u].done = Head(toSend).flag
    BY <1>14 DEF OnComplete, WireTypes, SendState
  <2>2. Head(toSend).flag = TRUE => t \in Kept
    BY <1>6, <1>14 DEF OnComplete, Hears, Honest
  <2> QED
    BY <1>6, <1>7, <1>14, <2>1, <2>2 DEF OnComplete, Truthful
\* The entry of one call is updated, but not its verdict.
<1>15. ASSUME NEW t \in Ids, NEW r, r.done = send[t].done, send' = [send EXCEPT ![t] = r], UNCHANGED toSend
       PROVE  Truthful'
  <2>1. \A u \in Ids : send'[u].done = send[u].done
    BY <1>15 DEF WireTypes
  <2> QED
    BY <1>9, <1>15, <2>1
<1>16. ASSUME NEW t \in Ids, NEW pc, Return(t, pc) PROVE Truthful'
  <2> DEFINE r == [Start(pc, send[t].on) EXCEPT !.done = send[t].done]
  <2>1. r.done = send[t].done
    BY DEF Start
  <2>2. send' = [send EXCEPT ![t] = r] /\ UNCHANGED toSend
    BY <1>16 DEF Return, wire
  <2> HIDE DEF r
  <2> QED
    BY <1>15, <2>1, <2>2
<1>17. ASSUME NEW t \in Ids, Pumped(t) \/ SendDone(t) \/ GiveUp(t) PROVE Truthful'
  <2>1. \E pc \in {"ok", "error", "sent"} : Return(t, pc)
    BY <1>17 DEF Pumped, SendDone, GiveUp
  <2> QED
    BY <1>16, <2>1
<1>18. ASSUME NEW t \in Ids, NEW drop \in BOOLEAN, Abandon(t) \/ CancelSend(t, drop) PROVE Truthful'
  <2> DEFINE r == [send[t] EXCEPT !.gone = TRUE]
  <2>1. send' = [send EXCEPT ![t] = r] /\ UNCHANGED toSend
    BY <1>18 DEF Abandon, CancelSend, wire
  <2>2. r.done = send[t].done
    BY DEF WireTypes, SendState
  <2> HIDE DEF r
  <2> QED
    BY <1>15, <2>1, <2>2
<1>19. ASSUME NEW s \in Streams, data[s].pc # "unopened" PROVE data[s].id \in Ids
  BY <1>19 DEF Named, WireTypes, DataState
<1>20. ASSUME NEW s \in Streams, NEW m \in BOOLEAN, SendChunk(s, m) PROVE Truthful'
  <2> DEFINE t == data[s].id
             cs == send[t].claimed \cup {Claim(t)}
             r == [send[t] EXCEPT !.claimed = cs]
  <2>1. t \in Ids
    BY <1>19, <1>20 DEF SendChunk
  <2>2. send' = [send EXCEPT ![t] = r] /\ UNCHANGED toSend
    BY <1>20 DEF SendChunk
  <2> HIDE DEF t, cs
  <2>3. r.done = send[t].done
    BY <2>1 DEF WireTypes, SendState
  <2> HIDE DEF r
  <2> QED
    BY <1>15, <2>1, <2>2, <2>3
<1>21. ASSUME NEW s \in Streams, StopWorker(s) \/ SourceFails(s) PROVE Truthful'
  <2> DEFINE t == data[s].id
             r == [send[t] EXCEPT !.failed = TRUE]
  <2>1. t \in Ids
    BY <1>19, <1>21 DEF StopWorker, SourceFails
  <2>2. send' = [send EXCEPT ![t] = r] /\ UNCHANGED toSend
    BY <1>21 DEF StopWorker, SourceFails, Fails
  <2> HIDE DEF t
  <2>3. r.done = send[t].done
    BY <2>1 DEF WireTypes, SendState
  <2> HIDE DEF r
  <2> QED
    BY <1>15, <2>1, <2>2, <2>3
<1>22. ASSUME NEW s \in Streams,
              \/ WriteFrame(s) \/ CloseStream(s) \/ RefuseStream(s) \/ RecvChunk(s)
              \/ RecvTimeout(s) \/ RecvWrite(s)
       PROVE  Truthful'
  BY <1>9, <1>22 DEF WriteFrame, CloseStream, RefuseStream, RecvChunk, RecvTimeout, RecvWrite
<1>23. CASE DropSession
  <2>1. toSend' = <<>> /\ send' = send
    BY <1>23, Zenon DEF DropSession
  <2> QED
    BY <1>8, <2>1
<1>24. ASSUME NEW t \in Ids, Decline(t) PROVE Truthful'
  BY <1>1, <1>3, <1>8, <1>24 DEF Decline, Truthful
<1>25. ASSUME NEW t \in Ids, RecvOffer(t) PROVE Truthful'
  BY <1>3, <1>5, <1>8, <1>25 DEF RecvOffer
<1>26. ASSUME NEW t \in Ids, RecvReoffer(t) \/ RecvManifest(t) \/ RecvCancel(t) PROVE Truthful'
  BY <1>9, <1>26 DEF RecvReoffer, RecvManifest, RecvCancel
<1>27. CASE RecvReplace
  <2>1. handler.id \in Ids
    BY <1>4, <1>27 DEF RecvReplace, ReplaceSuperseded, CoreReferences, Types
  <2> QED
    BY <1>3, <1>5, <1>8, <1>27, <2>1 DEF RecvReplace
\* An attempt whose accept was lost answers on a session that is over.
<1>28. ASSUME NEW a \in Attempts, RecvReport(a) PROVE Truthful'
  <2> DEFINE m == [Msg("complete", owner[a]) EXCEPT !.flag = good[a]]
  <2>1. /\ owner[a] \in Ids /\ good[a] \in BOOLEAN /\ fin[a] = "reporting"
        /\ Reply(sess[a], m) /\ UNCHANGED send
    <3>1. fin[a] = "reporting" /\ Reply(sess[a], m) /\ UNCHANGED send
      BY <1>28 DEF RecvReport, Report
    <3> QED
      BY <1>4, <3>1 DEF CoreReferences, Types
  <2>2. m \in Message /\ m.id = owner[a] /\ (m.flag <=> good[a])
    BY <2>1, Messages DEF Msg
  <2>3. ASSUME sess[a] = drops, good[a] PROVE owner[a] \in Kept
    <3>1. ~lost[a]
      <4>1. drops \in Nat /\ (lost[a] => sess[a] < drops)
        BY BoundsAreNat DEF WireTypes, Sessions
      <4> QED
        BY <2>3, <4>1
    <3>2. CASE owner[a] \in revived
      BY <3>2 DEF Kept
    <3>3. CASE owner[a] \notin revived
      <4>1. \A f \in Files : Whole(final[PathOf(owner[a], f)], owner[a], f)
        BY <2>1, <2>3, <3>1, <3>3 DEF Committing, Sound, InPlace
      <4> QED
        BY <2>1, <4>1 DEF Kept, Delivered
    <3> QED
      BY <3>2, <3>3
  <2> HIDE DEF m
  <2>4. CASE sess[a] = drops
    <3>1. m \in Honest
      BY <2>2, <2>3, <2>4 DEF Honest
    <3> QED
      BY <1>5, <1>8, <2>1, <3>1
  <2>5. CASE sess[a] # drops
    BY <1>9, <2>1, <2>5 DEF Reply
  <2> QED
    BY <2>4, <2>5
<1>29. ASSUME UNCHANGED sendVars PROVE Truthful'
  BY <1>9, <1>29 DEF sendVars, wire
<1>30. ASSUME NEW s \in Streams, RecvStream(s) \/ RecvEnd(s) \/ RecvStep(s) PROVE Truthful'
  BY <1>29, <1>30 DEF RecvStream, RecvEnd, RecvStep
<1>31. ASSUME NEW a \in Attempts, RecvFinish(a) \/ RecvTick(a) PROVE Truthful'
  BY <1>29, <1>31 DEF RecvFinish, RecvTick
<1>32. RecvHandler \/ UNCHANGED allVars => Truthful'
  BY <1>29 DEF RecvHandler, allVars
<1> QED
  BY <1>11, <1>12, <1>13, <1>14, <1>17, <1>18, <1>20, <1>21, <1>22, <1>23, <1>24, <1>25, <1>26,
     <1>27, <1>28, <1>30, <1>31, <1>32 DEF XferNext

\* The inductive invariant of a whole transfer.
XferInv == IInv /\ WireTypes /\ Named /\ Sessions /\ Truthful

LEMMA XferInvTypes == XferInv => XferTypes
BY DEF XferInv, XferTypes, IInv

\* What a step does to what has been delivered.
LEMMA DeliveredStep ==
  ASSUME XferInv, DistinctDestinations, [XferNext]_allVars
  PROVE  /\ [Next]_vars
         /\ Kept \subseteq Kept'
         /\ \/ UNCHANGED <<Delivered, revived>>
            \/ /\ revived' = revived
               /\ \E t \in Ids \ Delivered : Delivered' = Delivered \cup {t}
            \/ revived' = revived /\ \E t \in revived : Delivered' = Delivered \ {t}
            \/ Delivered' = Delivered /\ \E t \in Ids : revived' = revived \cup {t}
<1>1. [Next]_vars
  BY XferInvTypes, XferTypesStep
<1>2. TypeOK /\ References /\ Holders /\ PartsOpen /\ Committing
  BY DEF XferInv, IInv, Registry, DiskState
<1>3. \/ UNCHANGED <<Delivered, revived>>
      \/ revived' = revived /\ \E t \in Ids \ Delivered : Delivered' = Delivered \cup {t}
      \/ revived' = revived /\ \E t \in revived : Delivered' = Delivered \ {t}
      \/ Delivered' = Delivered /\ \E t \in Ids : revived' = revived \cup {t}
  BY <1>1, <1>2, FinalStep
<1>4. Kept \subseteq Kept'
  BY <1>3 DEF Kept
<1> QED
  BY <1>1, <1>3, <1>4

LEMMA XferStep ==
  ASSUME XferInv, DistinctDestinations, [XferNext]_allVars
  PROVE  XferInv'
<1>1. IInv'
  BY DeliveredStep, InvStep DEF XferInv
<1>2. XferTypes'
  BY XferInvTypes, XferTypesStep
<1>3. Kept \subseteq Kept'
  BY DeliveredStep
<1>4. Truthful'
  BY <1>3, TruthfulStep DEF XferInv, IInv
<1> QED
  BY <1>1, <1>2, <1>4 DEF XferInv, XferTypes

LEMMA XferInitInv == XferInit => XferInv
<1> SUFFICES ASSUME XferInit PROVE XferInv
  OBVIOUS
<1>1. IInv
  BY InitInv DEF XferInit
<1>2. XferTypes
  BY XferTypesInit
<1>3. Truthful
  <2>1. toSend \in Seq(Honest)
    BY DEF XferInit
  <2>2. \A t \in Ids : send[t].done = None
    BY DEF XferInit, Start
  <2> QED
    BY <2>1, <2>2, NoneIsNoValue DEF Truthful
<1> QED
  BY <1>1, <1>2, <1>3 DEF XferInv, XferTypes

\* The invariant of a whole transfer, from distinct destinations alone: whatever is lost,
\* abandoned, cancelled, refused, stuck or offered again, and when.
THEOREM XferInvariance ==
  ASSUME DistinctDestinations
  PROVE  XferSpec => []XferInv
BY XferInitInv, XferStep, PTL DEF XferSpec

\* A step of the sender that answers no call.
LEMMA SameResult ==
  ASSUME \A t \in Ids : \/ send'[t].pc = send[t].pc
                        \/ {send[t].pc, send'[t].pc} \subseteq Busy \cup {"idle"}
  PROVE  Result' = Result
BY DEF Result, Busy

\* Send fails: by a refusal, a failed report, or its caller's doing.
LEMMA OneFails ==
  ASSUME WireTypes, NEW t \in Ids, send[t].pc \in Busy, send'[t].pc = "error",
         \A u \in Ids \ {t} : send'[u].pc = send[u].pc, UNCHANGED <<Delivered, revived>>
  PROVE  Delivery!Next
<1>1. Result[t] = "pending" /\ Result' = [Result EXCEPT ![t] = "error"]
  BY DEF Result, Busy
<1>2. Delivery!Fail(t)
  BY <1>1 DEF Delivery!Fail
<1> QED
  BY <1>2 DEF Delivery!Next

\* Every step of a transfer is a step of the abstract delivery, or none.
LEMMA XferDelivers ==
  ASSUME XferInv, DistinctDestinations, [XferNext]_allVars
  PROVE  [Delivery!Next]_<<Delivered, revived, Result>>
<1>1. WireTypes /\ Truthful /\ Named
  BY DEF XferInv
<1>2. \/ UNCHANGED <<Delivered, revived>>
      \/ revived' = revived /\ \E t \in Ids \ Delivered : Delivered' = Delivered \cup {t}
      \/ revived' = revived /\ \E t \in revived : Delivered' = Delivered \ {t}
      \/ Delivered' = Delivered /\ \E t \in Ids : revived' = revived \cup {t}
  BY DeliveredStep
<1> DEFINE Abstract == [Delivery!Next]_<<Delivered, revived, Result>>
\* The receiver's steps answer no call.
<1>3. ASSUME UNCHANGED send PROVE Abstract
  <2>1. Result' = Result
    BY <1>3 DEF Result
  <2>2. ASSUME NEW t \in Ids \ Delivered, revived' = revived, Delivered' = Delivered \cup {t}
        PROVE  Delivery!Next
    BY <2>1, <2>2 DEF Delivery!Deliver, Delivery!Next
  <2>3. ASSUME NEW t \in revived, revived' = revived, Delivered' = Delivered \ {t} PROVE Delivery!Next
    <3>1. t \in Ids
      BY DEF XferInv, IInv, TypeOK
    <3> QED
      BY <2>1, <2>3, <3>1 DEF Delivery!Spoil, Delivery!Next
  <2>4. ASSUME NEW t \in Ids, Delivered' = Delivered, revived' = revived \cup {t} PROVE Delivery!Next
    BY <2>1, <2>4 DEF Delivery!Void, Delivery!Next
  <2> QED
    BY <1>2, <2>1, <2>2, <2>3, <2>4
\* The sender's steps deliver nothing.
<1>4. UNCHANGED vars => UNCHANGED <<Delivered, revived>>
  BY DEF vars, disk, control, history, Delivered
<1>5. ASSUME UNCHANGED vars, \A t \in Ids : \/ send'[t].pc = send[t].pc
                                            \/ {send[t].pc, send'[t].pc} \subseteq Busy \cup {"idle"}
      PROVE  Abstract
  BY <1>4, <1>5, SameResult
<1>6. ASSUME NEW t \in Ids, SendOffer(t) PROVE Abstract
  <2>1. /\ UNCHANGED vars /\ send'[t].pc = "offered"
        /\ \A u \in Ids \ {t} : send'[u] = send[u]
    BY <1>1, <1>6 DEF SendOffer, Start, WireTypes
  <2>2. CASE send[t].pc = "idle"
    BY <1>5, <2>1, <2>2 DEF Busy
  <2>3. CASE send[t].pc = "error"
    <3>1. Result[t] = "error" /\ Result' = [Result EXCEPT ![t] = "pending"]
      BY <2>1, <2>3 DEF Result
    <3>2. Delivery!Retry(t)
      BY <1>4, <2>1, <3>1 DEF Delivery!Retry
    <3> QED
      BY <3>2 DEF Delivery!Next
  <2> QED
    BY <1>6, <2>2, <2>3 DEF SendOffer
\* The entry of one call is updated, but not where the call is.
<1>7. ASSUME NEW t \in Ids, NEW r, send' = [send EXCEPT ![t] = r], UNCHANGED vars,
             r.pc = send[t].pc \/ {send[t].pc, r.pc} \subseteq Busy \cup {"idle"}
      PROVE  Abstract
  <2>1. \A u \in Ids : u # t => send'[u] = send[u]
    BY <1>1, <1>7 DEF WireTypes
  <2>2. send'[t] = r
    BY <1>1, <1>7 DEF WireTypes
  <2> QED
    BY <1>5, <1>7, <2>1, <2>2
<1>8. ASSUME NEW t \in Ids, OnAccept(t) PROVE Abstract
  <2> DEFINE h == Head(toSend).have
             r == [send[t] EXCEPT !.pc = "pumping", !.have = h]
  <2>1. \/ send' = send
        \/ send' = [send EXCEPT ![t].pc = "pumping", ![t].have = h] /\ send[t].pc = "offered"
    BY <1>8, Zenon DEF OnAccept
  <2>2. UNCHANGED vars
    BY <1>8 DEF OnAccept
  <2> HIDE DEF h
  <2>3. r.pc = "pumping"
    BY <1>1 DEF WireTypes, SendState
  <2>4. send' = send \/ (send' = [send EXCEPT ![t] = r] /\ send[t].pc = "offered")
    BY <1>1, <2>1 DEF WireTypes
  <2> HIDE DEF r
  <2> QED
    BY <1>3, <1>7, <2>2, <2>3, <2>4 DEF Busy
<1>9. ASSUME NEW t \in Ids, OnReject(t) PROVE Abstract
  <2>1. UNCHANGED vars
    BY <1>9 DEF OnReject
  <2>2. CASE send[t].pc = "offered"
    <3>1. send'[t].pc = "error" /\ \A u \in Ids \ {t} : send'[u].pc = send[u].pc
      BY <1>1, <1>9, <2>2 DEF OnReject, WireTypes, SendState
    <3> QED
      BY <1>1, <1>4, <2>1, <2>2, <3>1, OneFails DEF Busy
  <2>3. CASE send[t].pc # "offered"
    BY <1>3, <1>9, <2>3 DEF OnReject
  <2> QED
    BY <2>2, <2>3
<1>10. ASSUME NEW t \in Ids, OnComplete(t) PROVE Abstract
  <2>1. UNCHANGED vars
    BY <1>10 DEF OnComplete
  <2>2. \A u \in Ids : send'[u].pc = send[u].pc
    BY <1>1, <1>10 DEF OnComplete, WireTypes, SendState
  <2> QED
    BY <1>5, <2>1, <2>2
<1>11. ASSUME NEW t \in Ids, NEW pc \in {"ok", "error", "sent"}, Return(t, pc)
       PROVE  /\ UNCHANGED vars
              /\ send'[t].pc = pc /\ \A u \in Ids \ {t} : send'[u].pc = send[u].pc
  <2> DEFINE r == [Start(pc, send[t].on) EXCEPT !.done = send[t].done]
  <2>1. send' = [send EXCEPT ![t] = r] /\ UNCHANGED vars
    BY <1>11 DEF Return
  <2>2. r.pc = pc
    BY DEF Start
  <2> HIDE DEF r
  <2> QED
    BY <1>1, <2>1, <2>2 DEF WireTypes
<1>12. ASSUME NEW t \in Ids, send[t].pc \in Busy, Return(t, "error") PROVE Abstract
  BY <1>1, <1>4, <1>11, <1>12, OneFails
<1>13. ASSUME NEW t \in Ids, Pumped(t) PROVE Abstract
  <2>1. send[t].pc = "pumping" /\ (Return(t, "error") \/ Return(t, "sent"))
    BY <1>13 DEF Pumped
  <2>2. CASE Return(t, "error")
    BY <1>12, <2>1, <2>2 DEF Busy
  <2>3. CASE Return(t, "sent")
    BY <1>5, <1>11, <2>1, <2>3 DEF Busy
  <2> QED
    BY <2>1, <2>2, <2>3
<1>14. ASSUME NEW t \in Ids, SendDone(t) PROVE Abstract
  <2>1. send[t].pc = "sent" /\ send[t].done \in BOOLEAN
    BY <1>1, <1>14 DEF SendDone, WireTypes, SendState
  <2>2. CASE send[t].done = TRUE
    <3>1. Return(t, "ok") /\ t \in Kept
      BY <1>1, <1>14, <2>2 DEF SendDone, Truthful
    <3>2. Result[t] = "pending" /\ Result' = [Result EXCEPT ![t] = "ok"]
      BY <1>11, <2>1, <3>1 DEF Result
    <3>3. UNCHANGED <<Delivered, revived>>
      BY <1>4, <1>11, <3>1
    <3>4. Delivery!Succeed(t)
      BY <3>1, <3>2, <3>3 DEF Delivery!Succeed, Kept
    <3> QED
      BY <3>4 DEF Delivery!Next
  <2>3. CASE send[t].done = FALSE
    <3>1. Return(t, "error")
      BY <1>14, <2>3 DEF SendDone
    <3> QED
      BY <1>12, <2>1, <3>1 DEF Busy
  <2> QED
    BY <2>1, <2>2, <2>3
<1>15. ASSUME NEW t \in Ids, GiveUp(t) PROVE Abstract
  <2>1. send[t].pc \in Busy /\ Return(t, "error")
    BY <1>15 DEF GiveUp, Busy
  <2> QED
    BY <1>12, <2>1
<1>16. ASSUME NEW t \in Ids, NEW drop \in BOOLEAN, Abandon(t) \/ CancelSend(t, drop) PROVE Abstract
  <2> DEFINE r == [send[t] EXCEPT !.gone = TRUE]
  <2>1. send' = [send EXCEPT ![t] = r] /\ UNCHANGED vars
    BY <1>16 DEF Abandon, CancelSend
  <2>2. r.pc = send[t].pc
    BY <1>1 DEF WireTypes, SendState
  <2> HIDE DEF r
  <2> QED
    BY <1>7, <2>1, <2>2
<1>17. ASSUME NEW s \in Streams, data[s].pc # "unopened" PROVE data[s].id \in Ids
  BY <1>1, <1>17 DEF Named, WireTypes, DataState
<1>18. ASSUME NEW s \in Streams, NEW m \in BOOLEAN, SendChunk(s, m) PROVE Abstract
  <2> DEFINE t == data[s].id
             cs == send[t].claimed \cup {Claim(t)}
             r == [send[t] EXCEPT !.claimed = cs]
  <2>1. t \in Ids
    BY <1>17, <1>18 DEF SendChunk
  <2>2. send' = [send EXCEPT ![t] = r] /\ UNCHANGED vars
    BY <1>18 DEF SendChunk
  <2> HIDE DEF t, cs
  <2>3. r.pc = send[t].pc
    BY <1>1, <2>1 DEF WireTypes, SendState
  <2> HIDE DEF r
  <2> QED
    BY <1>7, <2>1, <2>2, <2>3
<1>19. ASSUME NEW s \in Streams, StopWorker(s) \/ SourceFails(s) PROVE Abstract
  <2> DEFINE t == data[s].id
             r == [send[t] EXCEPT !.failed = TRUE]
  <2>1. t \in Ids
    BY <1>17, <1>19 DEF StopWorker, SourceFails
  <2>2. send' = [send EXCEPT ![t] = r] /\ UNCHANGED vars
    BY <1>19 DEF StopWorker, SourceFails, Fails
  <2> HIDE DEF t
  <2>3. r.pc = send[t].pc
    BY <1>1, <2>1 DEF WireTypes, SendState
  <2> HIDE DEF r
  <2> QED
    BY <1>7, <2>1, <2>2, <2>3
<1>20. ASSUME DropSession PROVE Abstract
  <2>1. UNCHANGED send
    BY <1>20, Zenon DEF DropSession
  <2> QED
    BY <1>3, <2>1
<1>21. ASSUME NEW t \in Ids, \/ Decline(t) \/ RecvOffer(t) \/ RecvReoffer(t) \/ RecvManifest(t)
                             \/ RecvCancel(t)
       PROVE  Abstract
  BY <1>3, <1>21 DEF Decline, RecvOffer, RecvReoffer, RecvManifest, RecvCancel
<1>22. ASSUME NEW s \in Streams,
              \/ WriteFrame(s) \/ CloseStream(s) \/ RecvStream(s) \/ RefuseStream(s) \/ RecvChunk(s)
              \/ RecvEnd(s) \/ RecvTimeout(s) \/ RecvWrite(s) \/ RecvStep(s)
       PROVE  Abstract
  BY <1>3, <1>22 DEF WriteFrame, CloseStream, RecvStream, RefuseStream, RecvChunk, RecvEnd, RecvTimeout,
     RecvWrite, RecvStep, sendVars
<1>23. ASSUME NEW a \in Attempts, RecvReport(a) \/ RecvFinish(a) \/ RecvTick(a) PROVE Abstract
  BY <1>3, <1>23 DEF RecvReport, RecvFinish, RecvTick, sendVars
<1>24. ASSUME RecvHandler \/ RecvReplace \/ UNCHANGED allVars PROVE Abstract
  BY <1>3, <1>24 DEF RecvHandler, RecvReplace, sendVars, allVars
<1> HIDE DEF Abstract
<1>25. Abstract
  BY <1>6, <1>8, <1>9, <1>10, <1>13, <1>14, <1>15, <1>16, <1>18, <1>19, <1>20, <1>21, <1>22,
     <1>23, <1>24 DEF XferNext
<1> QED
  BY <1>25 DEF Abstract

\* Send returns nil only for a transfer whose files are all in place, and nothing that
\* comes later takes them away, the late flushes of the ticker, the finisher and the
\* handler included; except for an id that came back under a bitmap it had outlived
\* (SendWithID's done channel, recvState.finish, chunkSet.flush).
THEOREM TransferHonoured ==
  ASSUME DistinctDestinations, Files # {}
  PROVE  XferSpec => ImplementsDelivery
<1>1. XferInit => Delivery!Init
  <2> SUFFICES ASSUME XferInit PROVE Delivery!Init
    OBVIOUS
  <2>1. Delivered = {}
    <3>1. \A t \in Ids, f \in Files : final[PathOf(t, f)] = None
      BY PathOfType DEF XferInit, Init
    <3>2. \A t \in Ids, f \in Files : ~Whole(final[PathOf(t, f)], t, f)
      <4>1. \A t \in Ids, f \in Files : [s \in Slots |-> Mark(t, f)] \in [Slots -> Content]
        BY DEF Mark, Content
      <4> QED
        BY <3>1, <4>1, NoneIsNoValue DEF Whole
    <3> QED
      BY <3>2 DEF Delivered
  <2>2. Result \in [Ids -> {"pending"}]
    BY DEF XferInit, Start, Result
  <2>3. revived = {}
    BY DEF XferInit, Init
  <2> QED
    BY <2>1, <2>2, <2>3 DEF Delivery!Init
<1>2. XferInv /\ [XferNext]_allVars => [Delivery!Next]_<<Delivered, revived, Result>>
  BY XferDelivers
<1> QED
  BY <1>1, <1>2, XferInvariance, PTL DEF XferSpec, ImplementsDelivery, Delivery!Spec

\* The receiver's promises hold in a whole transfer, with their exceptions; and an ok that
\* reaches a call is never of an attempt whose accept was lost, so only a revived id is
\* excepted there.
THEOREM TransferredFilesAreWhole ==
  ASSUME DistinctDestinations
  PROVE  XferSpec => [](/\ FinalWhole /\ OkMeansDelivered
                        /\ \A t \in Ids : send[t].done = TRUE => t \in Delivered \cup revived)
<1>1. XferInv => /\ FinalWhole /\ OkMeansDelivered
                 /\ \A t \in Ids : send[t].done = TRUE => t \in Delivered \cup revived
  BY DEF XferInv, IInv, Truthful, Kept
<1> QED
  BY <1>1, XferInvariance, PTL

----------------------------------------------------------------------------
(* The chunk plan: running totals, by the least counterexample.             *)

LEMMA Least ==
    ASSUME NEW T \in SUBSET Nat, T # {}
    PROVE  \E m \in T : \A k \in T : m <= k
<1>1. PICK n \in T : TRUE
  OBVIOUS
<1> DEFINE S == 0..n
           R == StrictSubsetOrdering(S)
           Downs == {0..k : k \in {j \in T : j <= n}}
<1>2. IsWellFoundedOn(R, SUBSET S)
  <2>1. IsFiniteSet(S)
    BY FS_Interval
  <2>2. FiniteSubsetsOf(S) = SUBSET S
    BY <2>1, FS_FiniteSubsetsOfFinite
  <2> QED
    BY <2>2, FS_StrictSubsetOrderingWellFounded
<1>3. Downs \subseteq SUBSET S /\ Downs # {}
  BY <1>1
<1>4. PICK D \in Downs : \A E \in Downs : <<E, D>> \notin R
  BY <1>2, <1>3, WFMin
<1>5. PICK m \in T : m <= n /\ D = 0..m
  OBVIOUS
<1>6. ASSUME NEW k \in T, k < m PROVE FALSE
  <2>1. 0..k \in Downs /\ 0..k \subseteq 0..m /\ m \in 0..m /\ m \notin 0..k
    BY <1>5, <1>6
  <2>2. <<0..k, 0..m>> \in R
    BY <1>3, <1>5, <2>1 DEF StrictSubsetOrdering
  <2> QED
    BY <1>4, <1>5, <2>1, <2>2
<1> HIDE DEF S, R, Downs
<1>7. \A k \in T : m <= k
  <2> TAKE k \in T
  <2>1. ~(k < m) /\ k \in Nat /\ m \in Nat
    BY <1>6
  <2> QED
    BY <2>1
<1> QED
  BY <1>7

Sums(s, n, d) == \A k \in 1..(n + 1) : s[k] = IF k = 1 THEN 0 ELSE s[k - 1] + d[k - 1]

LEMMA SumsExist ==
    ASSUME NEW n \in Nat, NEW d \in [1..n -> Nat]
    PROVE  \E s \in [1..(n + 1) -> Nat] : Sums(s, n, d)
<1> DEFINE Done(m) == \E s \in [1..(m + 1) -> Nat] : Sums(s, m, d)
<1> DEFINE Bad == {m \in Nat : m <= n /\ ~Done(m)}
<1>1. SUFFICES ASSUME Bad # {} PROVE FALSE
  <2>1. n \in Bad <=> ~Done(n)
    <3> HIDE DEF Done
    <3> QED
      OBVIOUS
  <2> HIDE DEF Bad
  <2> QED
    BY <2>1
<1>2. PICK m \in Bad : \A j \in Bad : m <= j
  BY <1>1, Least
<1>3. CASE m = 0
  <2> DEFINE w == [k \in 1..(m + 1) |-> 0]
  <2>1. w \in [1..(m + 1) -> Nat]
    OBVIOUS
  <2>2. \A k \in 1..(m + 1) : k = 1 /\ w[k] = 0
    BY <1>3
  <2>3. Sums(w, m, d)
    BY <2>2 DEF Sums
  <2> QED
    BY <2>1, <2>3
<1>4. CASE m # 0
  <2>1. m - 1 \in Nat /\ m - 1 <= n /\ m \in 1..n
    BY <1>4
  <2>2. PICK s \in [1..m -> Nat] : Sums(s, m - 1, d)
    <3>1. m - 1 \notin Bad
      <4> HIDE DEF Bad
      <4> QED
        BY <1>2, <2>1
    <3>2. \E s \in [1..((m - 1) + 1) -> Nat] : Sums(s, m - 1, d)
      BY <2>1, <3>1
    <3>3. (m - 1) + 1 = m
      BY <2>1
    <3> QED
      BY <3>2, <3>3
  <2> DEFINE w == [k \in 1..(m + 1) |-> IF k = m + 1 THEN s[m] + d[m] ELSE s[k]]
  <2>3. w \in [1..(m + 1) -> Nat]
    BY <2>1
  <2>4. Sums(w, m, d)
    BY <2>1, <2>2 DEF Sums
  <2> QED
    BY <2>3, <2>4
<1> QED
  BY <1>3, <1>4

LEMMA SumsType ==
    ASSUME NEW n \in Nat, NEW d \in [1..n -> Nat], NEW s, Sums(s, n, d)
    PROVE  \A k \in 1..(n + 1) : s[k] \in Nat
<1> DEFINE Bad == {m \in Nat : m \in 1..(n + 1) /\ s[m] \notin Nat}
<1>1. SUFFICES ASSUME Bad # {} PROVE FALSE
  OBVIOUS
<1>2. PICK m \in Bad : \A j \in Bad : m <= j
  BY <1>1, Least
<1>3. m # 1 
  BY DEF Sums
<1>4. m - 1 \in 1..(n + 1) /\ m - 1 \in 1..n /\ s[m - 1] \in Nat
  BY <1>2, <1>3
<1> QED
  BY <1>3, <1>4 DEF Sums

LEMMA ChunkedIsNat ==
    ASSUME chunkSize \in Nat \ {0}, NEW z \in Nat
    PROVE  Chunked(z) \in Nat
BY DEF Chunked

LEMMA SizesAreSizes ==
    ASSUME sizes \in Seq(Nat)
    PROVE  Len(sizes) \in Nat /\ \A k \in 1..Len(sizes) : sizes[k] \in Nat
OBVIOUS

LEMMA FirstChunkSums ==
    ASSUME sizes \in Seq(Nat), chunkSize \in Nat \ {0}
    PROVE  /\ FirstChunk \in [1..(Len(sizes) + 1) -> Nat]
           /\ FirstChunk[1] = 0
           /\ \A k \in 1..Len(sizes) : FirstChunk[k + 1]
                 = FirstChunk[k] + Chunked(sizes[k])
<1> DEFINE n == Len(sizes)
           d == [k \in 1..n |-> Chunked(sizes[k])]
           Eq(c) == c = [k \in 1..(n + 1) |-> IF k = 1 THEN 0
              ELSE c[k - 1] + Chunked(sizes[k - 1])]
<1>1. n \in Nat /\ d \in [1..n -> Nat]
  <2>1. \A k \in 1..n : Chunked(sizes[k]) \in Nat
    BY SizesAreSizes, ChunkedIsNat
  <2> QED
    BY <2>1, SizesAreSizes
<1>14. \A k \in 1..(n + 1) : k # 1 => d[k - 1] = Chunked(sizes[k - 1])
  BY <1>1
<1>2. PICK s \in [1..(n + 1) -> Nat] : Sums(s, n, d)
  BY <1>1, SumsExist
<1>3. Eq(s)
  <2>1. \A k \in 1..(n + 1) : s[k] = IF k = 1 THEN 0 ELSE s[k - 1] + Chunked(sizes[k - 1])
    BY <1>14, <1>2 DEF Sums
  <2> QED
    BY <2>1
<1>4. FirstChunk = CHOOSE c : Eq(c)
  BY DEF FirstChunk
<1>5. Eq(FirstChunk)
  BY <1>3, <1>4
<1>6. \A k \in 1..(n + 1) : FirstChunk[k] = IF k = 1 THEN 0
         ELSE FirstChunk[k - 1] + Chunked(sizes[k - 1])
  BY <1>5
<1>7. Sums(FirstChunk, n, d)
  BY <1>6, <1>14 DEF Sums
<1>8. \A k \in 1..(n + 1) : FirstChunk[k] \in Nat
  BY <1>1, <1>7, SumsType
<1>9. FirstChunk \in [1..(n + 1) -> Nat]
  BY <1>5, <1>8
<1>10. \A k \in 1..n : k + 1 \in 1..(n + 1) /\ k + 1 # 1 /\ (k + 1) - 1 = k
  BY <1>1
<1>11. 1 \in 1..(n + 1)
  BY <1>1
<1> HIDE DEF n, d
<1>12. \A k \in 1..n : FirstChunk[k + 1] = FirstChunk[k] + Chunked(sizes[k])
  BY <1>6, <1>10
<1>13. FirstChunk[1] = 0
  BY <1>6, <1>11
<1> QED
  BY <1>9, <1>12, <1>13 DEF n

----------------------------------------------------------------------------
(* NewPlan, Chunk and Locate.                                               *)

LEMMA DivMod ==
    ASSUME NEW z \in Nat, NEW c \in Nat \ {0}
    PROVE  /\ z \div c \in Nat /\ z % c \in 0..(c - 1)
           /\ z = c * (z \div c) + (z % c)
OBVIOUS

LEMMA Times ==
    ASSUME NEW a \in Nat, NEW b \in Nat, NEW c \in Nat, a <= b
    PROVE  a * c <= b * c
OBVIOUS

LEMMA DivOfMultiple ==
    ASSUME NEW k \in Nat, NEW c \in Nat \ {0}
    PROVE  (k * c) \div c = k /\ (k * c) % c = 0
<1>1. k * c \in Nat
  OBVIOUS
<1> DEFINE q == (k * c) \div c
           r == (k * c) % c
<1>2. q \in Nat /\ r \in 0..(c - 1) /\ k * c = c * q + r
  BY <1>1, DivMod
<1> HIDE DEF q, r
<1>3. ~(q < k)
  <2>1. SUFFICES ASSUME q + 1 <= k PROVE FALSE
    BY <1>2
  <2>2. (q + 1) * c <= k * c
    BY <1>2, <2>1, Times
  <2> QED
    BY <1>2, <2>2
<1>4. ~(k < q)
  <2>1. SUFFICES ASSUME k + 1 <= q PROVE FALSE
    BY <1>2
  <2>2. (k + 1) * c <= q * c
    BY <1>2, <2>1, Times
  <2> QED
    BY <1>2, <2>2
<1>5. q = k
  BY <1>2, <1>3, <1>4
<1>6. r = 0
  BY <1>2, <1>5
<1> QED
  BY <1>5, <1>6 DEF q, r

LEMMA ChunkedIsCeiling ==
    ASSUME chunkSize \in Nat \ {0}, NEW z \in Nat, NEW k \in Nat
    PROVE  k < Chunked(z) <=> k * chunkSize < z
<1> DEFINE c == chunkSize
           q == z \div c
           r == z % c
<1>1. q \in Nat /\ r \in 0..(c - 1) /\ z = c * q + r
  BY DivMod
<1>2. Chunked(z) = IF r # 0 THEN q + 1 ELSE q
  BY <1>1 DEF Chunked
<1> HIDE DEF q, r
<1>3. k < q => (k + 1) * c <= q * c
  BY <1>1, Times
<1>4. k <= q => k * c <= q * c
  BY <1>1, Times
<1>5. k >= q => q * c <= k * c
  BY <1>1, Times
<1>6. k >= q + 1 => (q + 1) * c <= k * c
  BY <1>1, Times
<1>7. (k + 1) * c = k * c + c /\ (q + 1) * c = q * c + c /\ q * c = c * q /\ k * c \in Nat
         /\ q * c \in Nat
  BY <1>1
<1>8. CASE r = 0
  <2>1. k < q => k * c < z
    BY <1>1, <1>3, <1>7, <1>8
  <2>2. k >= q => ~(k * c < z)
    BY <1>1, <1>5, <1>7, <1>8
  <2> QED
    BY <1>1, <1>2, <1>8, <2>1, <2>2
<1>9. CASE r # 0
  <2>1. k <= q => k * c < z
    BY <1>1, <1>4, <1>7, <1>9
  <2>2. k >= q + 1 => ~(k * c < z)
    BY <1>1, <1>6, <1>7
  <2> QED
    BY <1>1, <1>2, <1>9, <2>1, <2>2
<1> QED
  BY <1>8, <1>9

LEMMA StartSums ==
    ASSUME sizes \in Seq(Nat)
    PROVE  /\ FileStart \in [1..(Len(sizes) + 1) -> Nat]
           /\ FileStart[1] = 0
           /\ \A k \in 1..Len(sizes) : FileStart[k + 1] = FileStart[k] + sizes[k]
<1> DEFINE n == Len(sizes)
           d == [k \in 1..n |-> sizes[k]]
           Eq(c) == c = [k \in 1..(n + 1) |-> IF k = 1 THEN 0 ELSE c[k - 1] + sizes[k - 1]]
<1>1. n \in Nat /\ d \in [1..n -> Nat]
  BY SizesAreSizes
<1>2. \A k \in 1..(n + 1) : k # 1 => d[k - 1] = sizes[k - 1]
  BY <1>1
<1>3. PICK s \in [1..(n + 1) -> Nat] : Sums(s, n, d)
  BY <1>1, SumsExist
<1>4. Eq(s)
  <2>1. \A k \in 1..(n + 1) : s[k] = IF k = 1 THEN 0 ELSE s[k - 1] + sizes[k - 1]
    BY <1>2, <1>3 DEF Sums
  <2> QED
    BY <2>1
<1>5. FileStart = CHOOSE c : Eq(c)
  BY DEF FileStart
<1>6. Eq(FileStart)
  BY <1>4, <1>5
<1>7. \A k \in 1..(n + 1) : FileStart[k] = IF k = 1 THEN 0 ELSE FileStart[k - 1] + sizes[k - 1]
  BY <1>6
<1>8. Sums(FileStart, n, d)
  BY <1>7, <1>2 DEF Sums
<1>9. \A k \in 1..(n + 1) : FileStart[k] \in Nat
  BY <1>1, <1>8, SumsType
<1>10. FileStart \in [1..(n + 1) -> Nat]
  BY <1>6, <1>9
<1>11. \A k \in 1..n : k + 1 \in 1..(n + 1) /\ k + 1 # 1 /\ (k + 1) - 1 = k
  BY <1>1
<1>12. 1 \in 1..(n + 1)
  BY <1>1
<1> HIDE DEF n, d
<1>13. \A k \in 1..n : FileStart[k + 1] = FileStart[k] + sizes[k]
  BY <1>7, <1>11
<1>14. FileStart[1] = 0
  BY <1>7, <1>12
<1> QED
  BY <1>10, <1>13, <1>14 DEF n

LEMMA StepsGrow ==
    ASSUME NEW n \in Nat, NEW s \in [1..(n + 1) -> Nat],
           \A k \in 1..n : s[k] <= s[k + 1]
    PROVE  \A i, j \in 1..(n + 1) : i <= j => s[i] <= s[j]
<1> SUFFICES ASSUME NEW i \in 1..(n + 1),
                    \E j \in 1..(n + 1) : i <= j /\ ~(s[i] <= s[j])
             PROVE  FALSE
  OBVIOUS
<1> DEFINE Bad == {j \in 1..(n + 1) : i <= j /\ ~(s[i] <= s[j])}
<1>1. Bad \in SUBSET Nat
  OBVIOUS
<1>7. Bad # {}
  <2>1. PICK j \in 1..(n + 1) : i <= j /\ ~(s[i] <= s[j])
    OBVIOUS
  <2> QED
    BY <2>1
<1>2. PICK m \in Bad : \A j \in Bad : m <= j
  <2> HIDE DEF Bad
  <2> QED
    BY <1>1, <1>7, Least
<1>3. m # i /\ m - 1 \in 1..(n + 1) /\ m - 1 \in 1..n /\ i <= m - 1
  OBVIOUS
<1>4. s[m - 1] <= s[m]
  BY <1>3
<1>5. m - 1 \in Bad
  BY <1>3, <1>4
<1>6. m \in Int
  BY <1>3
<1> HIDE DEF Bad
<1> QED
  BY <1>2, <1>5, <1>6

Planned == sizes \in Seq(Nat) /\ chunkSize \in Nat \ {0}

LEMMA PlanFacts ==
    ASSUME Planned
    PROVE  /\ Len(sizes) \in Nat /\ chunkSize \in Nat \ {0}
           /\ \A k \in 1..Len(sizes) : sizes[k] \in Nat /\ Chunked(sizes[k]) \in Nat
           /\ FirstChunk \in [1..(Len(sizes) + 1) -> Nat] /\ FirstChunk[1] = 0
           /\ \A k \in 1..Len(sizes) : FirstChunk[k + 1]
                 = FirstChunk[k] + Chunked(sizes[k])
           /\ \A i, j \in 1..(Len(sizes) + 1) : i <= j => FirstChunk[i] <= FirstChunk[j]
           /\ FileStart \in [1..(Len(sizes) + 1) -> Nat] /\ FileStart[1] = 0
           /\ \A k \in 1..Len(sizes) : FileStart[k + 1] = FileStart[k] + sizes[k]
           /\ \A i, j \in 1..(Len(sizes) + 1) : i <= j => FileStart[i] <= FileStart[j]
<1> USE DEF Planned
<1>1. Len(sizes) \in Nat /\ \A k \in 1..Len(sizes) : sizes[k] \in Nat
  BY SizesAreSizes
<1>2. \A k \in 1..Len(sizes) : Chunked(sizes[k]) \in Nat
  BY <1>1, ChunkedIsNat
<1>3. /\ FirstChunk \in [1..(Len(sizes) + 1) -> Nat] /\ FirstChunk[1] = 0
      /\ \A k \in 1..Len(sizes) : FirstChunk[k + 1]
            = FirstChunk[k] + Chunked(sizes[k])
  BY FirstChunkSums
<1>4. /\ FileStart \in [1..(Len(sizes) + 1) -> Nat] /\ FileStart[1] = 0
      /\ \A k \in 1..Len(sizes) : FileStart[k + 1] = FileStart[k] + sizes[k]
  BY StartSums
<1>5. \A k \in 1..Len(sizes) : FirstChunk[k] <= FirstChunk[k + 1]
         /\ FileStart[k] <= FileStart[k + 1]
  <2> TAKE k \in 1..Len(sizes)
  <2>1. k \in 1..(Len(sizes) + 1) 
    BY <1>1
  <2>2. FirstChunk[k] \in Nat /\ FileStart[k] \in Nat
    BY <1>3, <1>4, <2>1
  <2>3. FirstChunk[k + 1] = FirstChunk[k] + Chunked(sizes[k])
           /\ Chunked(sizes[k]) \in Nat
    BY <1>2, <1>3
  <2>4. FileStart[k + 1] = FileStart[k] + sizes[k] /\ sizes[k] \in Nat
    BY <1>1, <1>4
  <2> HIDE DEF Planned
  <2>5. FirstChunk[k] <= FirstChunk[k + 1]
    BY <2>2, <2>3
  <2>6. FileStart[k] <= FileStart[k + 1]
    BY <2>2, <2>4
  <2> QED
    BY <2>5, <2>6
<1>6. \A i, j \in 1..(Len(sizes) + 1) : i <= j => FirstChunk[i] <= FirstChunk[j]
  BY <1>1, <1>3, <1>5, StepsGrow
<1>7. \A i, j \in 1..(Len(sizes) + 1) : i <= j => FileStart[i] <= FileStart[j]
  BY <1>1, <1>4, <1>5, StepsGrow
<1> QED
  BY <1>1, <1>2, <1>3, <1>4, <1>6, <1>7

LEMMA FirstInIsLeast ==
    ASSUME Len(sizes) \in Nat, NEW ks \in SUBSET (1..Len(sizes))
    PROVE  /\ FirstIn(ks) \in ks \cup {Len(sizes) + 1}
           /\ \A k \in ks : FirstIn(ks) <= k
<1> DEFINE all == ks \cup {Len(sizes) + 1}
<1>1. all \in SUBSET Nat
  <2>1. \A k \in ks : k \in Nat
    OBVIOUS
  <2>2. Len(sizes) + 1 \in Nat
    OBVIOUS
  <2> QED
    BY <2>1, <2>2
<1>2. all # {}
  OBVIOUS
<1>3. \E k \in all : \A j \in all : k <= j
  <2> HIDE DEF all
  <2> QED
    BY <1>1, <1>2, Least
<1>4. FirstIn(ks) = CHOOSE k \in all : \A j \in all : k <= j
  BY DEF FirstIn
<1>5. FirstIn(ks) \in all /\ \A j \in all : FirstIn(ks) <= j
  BY <1>3, <1>4
<1> QED
  BY <1>5

\* Where a chunk lives: in the one file whose chunks bracket its index.
Home(i, f) == f \in 1..Len(sizes) /\ FirstChunk[f] <= i /\ i < FirstChunk[f + 1]

LEMMA HomeIsUnique ==
    ASSUME Planned, NEW i \in Nat, NEW f, NEW g, Home(i, f), Home(i, g)
    PROVE  f = g
<1>1. \A a, b \in 1..Len(sizes) : Home(i, a) /\ Home(i, b) => ~(a < b)
  <2> SUFFICES ASSUME NEW a \in 1..Len(sizes), NEW b \in 1..Len(sizes),
                      Home(i, a), Home(i, b), a < b
               PROVE  FALSE
    OBVIOUS
  <2>1. a + 1 \in 1..(Len(sizes) + 1) /\ b \in 1..(Len(sizes) + 1) /\ a + 1 <= b
    BY PlanFacts
  <2>2. FirstChunk[a + 1] <= FirstChunk[b]
    BY <2>1, PlanFacts
  <2>3. FirstChunk[a + 1] \in Nat /\ FirstChunk[b] \in Nat
    BY <2>1, PlanFacts
  <2> QED
    BY <2>2, <2>3 DEF Home
<1>2. f \in 1..Len(sizes) /\ g \in 1..Len(sizes)
  BY DEF Home
<1>3. ~(f < g) /\ ~(g < f)
  BY <1>1, <1>2
<1> QED
  BY <1>2, <1>3, PlanFacts

LEMMA FileOfChunkIsHome ==
    ASSUME Planned, NEW i \in Indices
    PROVE  i \in Nat /\ Home(i, FileOfChunk(i))
<1> DEFINE n == Len(sizes)
           A == {k \in FileIndices : FirstChunk[k] > i}
           m == FirstIn(A)
           last == m - 1
           B == {k \in FileIndices : k >= last /\ Chunked(sizes[k]) # 0}
<1>1. n \in Nat /\ FirstChunk \in [1..(n + 1) -> Nat] /\ FirstChunk[1] = 0
  BY PlanFacts
<1>2. Count = FirstChunk[n + 1] /\ Count \in Nat
  BY <1>1 DEF Count
<1>3. i \in Nat /\ i < FirstChunk[n + 1]
  BY <1>2 DEF Indices
<1>4. A \in SUBSET (1..n) /\ B \in SUBSET (1..n)
  BY DEF FileIndices
<1>5. m \in A \cup {n + 1} /\ \A k \in A : m <= k
  <2> HIDE DEF A
  <2> QED
    BY <1>1, <1>4, FirstInIsLeast
<1> HIDE DEF m
<1>6. m \in 1..(n + 1) /\ FirstChunk[m] > i
  BY <1>1, <1>3, <1>5 DEF FileIndices
<1>7. m # 1
  BY <1>1, <1>3, <1>6
<1>8. last \in 1..n /\ last + 1 = m
  BY <1>1, <1>6, <1>7
<1>9. FirstChunk[last] <= i
  <2>1. last \notin A
    BY <1>1, <1>5, <1>6
  <2>2. FirstChunk[last] \in Nat
    BY <1>1, <1>8
  <2> QED
    BY <1>3, <1>8, <2>1, <2>2 DEF FileIndices
<1>10. FirstChunk[last + 1] = FirstChunk[last] + Chunked(sizes[last])
          /\ FirstChunk[last] \in Nat
  BY <1>1, <1>8, PlanFacts
<1>11. Chunked(sizes[last]) # 0
  BY <1>3, <1>6, <1>8, <1>9, <1>10
<1> HIDE DEF last
<1>12. last \in B
  BY <1>1, <1>8, <1>11 DEF FileIndices
<1>13. FirstIn(B) \in B \cup {n + 1} /\ \A k \in B : FirstIn(B) <= k
  <2> HIDE DEF B
  <2> QED
    BY <1>1, <1>4, FirstInIsLeast
<1>14. FirstIn(B) = last
  <2>1. FirstIn(B) <= last
    BY <1>12, <1>13
  <2>2. FirstIn(B) \in B
    <3> HIDE DEF B
    <3>1. FirstIn(B) # n + 1
      BY <1>1, <1>8, <2>1
    <3> QED
      BY <1>13, <3>1
  <2>3. FirstIn(B) >= last /\ FirstIn(B) \in Nat
    BY <2>2, <1>4 DEF FileIndices
  <2> QED
    BY <1>8, <2>1, <2>3
<1>15. FileOfChunk(i) = FirstIn(B)
  BY DEF FileOfChunk, last, m
<1> QED
  BY <1>3, <1>6, <1>8, <1>9, <1>14, <1>15 DEF Home

\* Files without chunks are empty, so equal chunk counts mean equal offsets.
LEMMA EmptyBetween ==
    ASSUME Planned, NEW a \in 1..(Len(sizes) + 1), NEW b \in 1..(Len(sizes) + 1),
           a <= b, FirstChunk[a] = FirstChunk[b]
    PROVE  FileStart[a] = FileStart[b]
<1> DEFINE n == Len(sizes)
           Bad == {j \in 1..(n + 1) : a <= j /\ FirstChunk[a] = FirstChunk[j]
              /\ FileStart[a] # FileStart[j]}
<1>1. SUFFICES ASSUME FileStart[a] # FileStart[b] PROVE FALSE
  OBVIOUS
<1>2. Bad \in SUBSET Nat
  OBVIOUS
<1>3. b \in Bad
  BY <1>1
<1>4. PICK m \in Bad : \A j \in Bad : m <= j
  <2> HIDE DEF Bad
  <2> QED
    BY <1>2, <1>3, Least
<1>5. m \in 1..(n + 1) /\ a <= m /\ FirstChunk[a] = FirstChunk[m]
         /\ FileStart[a] # FileStart[m]
  BY <1>4
<1>6. n \in Nat
  BY PlanFacts
<1> DEFINE k == m - 1
<1>7. m # a /\ k \in 1..n /\ k \in 1..(n + 1) /\ a <= k /\ k <= m /\ k + 1 = m /\ k < m
  BY <1>5, <1>6
<1>8. k \notin Bad
  <2> HIDE DEF Bad
  <2> QED
    BY <1>2, <1>4, <1>7
<1> HIDE DEF k
<1>9. FirstChunk[a] <= FirstChunk[k] /\ FirstChunk[k] <= FirstChunk[m]
  BY <1>5, <1>7, PlanFacts
<1>10. FirstChunk[a] \in Nat /\ FirstChunk[k] \in Nat /\ FirstChunk[m] \in Nat
  BY <1>5, <1>7, PlanFacts
<1>11. FirstChunk[k] = FirstChunk[a]
  BY <1>5, <1>9, <1>10
<1>12. FileStart[a] = FileStart[k]
  BY <1>7, <1>8, <1>11
<1>13. sizes[k] \in Nat /\ Chunked(sizes[k]) \in Nat /\ FirstChunk[m]
          = FirstChunk[k] + Chunked(sizes[k])
  BY <1>7, PlanFacts
<1>14. Chunked(sizes[k]) = 0
  BY <1>5, <1>10, <1>11, <1>13
<1>15. sizes[k] = 0
  <2>1. 0 < Chunked(sizes[k]) <=> 0 * chunkSize < sizes[k]
    BY <1>13, ChunkedIsCeiling DEF Planned
  <2>2. 0 * chunkSize = 0
    BY DEF Planned
  <2> QED
    BY <1>13, <1>14, <2>1, <2>2
<1>16. FileStart[m] = FileStart[k] + sizes[k] /\ FileStart[k] \in Nat
  BY <1>7, PlanFacts
<1> QED
  BY <1>5, <1>12, <1>15, <1>16

\* What Chunk computes for a chunk of file f.
LEMMA ChunkFacts ==
    ASSUME Planned, NEW i \in Indices, NEW f, Home(i, f)
    PROVE  LET c == Chunk(i)
               off == (i - FirstChunk[f]) * chunkSize
           IN  /\ c.file = f /\ c.fileOffset = off /\ c.offset = FileStart[f] + off
               /\ off \in Nat /\ c.size \in 1..chunkSize
               /\ off + c.size <= sizes[f]
               /\ i + 1 < FirstChunk[f + 1] => off + c.size
                     = ((i + 1) - FirstChunk[f]) * chunkSize
               /\ i + 1 = FirstChunk[f + 1] => off + c.size = sizes[f]
<1> DEFINE j == i - FirstChunk[f]
           off == j * chunkSize
           rem == sizes[f] - off
           k == j + 1
<1>1. i \in Nat /\ FileOfChunk(i) = f
  BY FileOfChunkIsHome, HomeIsUnique
<1>2. f \in 1..Len(sizes) /\ FirstChunk[f] <= i /\ i < FirstChunk[f + 1]
  BY DEF Home
<1>3. f \in 1..(Len(sizes) + 1)
  BY <1>2, PlanFacts
<1>4. /\ FirstChunk[f] \in Nat /\ sizes[f] \in Nat /\ Chunked(sizes[f]) \in Nat
      /\ FirstChunk[f + 1] = FirstChunk[f] + Chunked(sizes[f])
      /\ chunkSize \in Nat \ {0}
  BY <1>2, <1>3, PlanFacts
<1>5. j \in Nat /\ k \in Nat /\ j < Chunked(sizes[f])
  BY <1>1, <1>2, <1>4
<1>6. k < Chunked(sizes[f]) <=> i + 1 < FirstChunk[f + 1]
  BY <1>1, <1>4
<1>7. k = Chunked(sizes[f]) <=> i + 1 = FirstChunk[f + 1]
  BY <1>1, <1>4
<1>8. Chunk(i) = [offset |-> FileStart[f] + off, size |-> IF rem < chunkSize THEN rem
         ELSE chunkSize,
                  file |-> f, fileOffset |-> off]
  BY <1>1 DEF Chunk
<1>9. k = (i + 1) - FirstChunk[f]
  BY <1>1, <1>4
<1> HIDE DEF j
<1>10. k * chunkSize = off + chunkSize
  BY <1>4, <1>5
<1>11. off \in Nat
  BY <1>4, <1>5
<1>12. off < sizes[f]
  BY <1>4, <1>5, ChunkedIsCeiling
<1>13. k < Chunked(sizes[f]) <=> k * chunkSize < sizes[f]
  <2> HIDE DEF k
  <2> QED
    BY <1>4, <1>5, ChunkedIsCeiling
<1> HIDE DEF off, k
<1> DEFINE size == IF rem < chunkSize THEN rem ELSE chunkSize
<1>14. size \in 1..chunkSize /\ off + size <= sizes[f]
  BY <1>4, <1>11, <1>12
<1>15. k < Chunked(sizes[f]) => off + size = k * chunkSize
  BY <1>4, <1>10, <1>11, <1>12, <1>13
<1>16. k = Chunked(sizes[f]) => off + size = sizes[f]
  <2>1. SUFFICES ASSUME k = Chunked(sizes[f]) PROVE off + size = sizes[f]
    OBVIOUS
  <2>2. ~(off + chunkSize < sizes[f])
    BY <1>4, <1>5, <1>10, <1>13, <2>1
  <2> QED
    BY <1>4, <1>11, <1>12, <2>2
<1> HIDE DEF size
<1>17. Chunk(i).size = size /\ Chunk(i).offset = FileStart[f] + off
          /\ Chunk(i).file = f
       /\ Chunk(i).fileOffset = off
  BY <1>8 DEF size
<1>18. off = (i - FirstChunk[f]) * chunkSize
  BY DEF off, j
<1> QED
  BY <1>6, <1>7, <1>9, <1>11, <1>14, <1>15, <1>16, <1>17, <1>18

LEMMA ChunksAlwaysTile ==
    ASSUME Planned
    PROVE  ChunksTile
<1> DEFINE n == Len(sizes)
           F == FirstChunk
           S == FileStart
<1>1. /\ n \in Nat /\ chunkSize \in Nat \ {0} /\ F \in [1..(n + 1) -> Nat]
            /\ S \in [1..(n + 1) -> Nat]
      /\ F[1] = 0 /\ S[1] = 0
  BY PlanFacts
<1>2. Count = F[n + 1] /\ Total = S[n + 1] /\ Count \in Nat
  BY <1>1 DEF Count, Total
\* Where the chunk after chunk i begins.
<1>3. ASSUME NEW i \in Indices, NEW f, Home(i, f)
      PROVE  Chunk(i).offset + Chunk(i).size =
               IF i + 1 < F[f + 1] THEN S[f] + ((i + 1) - F[f]) * chunkSize ELSE S[f + 1]
  <2>1. f \in 1..n /\ i < F[f + 1] /\ i \in Nat
    BY <1>3, FileOfChunkIsHome DEF Home
  <2>2. f \in 1..(n + 1) /\ f + 1 \in 1..(n + 1)
    BY <1>1, <2>1
  <2>3. F[f + 1] \in Nat /\ S[f] \in Nat /\ F[f] \in Nat /\ S[f + 1] = S[f] + sizes[f]
           /\ sizes[f] \in Nat
    BY <1>1, <2>1, <2>2, PlanFacts
  <2> DEFINE off == (i - F[f]) * chunkSize
             k == ((i + 1) - F[f]) * chunkSize
  <2>4. /\ Chunk(i).offset = S[f] + off /\ off \in Nat /\ Chunk(i).size \in 1..chunkSize
        /\ i + 1 < F[f + 1] => off + Chunk(i).size = k
        /\ i + 1 = F[f + 1] => off + Chunk(i).size = sizes[f]
    BY <1>3, ChunkFacts
  <2> HIDE DEF off, k
  <2>5. Chunk(i).offset + Chunk(i).size = S[f] + (off + Chunk(i).size)
    BY <1>1, <2>3, <2>4
  <2>6. i + 1 < F[f + 1] \/ i + 1 = F[f + 1]
    BY <2>1, <2>3
  <2>7. (i + 1 = F[f + 1]) => ~(i + 1 < F[f + 1])
    BY <2>1, <2>3
  <2>8. CASE i + 1 < F[f + 1]
    BY <2>4, <2>5, <2>8 DEF k
  <2>9. CASE i + 1 = F[f + 1]
    BY <2>3, <2>4, <2>5, <2>7, <2>9
  <2> QED
    BY <2>6, <2>8, <2>9
<1>4. ASSUME NEW i \in Indices
      PROVE  LET c == Chunk(i) IN
             /\ c.size \in 1..chunkSize
             /\ c.file \in FileIndices
             /\ c.fileOffset + c.size <= sizes[c.file]
             /\ c.offset = FileStart[c.file] + c.fileOffset
  <2> DEFINE f == FileOfChunk(i)
  <2>1. Home(i, f)
    BY FileOfChunkIsHome
  <2> HIDE DEF f
  <2>2. f \in FileIndices
    BY <2>1 DEF Home, FileIndices
  <2> QED
    BY <2>1, <2>2, ChunkFacts
<1>5. ASSUME NEW i \in Indices
      PROVE  Chunk(i).offset = (IF i = 0 THEN 0
               ELSE Chunk(i - 1).offset + Chunk(i - 1).size)
  <2> DEFINE f == FileOfChunk(i)
             g == FileOfChunk(i - 1)
             j == (i - F[f]) * chunkSize
  <2>1. Home(i, f) /\ i \in Nat
    BY FileOfChunkIsHome
  <2> HIDE DEF f
  <2>2. f \in 1..n /\ f \in 1..(n + 1) /\ f + 1 \in 1..(n + 1) /\ F[f] <= i /\ i < F[f + 1]
    BY <1>1, <2>1 DEF Home
  <2>3. F[f] \in Nat /\ S[f] \in Nat /\ F[f + 1] \in Nat
    BY <1>1, <2>2
  <2>4. Chunk(i).offset = S[f] + j
    BY <2>1, ChunkFacts
  <2>5. F[f] = i => j = 0
    <3>1. 0 * chunkSize = 0
      BY <1>1
    <3>2. F[f] = i => i - F[f] = 0
      BY <2>1
    <3> QED
      BY <3>1, <3>2
  <2> HIDE DEF j
  <2>6. CASE i = 0
    <3>1. F[f] = 0
      BY <2>2, <2>3, <2>6
    <3>2. S[f] = 0
      <4>1. 1 \in 1..(n + 1) /\ 1 <= f
        BY <1>1, <2>2
      <4>2. S[1] = S[f]
        BY <1>1, <2>2, <3>1, <4>1, EmptyBetween
      <4> QED
        BY <1>1, <4>2
    <3> QED
      BY <2>4, <2>5, <2>6, <3>1, <3>2
  <2>7. CASE i # 0
    <3>1. i - 1 \in Indices /\ (i - 1) + 1 = i
      BY <1>2, <2>1, <2>7 DEF Indices
    <3>2. Home(i - 1, g) /\ i - 1 \in Nat
      BY <3>1, FileOfChunkIsHome
    <3> HIDE DEF g
    <3>3. g \in 1..n /\ g \in 1..(n + 1) /\ g + 1 \in 1..(n + 1) /\ F[g] <= i - 1
             /\ i - 1 < F[g + 1]
      BY <1>1, <3>2 DEF Home
    <3>4. F[g] \in Nat /\ F[g + 1] \in Nat
      BY <1>1, <3>3
    <3>5. Chunk(i - 1).offset + Chunk(i - 1).size =
            IF i < F[g + 1] THEN S[g] + (i - F[g]) * chunkSize ELSE S[g + 1]
      BY <1>3, <3>1, <3>2
    <3>6. CASE F[f] = i
      <4>1. ~(f <= g)
        <5>1. f <= g => F[f] <= F[g]
          BY <2>2, <3>3, PlanFacts
        <5> QED
          BY <2>1, <2>3, <3>3, <3>4, <3>6, <5>1
      <4>2. g + 1 <= f
        BY <2>2, <3>3, <4>1
      <4>3. F[g + 1] <= F[f]
        BY <2>2, <3>3, <4>2, PlanFacts
      <4>4. F[g + 1] = F[f]
        BY <2>1, <2>3, <3>3, <3>4, <3>6, <4>3
      <4>5. S[g + 1] = S[f]
        BY <2>2, <3>3, <4>2, <4>4, EmptyBetween
      <4>6. ~(i < F[g + 1])
        BY <2>1, <3>6, <4>4
      <4>7. Chunk(i).offset = S[f]
        BY <2>3, <2>4, <2>5, <3>6
      <4> QED
        BY <2>7, <3>5, <4>5, <4>6, <4>7
    <3>7. CASE F[f] # i
      <4>1. Home(i - 1, f)
        BY <2>1, <2>2, <2>3, <3>7 DEF Home
      <4>2. g = f
        BY <3>2, <4>1, HomeIsUnique
      <4> QED
        BY <2>2, <2>4, <2>7, <3>5, <4>2 DEF j
    <3> QED
      BY <3>6, <3>7
  <2> QED
    BY <2>6, <2>7
<1>6. Total = (IF Count = 0 THEN 0
         ELSE Chunk(Count - 1).offset + Chunk(Count - 1).size)
  <2>1. n + 1 \in 1..(n + 1) /\ 1 \in 1..(n + 1) /\ 1 <= n + 1
    BY <1>1
  <2>2. CASE Count = 0
    <3>1. S[1] = S[n + 1]
      BY <1>1, <1>2, <2>1, <2>2, EmptyBetween
    <3> QED
      BY <1>1, <1>2, <2>2, <3>1
  <2>3. CASE Count # 0
    <3> DEFINE i == Count - 1
               g == FileOfChunk(i)
    <3>1. i \in Indices /\ i + 1 = Count
      BY <1>2, <2>3 DEF Indices
    <3> HIDE DEF i
    <3>2. Home(i, g) /\ i \in Nat
      BY <3>1, FileOfChunkIsHome
    <3> HIDE DEF g
    <3>3. g \in 1..n /\ g + 1 \in 1..(n + 1) /\ i < F[g + 1]
      BY <1>1, <3>2 DEF Home
    <3>4. F[g + 1] \in Nat /\ g + 1 <= n + 1
      BY <1>1, <3>3
    <3>5. F[g + 1] <= F[n + 1]
      BY <2>1, <3>3, <3>4, PlanFacts
    <3>6. F[g + 1] = F[n + 1]
      BY <1>2, <3>1, <3>2, <3>3, <3>4, <3>5
    <3>7. S[g + 1] = S[n + 1]
      BY <2>1, <3>3, <3>4, <3>6, EmptyBetween
    <3>8. ~(i + 1 < F[g + 1])
      BY <1>2, <3>1, <3>6
    <3>9. Chunk(i).offset + Chunk(i).size = S[g + 1]
      BY <1>3, <3>1, <3>2, <3>8
    <3> QED
      BY <1>2, <2>3, <3>7, <3>9 DEF i
  <2> QED
    BY <2>2, <2>3
<1> QED
  BY <1>4, <1>5, <1>6 DEF ChunksTile

\* A frame that is a chunk of the plan is found.
LEMMA LocateFindsChunks ==
    ASSUME Planned, NEW i \in Indices
    PROVE  Locate(Chunk(i).offset, Chunk(i).size) = i
<1> DEFINE n == Len(sizes)
           F == FirstChunk
           S == FileStart
           f == FileOfChunk(i)
           offset == Chunk(i).offset
           size == Chunk(i).size
           off == (i - F[f]) * chunkSize
           A == {k \in FileIndices : S[k] + sizes[k] > offset}
           past == FirstIn(A)
           B == {k \in FileIndices : k >= past /\ sizes[k] # 0}
<1>1. Home(i, f) /\ i \in Nat
  BY FileOfChunkIsHome
<1>2. /\ n \in Nat /\ chunkSize \in Nat \ {0} /\ F \in [1..(n + 1) -> Nat]
            /\ S \in [1..(n + 1) -> Nat]
  BY PlanFacts
<1> HIDE DEF f
<1>3. f \in 1..n /\ f \in 1..(n + 1) /\ f + 1 \in 1..(n + 1) /\ f <= n /\ F[f] <= i
  BY <1>1, <1>2 DEF Home
<1>4. S[f] \in Nat /\ S[f + 1] = S[f] + sizes[f] /\ sizes[f] \in Nat /\ F[f] \in Nat
  BY <1>2, <1>3, PlanFacts
<1>5. offset = S[f] + off /\ off \in Nat /\ size \in 1..chunkSize /\ off + size <= sizes[f]
  BY <1>1, ChunkFacts
<1>6. off \div chunkSize = i - F[f] /\ off % chunkSize = 0
  <2>1. i - F[f] \in Nat
    BY <1>1, <1>3, <1>4
  <2> QED
    BY <1>2, <2>1, DivOfMultiple
<1> HIDE DEF off, offset, size
<1>7. offset < S[f + 1] /\ offset \in Nat
  BY <1>2, <1>4, <1>5
<1>8. offset < Total
  <2>1. n + 1 \in 1..(n + 1) /\ f + 1 <= n + 1
    BY <1>2, <1>3
  <2>2. S[f + 1] <= S[n + 1]
    BY <1>3, <2>1, PlanFacts
  <2>3. S[n + 1] \in Nat /\ S[f + 1] \in Nat
    BY <1>2, <1>3, <2>1
  <2> QED
    BY <1>7, <2>2, <2>3 DEF Total
<1>9. A \in SUBSET (1..n) /\ B \in SUBSET (1..n)
  BY DEF FileIndices
<1>10. past = f
  <2>1. f \in A
    BY <1>3, <1>4, <1>7 DEF FileIndices
  <2>2. \A k \in A : f <= k
    <3> SUFFICES ASSUME NEW k \in 1..n, S[k] + sizes[k] > offset, ~(f <= k) PROVE FALSE
      BY DEF FileIndices
    <3>1. k \in 1..(n + 1) /\ k + 1 \in 1..(n + 1) /\ k + 1 <= f
      BY <1>2, <1>3
    <3>2. S[k + 1] <= S[f]
      BY <1>3, <3>1, PlanFacts
    <3>3. S[k + 1] = S[k] + sizes[k] /\ S[k + 1] \in Nat
      BY <1>2, <3>1, PlanFacts
    <3> QED
      BY <1>4, <1>5, <1>7, <3>2, <3>3
  <2>3. past \in A \cup {n + 1} /\ \A k \in A : past <= k
    <3> HIDE DEF A
    <3> QED
      BY <1>2, <1>9, FirstInIsLeast
  <2> HIDE DEF A, past
  <2>4. past <= f
    BY <2>1, <2>3
  <2>5. past # n + 1
    BY <1>2, <1>3, <2>4
  <2>6. past \in A /\ past \in 1..n
    BY <1>9, <2>3, <2>5
  <2> QED
    BY <1>3, <2>2, <2>4, <2>6
<1> HIDE DEF past
<1>11. FirstIn(B) = f
  <2>1. f \in B
    BY <1>2, <1>3, <1>4, <1>5, <1>10 DEF FileIndices
  <2>2. FirstIn(B) \in B \cup {n + 1} /\ \A k \in B : FirstIn(B) <= k
    <3> HIDE DEF B
    <3> QED
      BY <1>2, <1>9, FirstInIsLeast
  <2>3. \A k \in B : f <= k
    BY <1>10 DEF FileIndices
  <2> HIDE DEF B
  <2>4. FirstIn(B) <= f
    BY <2>1, <2>2
  <2>5. FirstIn(B) # n + 1
    BY <1>2, <1>3, <2>4
  <2>6. FirstIn(B) \in B /\ FirstIn(B) \in 1..n
    BY <1>9, <2>2, <2>5
  <2> QED
    BY <1>3, <2>3, <2>4, <2>6
<1>12. offset - S[f] = off
  BY <1>4, <1>5
<1>13. F[f] + (i - F[f]) = i
  BY <1>1, <1>4
<1>14. ~(size = 0 \/ size > chunkSize \/ offset >= Total)
  <2>1. Total \in Nat
    BY <1>2 DEF Total
  <2> QED
    BY <1>2, <1>5, <1>7, <1>8, <2>1
<1>15. Locate(offset, size) =
         LET g == FirstIn(B)
             o == offset - FileStart[g]
             j == FirstChunk[g] + o \div chunkSize
         IN  IF o % chunkSize = 0 /\ j \in Indices /\ Chunk(j).size = size THEN j
               ELSE NoChunk
  BY <1>14 DEF Locate, past
<1>16. FirstChunk[f] + (offset - FileStart[f]) \div chunkSize = i
  BY <1>6, <1>12, <1>13
<1>17. (offset - FileStart[f]) % chunkSize = 0
  BY <1>6, <1>12
<1>18. Locate(offset, size) = i
  BY <1>11, <1>15, <1>16, <1>17 DEF size
<1> QED
  BY <1>18 DEF offset, size

\* A frame that is found is a chunk of the plan.
LEMMA LocateFindsOnlyChunks ==
    ASSUME Planned, NEW offset \in Nat, NEW size \in Nat, Locate(offset, size) # NoChunk
    PROVE  \E i \in Indices : Chunk(i).offset = offset /\ Chunk(i).size = size
<1> DEFINE n == Len(sizes)
           F == FirstChunk
           S == FileStart
           A == {k \in FileIndices : S[k] + sizes[k] > offset}
           m == FirstIn(A)
           B == {k \in FileIndices : k >= m /\ sizes[k] # 0}
           off == offset - S[m]
           q == off \div chunkSize
<1>1. /\ n \in Nat /\ chunkSize \in Nat \ {0} /\ F \in [1..(n + 1) -> Nat]
            /\ S \in [1..(n + 1) -> Nat]
      /\ S[1] = 0
  BY PlanFacts
<1>2. ~(size = 0 \/ size > chunkSize \/ offset >= Total)
  BY DEF Locate
<1>3. offset < S[n + 1]
  BY <1>1, <1>2 DEF Total
<1>4. A \in SUBSET (1..n) /\ B \in SUBSET (1..n)
  BY DEF FileIndices
<1>5. m \in A \cup {n + 1} /\ \A k \in A : m <= k
  <2> HIDE DEF A
  <2> QED
    BY <1>1, <1>4, FirstInIsLeast
<1>6. n \in A
  <2>1. n # 0
    BY <1>1, <1>3
  <2>2. n \in 1..n
    BY <1>1, <2>1
  <2>3. S[n + 1] = S[n] + sizes[n] /\ S[n] + sizes[n] \in Nat
    BY <1>1, <2>2, PlanFacts
  <2> QED
    BY <1>3, <2>2, <2>3 DEF FileIndices
<1> HIDE DEF m
<1>7. m \in A /\ m \in 1..n /\ m \in 1..(n + 1)
  <2> HIDE DEF A
  <2>1. m <= n
    BY <1>5, <1>6
  <2>2. m # n + 1
    BY <1>1, <2>1
  <2>3. m \in A
    BY <1>5, <2>2
  <2>4. m \in 1..n
    BY <1>4, <2>3
  <2> QED
    BY <1>1, <2>3, <2>4
<1>8. S[m] \in Nat /\ sizes[m] \in Nat /\ S[m] + sizes[m] > offset
  BY <1>1, <1>7, PlanFacts
<1>9. S[m] <= offset
  <2>1. CASE m = 1
    BY <1>1, <2>1
  <2>2. CASE m # 1
    <3> DEFINE k == m - 1
    <3>1. k \in 1..n /\ k \in 1..(n + 1) /\ k + 1 = m /\ ~(m <= k)
      BY <1>1, <1>7, <2>2
    <3>2. k \notin A
      <4> HIDE DEF A
      <4> QED
        BY <1>5, <3>1
    <3>3. S[m] = S[k] + sizes[k]
      <4> HIDE DEF k
      <4> QED
        BY <3>1, PlanFacts
    <3> HIDE DEF k
    <3> QED
      BY <1>8, <3>1, <3>2, <3>3 DEF FileIndices
  <2> QED
    BY <2>1, <2>2
<1>10. FirstIn(B) = m
  <2>1. sizes[m] # 0
    BY <1>8, <1>9
  <2>2. m \in B
    BY <1>7, <2>1 DEF FileIndices
  <2>3. FirstIn(B) \in B \cup {n + 1} /\ \A k \in B : FirstIn(B) <= k
    <3> HIDE DEF B
    <3> QED
      BY <1>1, <1>4, FirstInIsLeast
  <2>4. \A k \in B : m <= k
    BY DEF FileIndices
  <2> HIDE DEF B
  <2>5. FirstIn(B) <= m
    BY <2>2, <2>3
  <2>6. FirstIn(B) # n + 1
    BY <1>1, <1>7, <2>5
  <2>7. FirstIn(B) \in B /\ FirstIn(B) \in 1..n
    BY <1>4, <2>3, <2>6
  <2> QED
    BY <1>7, <2>4, <2>5, <2>7
<1> DEFINE i == F[m] + q
<1>11. Locate(offset, size) =
         IF off % chunkSize = 0 /\ i \in Indices /\ Chunk(i).size = size THEN i ELSE NoChunk
  <2>1. Locate(offset, size) =
         LET g == FirstIn(B)
             o == offset - FileStart[g]
             j == FirstChunk[g] + o \div chunkSize
         IN  IF o % chunkSize = 0 /\ j \in Indices /\ Chunk(j).size = size THEN j
               ELSE NoChunk
    BY <1>2 DEF Locate, m
  <2> QED
    BY <1>10, <2>1
<1>12. off % chunkSize = 0 /\ i \in Indices /\ Chunk(i).size = size
  <2> HIDE DEF i, off
  <2> QED
    BY <1>11
<1>13. off \in Nat /\ off < sizes[m]
  BY <1>8, <1>9
<1> HIDE DEF off
<1>14. q \in Nat /\ off = chunkSize * q + (off % chunkSize)
  BY <1>1, <1>13, DivMod
<1> HIDE DEF q
<1>15. q * chunkSize = off
  BY <1>1, <1>12, <1>13, <1>14
<1>16. q < Chunked(sizes[m])
  BY <1>1, <1>8, <1>13, <1>14, <1>15, ChunkedIsCeiling
<1>17. F[m] \in Nat /\ F[m + 1] = F[m] + Chunked(sizes[m]) /\ Chunked(sizes[m]) \in Nat
  BY <1>1, <1>7, PlanFacts
<1>18. Home(i, m)
  BY <1>7, <1>14, <1>16, <1>17 DEF Home
<1>19. i - F[m] = q
  BY <1>14, <1>17
<1> HIDE DEF i
<1>20. Chunk(i).offset = S[m] + (i - F[m]) * chunkSize
  BY <1>12, <1>18, ChunkFacts
<1>21. Chunk(i).offset = offset
  BY <1>8, <1>9, <1>15, <1>19, <1>20 DEF off
<1> QED
  BY <1>12, <1>21

LEMMA CutsAlwaysDo ==
    ASSUME Planned
    PROVE  CutsAgree
<1>1. SUFFICES ASSUME NEW offset \in 0..(Total + 1), NEW size \in 0..(chunkSize + 1)
               PROVE  LET here == {i \in Indices : Chunk(i).offset = offset
                        /\ Chunk(i).size = size} IN
                      IF here = {} THEN Locate(offset, size) = NoChunk ELSE here
                            = {Locate(offset, size)}
  BY ChunksAlwaysTile DEF CutsAgree, LocateInvertsChunk
<1> DEFINE here == {i \in Indices : Chunk(i).offset = offset /\ Chunk(i).size = size}
<1>2. offset \in Nat /\ size \in Nat
  BY PlanFacts
<1>3. here = {} => Locate(offset, size) = NoChunk
  BY <1>2, LocateFindsOnlyChunks
<1>4. \A i \in here : i = Locate(offset, size)
  BY LocateFindsChunks
<1>5. here # {} => here = {Locate(offset, size)}
  <2> HIDE DEF here
  <2> QED
    BY <1>4
<1> HIDE DEF here
<1>6. IF here = {} THEN Locate(offset, size) = NoChunk ELSE here = {Locate(offset, size)}
  BY <1>3, <1>5
<1> QED
  BY <1>6 DEF here

----------------------------------------------------------------------------
(* Claim.                                                                   *)

\* A ticket is below the counter and held by one stream, and its chunk has not
\* been handed out yet.
Tickets ==
    /\ \A s \in Senders : stream[s].pc = "checking" =>
         /\ stream[s].i < next
         /\ stream[s].i \in Indices => handed[stream[s].i] = 0
    /\ \A r, s \in Senders :
         (stream[r].pc = "checking" /\ stream[s].pc = "checking" /\ stream[r].i
            = stream[s].i) => r = s
    /\ \A i \in Indices : i >= next => handed[i] = 0
    /\ (\A s \in Senders : stream[s].pc = "waiting") => next = 0

\* No missing chunk is passed over: one below the counter was handed out or is
\* held by a stream, and a stream stops only when the counter is past them all.
Reached ==
    /\ \A i \in Indices \ skip : i < next =>
         handed[i] = 1 \/ \E s \in Senders : stream[s].pc = "checking" /\ stream[s].i = i
    /\ \A s \in Senders : stream[s].pc = "drained" => \A i \in Indices : i < next

ClaimInv == PlanTypeOK /\ Tickets /\ HandedOutOnce /\ Reached

LEMMA IndicesAreNat == Indices \subseteq Nat
BY DEF Indices

LEMMA CountIsNat == PlanTypeOK => Count \in Nat
<1>1. PlanTypeOK => sizes \in Seq(Nat) /\ chunkSize \in Nat \ {0}
  BY SizesAreNat, ChunkSizesArePositive DEF PlanTypeOK
<1> QED
  BY <1>1, FirstChunkSums, SizesAreSizes DEF Count

LEMMA BeyondIsAboveAll ==
    ASSUME PlanTypeOK, NEW k \in Nat, k \notin Indices
    PROVE  \A i \in Indices : i < k
BY CountIsNat DEF Indices

LEMMA PlanIsFixed == UNCHANGED <<sizes, chunkSize>> => Indices' = Indices
BY DEF Indices, Count, FirstChunk, Chunked

LEMMA StartInv == PlanInit => ClaimInv
BY IndicesAreNat DEF PlanInit, ClaimInv, PlanTypeOK, Tickets, HandedOutOnce, Reached,
   Calls

LEMMA ClaimStep == ClaimInv /\ [PlanNext]_planVars => ClaimInv'
<1> SUFFICES ASSUME ClaimInv, [PlanNext]_planVars PROVE ClaimInv'
  OBVIOUS
<1>1. /\ stream \in [Senders -> Calls] /\ next \in Nat /\ handed \in [Indices -> Nat]
      /\ Indices \subseteq Nat
  BY IndicesAreNat DEF ClaimInv, PlanTypeOK
<1>2. UNCHANGED <<sizes, chunkSize>> /\ Indices' = Indices
  BY PlanIsFixed DEF PlanNext, SetHave, Add, Check, planVars
<1>7. \A k \in Nat : k \notin Indices => \A i \in Indices : i < k
  BY BeyondIsAboveAll DEF ClaimInv
<1>8. Tickets /\ HandedOutOnce
  BY DEF ClaimInv
<1> USE DEF ClaimInv, PlanTypeOK, Tickets, HandedOutOnce, Reached, Calls
<1>3. ASSUME NEW have \in SUBSET (0..Count), SetHave(have) PROVE ClaimInv'
  <2>9. /\ \A s \in Senders : stream[s].pc = "waiting"
        /\ \A s \in Senders : stream'[s].pc = "claiming"
        /\ next' = next /\ handed' = handed /\ skip' \subseteq Indices
    BY <1>3 DEF SetHave
  <2>10. next = 0
    BY <2>9
  <2>11. \A i \in Indices : handed[i] = 0
    <3>1. \A i \in Indices : i >= next => handed[i] = 0
      OBVIOUS
    <3> QED
      BY <1>1, <2>10, <3>1
  <2>1. /\ \A s \in Senders : stream[s].pc = "waiting" /\ stream'[s].pc = "claiming"
        /\ next' = next /\ next = 0 /\ handed' = handed /\ skip' \subseteq Indices
        /\ \A i \in Indices : handed[i] = 0
    BY <2>9, <2>10, <2>11
  <2>2. PlanTypeOK'
    BY <1>1, <1>2, <1>3, <2>1 DEF SetHave
  <2>3. Tickets'
    BY <1>1, <1>2, <2>1
  <2>4. HandedOutOnce'
    BY <1>1, <1>2, <2>1
  <2>5. Reached'
    <3>1. \A i \in Indices : ~(i < next')
      BY ONLY <1>1, <2>1
    <3>2. \A s \in Senders : stream'[s].pc # "drained"
      BY <2>1
    <3> QED
      BY ONLY <1>2, <3>1, <3>2 DEF Reached
  <2> QED
    BY <2>2, <2>3, <2>4, <2>5
<1>4. ASSUME NEW s \in Senders, Add(s) PROVE ClaimInv'
  <2>1. \A r \in Senders : r # s => stream'[r] = stream[r]
    BY <1>1, <1>4 DEF Add
  <2>2. stream'[s] = [pc |-> "checking", i |-> next] /\ next' = next + 1
           /\ UNCHANGED <<skip, handed>>
    BY <1>1, <1>4 DEF Add
  <2>3. PlanTypeOK'
    BY <1>1, <1>2, <1>4, <2>2 DEF Add
  <2>4. Tickets'
    <3>1. ASSUME NEW t \in Senders, stream'[t].pc = "checking"
          PROVE  /\ stream'[t].i < next'
                 /\ stream'[t].i \in Indices => handed'[stream'[t].i] = 0
      BY ONLY <1>1, <1>8, <2>1, <2>2, <3>1 DEF Tickets, Calls
    <3>2. \A r, t \in Senders :
             (stream'[r].pc = "checking" /\ stream'[t].pc = "checking" /\ stream'[r].i = stream'[t].i)
             => r = t
      BY ONLY <1>1, <1>8, <2>1, <2>2 DEF Tickets, Calls
    <3>3. \A i \in Indices : i >= next' => handed'[i] = 0
      BY ONLY <1>1, <1>8, <2>1, <2>2 DEF Tickets, Calls
    <3>4. stream'[s].pc # "waiting"
      BY ONLY <2>1, <2>2
    <3> QED
      BY ONLY <1>2, <3>1, <3>2, <3>3, <3>4 DEF Tickets
  <2>5. Reached'
    <3>1. ASSUME NEW i \in Indices \ skip, i < next + 1
          PROVE  handed[i] = 1 \/ \E r \in Senders : stream'[r].pc = "checking" /\ stream'[r].i = i
      <4>1. CASE i = next
        BY <2>2, <4>1
      <4>2. CASE i # next
        <5>1. i < next
          BY <1>1, <3>1, <4>2
        <5>2. stream[s].pc # "checking"
          BY <1>4 DEF Add
        <5> QED
          BY <2>1, <5>1, <5>2
      <4> QED
        BY <4>1, <4>2
    <3>2. \A r \in Senders : stream'[r].pc = "drained" => \A i \in Indices : i < next + 1
      BY <1>1, <2>1, <2>2
    <3> QED
      BY <1>2, <2>2, <3>1, <3>2
  <2> QED
    BY <1>2, <2>2, <2>3, <2>4, <2>5
<1>5. ASSUME NEW s \in Senders, Check(s) PROVE ClaimInv'
  <2>1. /\ \A r \in Senders : r # s => stream'[r] = stream[r]
        /\ stream'[s].pc \in {"claiming", "drained"}
        /\ stream'[s].pc = "drained" => stream[s].i \notin Indices
        /\ next' = next /\ skip' = skip /\ stream[s].pc = "checking"
    BY <1>1, <1>5 DEF Check
  <2>2. /\ \A j \in Indices : j # stream[s].i => handed'[j] = handed[j]
        /\ stream[s].i \in Indices \ skip => handed'[stream[s].i] = 1
        /\ stream[s].i \notin Indices \ skip => handed' = handed
    BY <1>1, <1>5 DEF Check
  <2>3. PlanTypeOK'
    BY <1>1, <1>2, <1>5 DEF Check
  <2>4. Tickets'
    <3>1. ASSUME NEW t \in Senders, stream'[t].pc = "checking"
          PROVE  /\ stream'[t].i < next'
                 /\ stream'[t].i \in Indices => handed'[stream'[t].i] = 0
      BY ONLY <1>1, <1>8, <2>1, <2>2, <3>1 DEF Tickets, Calls
    <3>2. \A r, t \in Senders :
             (stream'[r].pc = "checking" /\ stream'[t].pc = "checking" /\ stream'[r].i = stream'[t].i)
             => r = t
      BY ONLY <1>1, <1>8, <2>1, <2>2 DEF Tickets, Calls
    <3>3. \A i \in Indices : i >= next' => handed'[i] = 0
      BY ONLY <1>1, <1>8, <2>1, <2>2 DEF Tickets, Calls
    <3>4. stream'[s].pc # "waiting"
      BY ONLY <2>1, <2>2
    <3> QED
      BY ONLY <1>2, <3>1, <3>2, <3>3, <3>4 DEF Tickets
  <2>5. HandedOutOnce'
    BY ONLY <1>1, <1>2, <1>8, <2>1, <2>2 DEF Tickets, HandedOutOnce
  <2>6. Reached'
    <3>1. ASSUME NEW i \in Indices \ skip, i < next
          PROVE  handed'[i] = 1 \/ \E r \in Senders : stream'[r].pc = "checking" /\ stream'[r].i = i
      <4>1. CASE i = stream[s].i
        BY <2>2, <4>1
      <4>2. CASE i # stream[s].i
        <5>1. handed[i] = 1 \/ \E r \in Senders : stream[r].pc = "checking" /\ stream[r].i = i
          BY <3>1 DEF Reached
        <5> QED
          BY ONLY <2>1, <2>2, <3>1, <4>2, <5>1
      <4> QED
        BY <4>1, <4>2
    <3>2. ASSUME NEW r \in Senders, stream'[r].pc = "drained", NEW i \in Indices PROVE i < next
      <4>1. CASE r # s
        BY <2>1, <3>2, <4>1
      <4>2. CASE r = s
        <5>1. stream[s].i \in Nat /\ stream[s].i < next /\ stream[s].i \notin Indices
          BY <1>1, <2>1, <3>2, <4>2
        <5> QED
          BY <1>1, <1>7, <5>1
      <4> QED
        BY <4>1, <4>2
    <3> QED
      BY <1>2, <2>1, <3>1, <3>2
  <2> QED
    BY <2>3, <2>4, <2>5, <2>6
<1>6. CASE UNCHANGED planVars
  BY <1>2, <1>6 DEF planVars
<1> QED
  BY <1>3, <1>4, <1>5, <1>6 DEF PlanNext

\* Every variable keeps its type, and the skip set and the hand-out counts stay
\* on the chunks of the plan NewPlan built.
THEOREM PlanTypeCorrect == PlanSpec => []PlanTypeOK
<1>1. ClaimInv => PlanTypeOK
  BY DEF ClaimInv
<1> QED
  BY <1>1, StartInv, ClaimStep, PTL DEF PlanSpec

\* Claim, "safe for concurrent use by every data stream", hands out each chunk
\* the receiver lacks once, and none it already has.
THEOREM ClaimsAreExact == PlanSpec => []MissingSentOnce
<1>1. ClaimInv => MissingSentOnce
  <2> SUFFICES ASSUME ClaimInv, NEW t \in Senders, \A s \in Senders : stream[s].pc = "drained"
               PROVE  \A i \in Indices \ skip : handed[i] = 1
    BY DEF ClaimInv, MissingSentOnce, DrainedMeansSent
  <2> QED
    BY DEF ClaimInv, Reached
<1> QED
  BY <1>1, StartInv, ClaimStep, PTL DEF PlanSpec

\* Whatever sizes are offered, with empty files anywhere, and whatever the chunk
\* size: the chunks of NewPlan tile the files, and Locate takes a frame for the
\* chunk it is and refuses every other.
THEOREM CutsAlwaysAgree == PlanSpec => []CutsAgree
<1>1. PlanTypeOK => Planned
  BY SizesAreNat, ChunkSizesArePositive DEF PlanTypeOK, Planned
<1>2. PlanTypeOK => CutsAgree
  BY <1>1, CutsAlwaysDo
<1> QED
  BY <1>2, PlanTypeCorrect, PTL

=================================================================================
