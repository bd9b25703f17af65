---------------------------- MODULE RemoteStream ----------------------------
(***************************************************************************)
(* A file of another device played from a local URL: the URL               *)
(* (internal/daemon/stream.go), the reader each request opens, its blocks, *)
(* its read-ahead and its seeks (caps/remotefs/stream.go, client.go), and  *)
(* the cache they share.  The file may be replaced at the source.          *)
(*                                                                         *)
(* Requests for the URL come one after the other; each leaves behind       *)
(* whatever fetches it still had.  A reader may be used by several callers *)
(* (Read and ReadAt).  A fetch is named by its block and a number, since a *)
(* block that left the window may be fetched again before the first ends.  *)
(***************************************************************************)
EXTENDS BlockCache

CONSTANTS Callers,   \* goroutines that read through one reader
          Twins,     \* bound: fetches of one block at a time are numbered 1 up
          Windows,   \* the lengths windowBlocksLocked returns
          Parallel,  \* cap(Reader.slots)
          MaxOpens,  \* bound: requests for the URL
          MaxReads   \* bound: reads

ASSUME StreamAssumption ==
    /\ Twins \subseteq Nat \ {0}
    /\ Windows \subseteq Nat \ {0}
    /\ Parallel \in Nat \ {0}
    /\ MaxOpens \in Nat
    /\ MaxReads \in Nat

VARIABLES
    source, \* the version of the file at the source
    meta,   \* the version the URL's entry was made for (streamEntry.open)
    opens,  \* requests so far: the number of the current reader
    reader, \* Reader.key of the current reader, 0 when it is closed
    window, \* Reader.blocks: the number of the fetch for each block, 0 if none
    fetch,  \* the goroutines in Reader.fetch and what they have
    wait,   \* wait[c]: the fetch whose block c waits for, or NoFetch
    reads   \* reads so far

vars == <<lru, size, disk, closed, source, meta, opens, reader, window,
          fetch, wait, reads>>

Fetches == Blocks \X Twins
NoFetch == <<>>

Idle == [pc |-> "idle", gen |-> 0, key |-> 0, data |-> NoBlock,
         cancelled |-> FALSE, victims |-> <<>>]

\* Those that hold a slot of the reader they belong to.
InFlight == {"wire", "store", "record", "evict"}
Running == {"get", "open", "drop", "unlink", "slot"} \cup InFlight

Fetched(v) == [pc |-> "get", gen |-> opens, key |-> v, data |-> NoBlock,
               cancelled |-> FALSE, victims |-> <<>>]

\* The file a fetch reads and writes in the cache.
FileOf(f) == BlockName(fetch[f].key, f[1])

\* A block that has arrived is kept while the window or a caller holds it.
Settled(fs, win, wt) ==
    [f \in Fetches |->
        IF fs[f].pc = "ready" /\ win[f[1]] # f[2] /\ (\A c \in Callers : wt[c] # f)
        THEN Idle ELSE fs[f]]

Init ==
    /\ CacheInit
    /\ source = 1
    /\ meta = 0
    /\ opens = 0
    /\ reader = 0
    /\ window = [i \in Blocks |-> 0]
    /\ fetch = [f \in Fetches |-> Idle]
    /\ wait = [c \in Callers |-> NoFetch]
    /\ reads = 0

-----------------------------------------------------------------------------
(* The URL *)

\* Somebody at the source replaces the file.
Replace ==
    /\ source + 1 \in Versions
    /\ source' = source + 1
    /\ UNCHANGED <<cacheVars, meta, opens, reader, window, fetch, wait, reads>>

\* stream: Stat and publish.  A file that has a URL keeps it, with the entry
\* behind it: asking again changes nothing.  An answer to Stat that is old by
\* the time it is published is as good as a file replaced after it.
Publish ==
    /\ meta = 0
    /\ meta' = source
    /\ UNCHANGED <<cacheVars, source, opens, reader, window, fetch, wait, reads>>

\* withdraw, or reap of a URL nobody has asked for lately.
Withdraw ==
    /\ meta # 0
    /\ meta' = 0
    /\ UNCHANGED <<cacheVars, source, opens, reader, window, fetch, wait, reads>>

\* ServeHTTP opens a reader of its own with the entry's size and time.
OpenReader ==
    /\ meta # 0
    /\ closed = "no"
    /\ reader = 0
    /\ opens < MaxOpens
    /\ \A c \in Callers : wait[c] = NoFetch
    /\ reader' = meta
    /\ opens' = opens + 1
    /\ UNCHANGED <<cacheVars, source, meta, window, fetch, wait, reads>>

\* Close: every fetch's context is a child of the reader's.
CloseReader ==
    /\ reader # 0
    /\ reader' = 0
    /\ window' = [i \in Blocks |-> 0]
    /\ fetch' = Settled([f \in Fetches |->
                           IF fetch[f].pc \in Running /\ fetch[f].gen = opens
                           THEN [fetch[f] EXCEPT !.cancelled = TRUE]
                           ELSE fetch[f]],
                        window', wait)
    /\ UNCHANGED <<cacheVars, source, meta, opens, wait, reads>>

-----------------------------------------------------------------------------
(* The reader *)

Free(i) == {k \in Twins : fetch[<<i, k>>].pc = "idle"}

Spare(i) == CHOOSE k \in Free(i) : TRUE

Awaited(f) == \E c \in Callers : wait[c] = f

\* demand's cancellations with the test for callers that wait left out.
AbandonedSlip(gone) ==
    {f \in Fetches : f[1] \in gone /\ window[f[1]] = f[2] /\ fetch[f].pc \in Running}

\* The fetches demand cancels when the blocks gone leave the window.
Abandoned(gone) ==
    {f \in Fetches : /\ f[1] \in gone
                     /\ window[f[1]] = f[2]
                     /\ fetch[f].pc \in Running
                     /\ ~Awaited(f)}

\* readAt of a byte of block i, up to the wait: demand with a window of n.
Demand(c, i, n) ==
    LET inside == {j \in Blocks : i <= j /\ j < i + n}
        start == {j \in inside : window[j] = 0}
    IN /\ reader # 0
       /\ wait[c] = NoFetch
       /\ reads < MaxReads
       /\ \A j \in start : Free(j) # {}
       /\ window' = [j \in Blocks |->
                       IF j \notin inside THEN 0
                       ELSE IF j \in start THEN Spare(j) ELSE window[j]]
       /\ wait' = [wait EXCEPT ![c] = <<i, window'[i]>>]
       /\ fetch' = Settled([f \in Fetches |->
                              IF f[1] \in start /\ window'[f[1]] = f[2]
                              THEN Fetched(reader)
                              ELSE IF f \in Abandoned(Blocks \ inside)
                              THEN [fetch[f] EXCEPT !.cancelled = TRUE]
                              ELSE fetch[f]],
                           window', wait')
       /\ reads' = reads + 1
       /\ UNCHANGED <<cacheVars, source, meta, opens, reader>>

\* The rest of readAt: the block is there, or the reader was closed.
Return(c) ==
    /\ wait[c] # NoFetch
    /\ reader = 0 \/ fetch[wait[c]].pc = "ready"
    /\ wait' = [wait EXCEPT ![c] = NoFetch]
    /\ fetch' = Settled(fetch, window, wait')
    /\ UNCHANGED <<cacheVars, source, meta, opens, reader, window, reads>>

-----------------------------------------------------------------------------
(* A fetch *)

Now(f, r) == fetch' = Settled([fetch EXCEPT ![f] = r], window, wait)

Elsewhere == UNCHANGED <<source, meta, opens, reader, window, wait, reads>>

\* Get, under the lock.
LookUp(f) ==
    /\ fetch[f].pc = "get"
    /\ \/ /\ Hit(FileOf(f))
          /\ Now(f, [fetch[f] EXCEPT !.pc = "open"])
       \/ /\ FileOf(f) \notin Recorded
          /\ Now(f, [fetch[f] EXCEPT !.pc = "slot"])
          /\ UNCHANGED cacheVars
    /\ Elsewhere

\* Get, reading the file: it may have been evicted since.
ReadFile(f) ==
    /\ fetch[f].pc = "open"
    /\ Now(f, IF disk[FileOf(f)] = NoBlock
              THEN [fetch[f] EXCEPT !.pc = "drop"]
              ELSE [fetch[f] EXCEPT !.pc = "ready", !.data = disk[FileOf(f)]])
    /\ UNCHANGED cacheVars
    /\ Elsewhere

\* drop, in its two halves.
Drop(f) ==
    /\ fetch[f].pc = "drop"
    /\ Forget(FileOf(f))
    /\ Now(f, [fetch[f] EXCEPT !.pc = "unlink"])
    /\ Elsewhere

DropFile(f) ==
    /\ fetch[f].pc = "unlink"
    /\ Unlink(FileOf(f))
    /\ Now(f, [fetch[f] EXCEPT !.pc = "slot"])
    /\ Elsewhere

\* A slot, and the request on a stream of its own.  A cancelled context still
\* stops the opening of the stream.
Acquire(f) ==
    /\ fetch[f].pc = "slot"
    /\ ~fetch[f].cancelled
    /\ Cardinality({g \in Fetches : fetch[g].pc \in InFlight /\ fetch[g].gen = fetch[f].gen})
         < Parallel
    /\ Now(f, [fetch[f] EXCEPT !.pc = "wire"])
    /\ UNCHANGED cacheVars
    /\ Elsewhere

GiveUp(f) ==
    /\ fetch[f].pc = "slot"
    /\ fetch[f].cancelled
    /\ Now(f, [fetch[f] EXCEPT !.pc = "ready"])
    /\ UNCHANGED cacheVars
    /\ Elsewhere

\* The source reads the range from the file it has then.  Nothing ties the
\* stream to the context: a cancelled fetch waits like any other.
Answer(f) ==
    /\ fetch[f].pc = "wire"
    /\ Now(f, [fetch[f] EXCEPT !.pc = "store", !.data = source])
    /\ UNCHANGED cacheVars
    /\ Elsewhere

\* The source refuses, or the session ends.
Refuse(f) ==
    /\ fetch[f].pc = "wire"
    /\ Now(f, [fetch[f] EXCEPT !.pc = "ready"])
    /\ UNCHANGED cacheVars
    /\ Elsewhere

\* Put, up to the rename; a file that cannot be written is not cached.
Store(f) ==
    /\ fetch[f].pc = "store"
    /\ \/ /\ Rename(FileOf(f), fetch[f].data)
          /\ Now(f, [fetch[f] EXCEPT !.pc = "record"])
       \/ /\ Now(f, [fetch[f] EXCEPT !.pc = "ready"])
          /\ UNCHANGED cacheVars
    /\ Elsewhere

\* Put, under the lock.
RecordBlock(f) ==
    /\ fetch[f].pc = "record"
    /\ Record(FileOf(f), fetch[f].data)
    /\ LET out == Victims(FileOf(f), fetch[f].data) IN
         Now(f, [fetch[f] EXCEPT !.pc = IF out = <<>> THEN "ready" ELSE "evict",
                                 !.victims = out])
    /\ Elsewhere

\* Put, the victims one after the other.
EvictFile(f) ==
    /\ fetch[f].pc = "evict"
    /\ Unlink(Head(fetch[f].victims))
    /\ LET rest == Tail(fetch[f].victims) IN
         Now(f, [fetch[f] EXCEPT !.pc = IF rest = <<>> THEN "ready" ELSE "evict",
                                 !.victims = rest])
    /\ Elsewhere

FetchStep(f) ==
    \/ LookUp(f) \/ ReadFile(f) \/ Drop(f) \/ DropFile(f) \/ Acquire(f) \/ GiveUp(f)
    \/ Answer(f) \/ Refuse(f) \/ Store(f) \/ RecordBlock(f) \/ EvictFile(f)

\* The daemon stops: streamServer.close takes no new requests first.
CloseCache ==
    /\ ClearCache \/ RemoveDir
    /\ UNCHANGED <<source, meta, opens, reader, window, fetch, wait, reads>>

Next ==
    \/ Replace \/ Publish \/ Withdraw \/ OpenReader \/ CloseReader \/ CloseCache
    \/ \E c \in Callers :
         Return(c) \/ \E i \in Blocks, n \in Windows : Demand(c, i, n)
    \/ \E f \in Fetches : FetchStep(f)

Spec == Init /\ [][Next]_vars

-----------------------------------------------------------------------------
(* Properties *)

\* The shape of the state, the cache's included: one entry a name, a size that
\* never goes below zero.
TypeOK ==
    /\ CacheTypeOK
    /\ source \in Versions
    /\ {meta, reader} \subseteq Versions \cup {0}
    /\ opens \in 0..MaxOpens
    /\ window \in [Blocks -> Twins \cup {0}]
    /\ fetch \in [Fetches -> [pc : {"idle", "ready"} \cup Running, gen : 0..MaxOpens,
                              key : Versions \cup {0}, data : Versions \cup {NoBlock},
                              cancelled : BOOLEAN, victims : Seq(Names)]]
    /\ wait \in [Callers -> Fetches \cup {NoFetch}]
    /\ reads \in 0..MaxReads

\* The cache stays under its cap whatever its goroutines do between the lock
\* and the files: its entries add up to no more, and a file without an entry is
\* one that a goroutine is about to record or to remove (cache.go, Put, drop).
CapHolds ==
    /\ size = Bytes(lru)
    /\ size <= CacheMax
    /\ \A n \in Names :
         disk[n] # NoBlock =>
            \/ n \in Recorded
            \/ closed = "cleared"
            \/ \E f \in Fetches :
                 \/ fetch[f].pc \in {"record", "unlink"} /\ FileOf(f) = n
                 \/ n \in ToSet(fetch[f].victims)

\* A seek by one caller never costs another the block it waits for
\* (stream.go, block.waiting).
SeeksSpareReads ==
    reader # 0 => \A c \in Callers : wait[c] # NoFetch => ~fetch[wait[c]].cancelled

\* A reader is never given a block older than the file it was opened for, from
\* the cache or from the wire, whatever was replaced when (cache.go, cacheKey).
NeverStaler ==
    \A f \in Fetches :
        fetch[f].pc = "ready" /\ fetch[f].data # NoBlock => fetch[f].data >= fetch[f].key
=============================================================================
