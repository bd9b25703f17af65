------------------------------- MODULE ChunkPlan -------------------------------
(****************************************************************************)
(* The chunk plan of internal/caps/files/plan.go.  The offered files are    *)
(* concatenated in offer order into one byte space; a chunk never crosses a *)
(* file boundary, and a frame names its chunk by offset and size alone, so  *)
(* both ends must compute the same cuts.  The sender's data streams draw    *)
(* chunks from one atomic counter, skipping what the receiver has.          *)
(****************************************************************************)
EXTENDS Integers, Sequences

CONSTANTS
    SizeLists,       \* the file sizes an offer may have, in offer order
    ChunkSizes,      \* the chunk sizes an offer may have
    Senders,         \* the goroutines running sendChunks
    NoChunk          \* what an error names

ASSUME SizesAreNat == SizeLists \subseteq Seq(Nat)
ASSUME ChunkSizesArePositive == ChunkSizes \subseteq Nat \ {0}

VARIABLES
    sizes,       \* the sizes NewPlan was given
    chunkSize,   \* Plan.chunkSize
    skip,        \* Plan.skip: the chunks the receiver has
    next,        \* Plan.next, the atomic counter
    stream,      \* stream -> where its Claim is
    handed       \* chunk -> how often Claim returned it

planVars == <<sizes, chunkSize, skip, next, stream, handed>>

----------------------------------------------------------------------------
(* NewPlan, Chunk and Locate.  Files are numbered from 1, chunks from 0.    *)

FileIndices == 1..Len(sizes)
Chunked(size) == size \div chunkSize + (IF size % chunkSize # 0 THEN 1 ELSE 0)

\* The running totals of NewPlan's loop: what lies before file k.
FileStart ==
    LET s[k \in 1..(Len(sizes) + 1)] == IF k = 1 THEN 0 ELSE s[k - 1] + sizes[k - 1] IN s
FirstChunk ==
    LET c[k \in 1..(Len(sizes) + 1)] == IF k = 1 THEN 0 ELSE c[k - 1] + Chunked(sizes[k - 1]) IN c

Total == FileStart[Len(sizes) + 1]
Count == FirstChunk[Len(sizes) + 1]
Indices == 0..(Count - 1)

\* sort.Search's answer on a monotone predicate: the first member, or the end.
FirstIn(ks) == CHOOSE k \in ks \cup {Len(sizes) + 1} :
                 \A j \in ks \cup {Len(sizes) + 1} : k <= j

\* The file of chunk i: the last that starts at or before it, and off the files
\* that have no chunks.
FileOfChunk(i) ==
    LET last == FirstIn({k \in FileIndices : FirstChunk[k] > i}) - 1
    IN  FirstIn({k \in FileIndices : k >= last /\ Chunked(sizes[k]) # 0})

Chunk(i) ==
    LET f == FileOfChunk(i)
        off == (i - FirstChunk[f]) * chunkSize
        rem == sizes[f] - off
    IN  [offset |-> FileStart[f] + off, size |-> IF rem < chunkSize THEN rem ELSE chunkSize,
         file |-> f, fileOffset |-> off]

\* Slip: the frame's size is not compared with the chunk's.
LocateSlip(offset, size) ==
    IF size = 0 \/ size > chunkSize \/ offset >= Total THEN NoChunk
    ELSE LET past == FirstIn({k \in FileIndices : FileStart[k] + sizes[k] > offset})
             f == FirstIn({k \in FileIndices : k >= past /\ sizes[k] # 0})
             off == offset - FileStart[f]
         IN  IF off % chunkSize = 0 THEN FirstChunk[f] + off \div chunkSize ELSE NoChunk

\* The chunk a frame's offset and size name, NoChunk where Locate returns an error.
Locate(offset, size) ==
    IF size = 0 \/ size > chunkSize \/ offset >= Total THEN NoChunk
    ELSE LET past == FirstIn({k \in FileIndices : FileStart[k] + sizes[k] > offset})
             f == FirstIn({k \in FileIndices : k >= past /\ sizes[k] # 0})
             off == offset - FileStart[f]
             i == FirstChunk[f] + off \div chunkSize
         IN  IF off % chunkSize = 0 /\ i \in Indices /\ Chunk(i).size = size THEN i ELSE NoChunk

----------------------------------------------------------------------------
(* SetHave and Claim.                                                       *)

Calls == [pc : {"waiting", "claiming", "checking", "drained"}, i : Nat]

PlanInit ==
    /\ sizes \in SizeLists
    /\ chunkSize \in ChunkSizes
    /\ skip = {}
    /\ next = 0
    /\ stream = [s \in Senders |-> [pc |-> "waiting", i |-> 0]]
    /\ handed = [i \in Indices |-> 0]

\* SetHave: indices beyond the plan are dropped.  The streams start after it.
SetHave(have) ==
    /\ \A s \in Senders : stream[s].pc = "waiting"
    /\ skip' = have \cap Indices
    /\ stream' = [s \in Senders |-> [pc |-> "claiming", i |-> 0]]
    /\ UNCHANGED <<sizes, chunkSize, next, handed>>

\* Slip: Add is a load and a store, so two streams draw one index.
AddSlip(s) ==
    \/ /\ stream[s].pc = "claiming"
       /\ stream' = [stream EXCEPT ![s] = [pc |-> "checking", i |-> next]]
       /\ UNCHANGED <<sizes, chunkSize, skip, handed, next>>
    \/ /\ stream[s].pc = "checking"
       /\ next' = stream[s].i + 1
       /\ UNCHANGED <<sizes, chunkSize, skip, handed, stream>>

\* next.Add(1) - 1
Add(s) ==
    /\ stream[s].pc = "claiming"
    /\ stream' = [stream EXCEPT ![s] = [pc |-> "checking", i |-> next]]
    /\ next' = next + 1
    /\ UNCHANGED <<sizes, chunkSize, skip, handed>>

\* The rest of the turn: the plan is drained, the chunk is skipped, or it is sent.
Check(s) ==
    LET i == stream[s].i IN
    /\ stream[s].pc = "checking"
    /\ stream' = [stream EXCEPT ![s].pc = IF i \in Indices THEN "claiming" ELSE "drained"]
    /\ handed' = IF i \in Indices \ skip THEN [handed EXCEPT ![i] = @ + 1] ELSE handed
    /\ UNCHANGED <<sizes, chunkSize, skip, next>>

PlanNext ==
    \/ \E have \in SUBSET (0..Count) : SetHave(have)
    \/ \E s \in Senders : Add(s) \/ Check(s)

PlanSpec == PlanInit /\ [][PlanNext]_planVars

----------------------------------------------------------------------------
(* Properties.                                                              *)

PlanTypeOK ==
    /\ sizes \in SizeLists
    /\ chunkSize \in ChunkSizes
    /\ skip \in SUBSET Indices
    /\ next \in Nat
    /\ stream \in [Senders -> Calls]
    /\ handed \in [Indices -> Nat]

\* The chunks tile the byte space in order, each inside one file, none empty
\* and none over chunkSize: NewPlan's count and Chunk's cuts agree, with empty
\* files anywhere and a short last chunk in each file.
ChunksTile ==
    /\ \A i \in Indices :
         LET c == Chunk(i) IN
         /\ c.size \in 1..chunkSize
         /\ c.file \in FileIndices
         /\ c.fileOffset + c.size <= sizes[c.file]
         /\ c.offset = FileStart[c.file] + c.fileOffset
         /\ c.offset = (IF i = 0 THEN 0 ELSE Chunk(i - 1).offset + Chunk(i - 1).size)
    /\ Total = (IF Count = 0 THEN 0 ELSE Chunk(Count - 1).offset + Chunk(Count - 1).size)

\* Locate is the inverse of Chunk: it accepts a frame exactly when the frame is
\* a chunk of the plan, and then names that chunk ("rejects anything that is
\* not exactly a chunk of this plan").
LocateInvertsChunk ==
    \A offset \in 0..(Total + 1), size \in 0..(chunkSize + 1) :
        LET here == {i \in Indices : Chunk(i).offset = offset /\ Chunk(i).size = size} IN
        IF here = {} THEN Locate(offset, size) = NoChunk ELSE here = {Locate(offset, size)}

\* The two ends of a transfer agree on the cuts: they tile, and a frame is
\* taken for the chunk it is.
CutsAgree == ChunksTile /\ LocateInvertsChunk

\* No chunk is handed out twice, and none the receiver already has.
HandedOutOnce ==
    \A i \in Indices : handed[i] <= 1 /\ (i \in skip => handed[i] = 0)

\* When every stream has found the plan drained, every missing chunk was sent.
DrainedMeansSent ==
    (Senders # {} /\ \A s \in Senders : stream[s].pc = "drained") =>
        \A i \in Indices \ skip : handed[i] = 1

\* Whatever the interleaving of the streams that draw from the one counter, the
\* chunks the receiver lacks are sent, each once, and no others (Plan.Claim).
MissingSentOnce == HandedOutOnce /\ DrainedMeansSent
================================================================================
