------------------------ MODULE RemoteStream_proofs ------------------------
(***************************************************************************)
(* Theorems about what one device shows of another's: RemoteStream, for    *)
(* every file, window and cache, and Mirror, for any number of requests    *)
(* and sessions.                                                           *)
(***************************************************************************)
EXTENDS RemoteStream, Mirror, SequenceTheorems, FiniteSetTheorems, TLAPS

(***************************************************************************)
(* The inductive invariant.  That no block is older than its key says goes *)
(* around in a circle, from the wire to a fetch, from there to a file, and *)
(* from the file to another fetch: Fresh is what each of them keeps.  That *)
(* nobody waits for a cancelled fetch rests on the window holding none,    *)
(* since that is where a new caller finds the fetch to wait for.           *)
(***************************************************************************)

\* A record of the fetch table, whatever its fields hold.
IsFetch(r) ==
    r = [pc |-> r.pc, gen |-> r.gen, key |-> r.key, data |-> r.data,
         cancelled |-> r.cancelled, victims |-> r.victims]

Fresh(r, s) ==
    /\ IsFetch(r)
    /\ r.key \in Nat /\ r.key <= s
    /\ r.pc \in Running => r.key \in Versions
    /\ r.data \in Nat
    /\ r.data # NoBlock => r.data >= r.key
    /\ r.cancelled \in BOOLEAN

FreshDisk ==
    /\ disk \in [Names -> Nat]
    /\ \A n \in Names : disk[n] # NoBlock => disk[n] >= n[1]

FreshFetches ==
    /\ fetch = [f \in Fetches |-> fetch[f]]
    /\ \A f \in Fetches : Fresh(fetch[f], source)

Sources ==
    /\ source \in Versions
    /\ meta \in Versions \cup {0} /\ meta <= source
    /\ reader \in Versions \cup {0} /\ reader <= source

Shapes ==
    /\ window \in [Blocks -> Twins \cup {0}]
    /\ wait \in [Callers -> Fetches \cup {NoFetch}]

\* The window of an open reader holds no cancelled fetch, a closed one's nothing.
WindowLives ==
    /\ reader = 0 => \A i \in Blocks : window[i] = 0
    /\ reader # 0 =>
         \A i \in Blocks : window[i] # 0 => ~fetch[<<i, window[i]>>].cancelled

IInv == Sources /\ Shapes /\ FreshDisk /\ FreshFetches /\ WindowLives /\ SeeksSpareReads

LEMMA VersionsAreNumbers == Versions \subseteq Nat \ {0} /\ 1 \in Versions /\ Blocks \subseteq Nat
BY CacheAssumption DEF CacheAssumption

LEMMA TwinsAreNumbers == Twins \subseteq Nat \ {0} /\ Windows \subseteq Nat \ {0}
BY StreamAssumption DEF StreamAssumption

LEMMA IdleIsFresh ==
    ASSUME NEW s \in Nat
    PROVE  Fresh(Idle, s) /\ Idle.cancelled = FALSE /\ Idle.pc = "idle"
BY DEF Fresh, IsFetch, Idle, Running, InFlight, NoBlock

LEMMA CancelledIsFresh ==
    ASSUME NEW r, NEW s, Fresh(r, s)
    PROVE  Fresh([r EXCEPT !.cancelled = TRUE], s)
<1> DEFINE q == [pc |-> r.pc, gen |-> r.gen, key |-> r.key, data |-> r.data,
                 cancelled |-> TRUE, victims |-> r.victims]
<1>1. [r EXCEPT !.cancelled = TRUE] = q
  <2>1. ASSUME NEW b
        PROVE  [r EXCEPT !.cancelled = b]
                 = [pc |-> r.pc, gen |-> r.gen, key |-> r.key, data |-> r.data,
                    cancelled |-> b, victims |-> r.victims]
    <3>1. r = [pc |-> r.pc, gen |-> r.gen, key |-> r.key, data |-> r.data,
               cancelled |-> r.cancelled, victims |-> r.victims]
      BY DEF Fresh, IsFetch
    <3> QED BY <3>1
  <2> QED BY <2>1
<1>2. Fresh(q, s)
  BY DEF Fresh, IsFetch
<1> QED
  BY <1>1, <1>2

\* A fetch is either left as it is or, once nobody holds it, taken back.
LEMMA SettledIsOneOfTwo ==
    ASSUME NEW fs, NEW win, NEW wt
    PROVE  /\ Settled(fs, win, wt) = [f \in Fetches |-> Settled(fs, win, wt)[f]]
           /\ \A f \in Fetches : \/ Settled(fs, win, wt)[f] = Idle
                                 \/ Settled(fs, win, wt)[f] = fs[f]
BY DEF Settled

\* The file of a running fetch is named by its key.
LEMMA FileIsNamedByKey ==
    ASSUME IInv, NEW f \in Fetches, fetch[f].key \in Versions
    PROVE  FileOf(f) \in Names /\ FileOf(f)[1] = fetch[f].key
BY DEF FileOf, BlockName, CacheKey, Names, Fetches

\* What every step of a fetch keeps, whatever it does to the cache's list.
LEMMA FetchKeeps ==
    ASSUME IInv, NEW f \in Fetches, NEW r, Now(f, r), Elsewhere, FreshDisk',
           Fresh(r, source), r.cancelled = fetch[f].cancelled
    PROVE  IInv'
<1>1. UNCHANGED <<source, meta, reader, window, wait>>
  BY DEF Elsewhere
<1> DEFINE fs == [fetch EXCEPT ![f] = r]
<1>2. fetch' = Settled(fs, window, wait)
  BY DEF Now
<1>3. \A g \in Fetches : fs[g] = IF g = f THEN r ELSE fetch[g]
  BY DEF IInv, FreshFetches
<1>4. /\ fetch' = [g \in Fetches |-> fetch'[g]]
      /\ \A g \in Fetches : fetch'[g] = Idle \/ fetch'[g] = fs[g]
  <2> HIDE DEF fs
  <2> QED BY <1>2, SettledIsOneOfTwo
<1> HIDE DEF fs
<1>5. source \in Nat
  BY VersionsAreNumbers DEF IInv, Sources
<1>6. \A g \in Fetches : Fresh(fetch'[g], source)
  <2> TAKE g \in Fetches
  <2>1. CASE fetch'[g] = Idle
    BY <2>1, <1>5, IdleIsFresh
  <2>2. CASE fetch'[g] = fs[g]
    BY <2>2, <1>3 DEF IInv, FreshFetches
  <2> QED BY <1>4, <2>1, <2>2
<1>7. \A g \in Fetches : ~fetch[g].cancelled => ~fetch'[g].cancelled
  BY <1>3, <1>4, <1>5, IdleIsFresh
<1>8. FreshFetches'
  BY <1>1, <1>4, <1>6 DEF FreshFetches
<1>9. WindowLives'
  <2>1. \A i \in Blocks : window[i] # 0 => <<i, window[i]>> \in Fetches
    BY DEF IInv, Shapes, Fetches
  <2> QED BY <1>1, <1>7, <2>1 DEF IInv, WindowLives
<1>10. SeeksSpareReads'
  BY <1>1, <1>7 DEF IInv, SeeksSpareReads, Shapes
<1> QED
  BY <1>1, <1>8, <1>9, <1>10 DEF IInv, Sources, Shapes

-----------------------------------------------------------------------------

LEMMA StreamInit == Init => IInv
<1> SUFFICES ASSUME Init PROVE IInv
  OBVIOUS
<1>1. Sources
  BY VersionsAreNumbers DEF Init, Sources
<1>2. Shapes
  BY DEF Init, Shapes
<1>3. FreshDisk
  BY DEF Init, CacheInit, FreshDisk, NoBlock
<1>4. FreshFetches
  <2>1. source \in Nat /\ fetch = [f \in Fetches |-> Idle]
    BY DEF Init
  <2> QED BY <2>1, IdleIsFresh DEF FreshFetches
<1>5. WindowLives /\ SeeksSpareReads
  BY DEF Init, WindowLives, SeeksSpareReads
<1> QED
  BY <1>1, <1>2, <1>3, <1>4, <1>5 DEF IInv

-----------------------------------------------------------------------------
(* The URL and the cache's own end *)

\* A newer file at the source leaves everything as fresh as it was.
LEMMA ReplaceKeeps ==
    ASSUME IInv, Replace
    PROVE  IInv'
<1>1. source' = source + 1 /\ source + 1 \in Versions
      /\ UNCHANGED <<disk, meta, reader, window, fetch, wait>>
  BY DEF Replace, cacheVars
<1>2. source \in Nat /\ meta \in Nat /\ reader \in Nat
  BY VersionsAreNumbers DEF IInv, Sources
<1>3. Sources'
  BY <1>1, <1>2 DEF IInv, Sources
<1>4. FreshFetches'
  <2>1. \A f \in Fetches : Fresh(fetch[f], source + 1)
    BY <1>2 DEF IInv, FreshFetches, Fresh
  <2> QED BY <1>1, <2>1 DEF IInv, FreshFetches
<1> QED
  BY <1>1, <1>3, <1>4 DEF IInv, Shapes, FreshDisk, WindowLives, SeeksSpareReads

LEMMA UrlKeeps ==
    ASSUME IInv, Publish \/ Withdraw
    PROVE  IInv'
<1>1. UNCHANGED <<disk, source, reader, window, fetch, wait>> /\ meta' \in {0, source}
  BY DEF Publish, Withdraw, cacheVars
<1>2. Sources'
  BY <1>1, VersionsAreNumbers DEF IInv, Sources
<1> QED
  BY <1>1, <1>2
  DEF IInv, Shapes, FreshDisk, FreshFetches, WindowLives, SeeksSpareReads

LEMMA CloseCacheKeeps ==
    ASSUME IInv, CloseCache
    PROVE  IInv'
<1>1. UNCHANGED <<source, meta, reader, window, fetch, wait>>
      /\ disk' \in {disk, [n \in Names |-> NoBlock]}
  BY DEF CloseCache, ClearCache, RemoveDir
<1>2. FreshDisk'
  BY <1>1 DEF IInv, FreshDisk, NoBlock
<1> QED
  BY <1>1, <1>2
  DEF IInv, Sources, Shapes, FreshFetches, WindowLives, SeeksSpareReads

-----------------------------------------------------------------------------
(* The reader *)

LEMMA OpenKeeps ==
    ASSUME IInv, OpenReader
    PROVE  IInv'
<1>1. /\ UNCHANGED <<disk, source, meta, window, fetch, wait>>
      /\ meta # 0 /\ reader = 0 /\ reader' = meta
      /\ \A c \in Callers : wait[c] = NoFetch
  BY DEF OpenReader, cacheVars
<1>2. Sources' /\ WindowLives' /\ SeeksSpareReads'
  BY <1>1 DEF IInv, Sources, WindowLives, SeeksSpareReads
<1> QED
  BY <1>1, <1>2 DEF IInv, Shapes, FreshDisk, FreshFetches

\* Steps that settle a table of fetches as fresh as the last.
LEMMA SettledIsFresh ==
    ASSUME NEW fs, NEW win, NEW wt, IInv, fetch' = Settled(fs, win, wt),
           source' = source, \A f \in Fetches : Fresh(fs[f], source)
    PROVE  /\ FreshFetches'
           /\ \A f \in Fetches : ~fs[f].cancelled => ~fetch'[f].cancelled
<1>1. source \in Nat
  BY VersionsAreNumbers DEF IInv, Sources
<1>2. /\ fetch' = [f \in Fetches |-> fetch'[f]]
      /\ \A f \in Fetches : fetch'[f] = Idle \/ fetch'[f] = fs[f]
  BY SettledIsOneOfTwo
<1>3. \A f \in Fetches : Fresh(fetch'[f], source)
  BY <1>1, <1>2, IdleIsFresh
<1> QED
  BY <1>1, <1>2, <1>3, IdleIsFresh DEF FreshFetches

LEMMA CloseReaderKeeps ==
    ASSUME IInv, CloseReader
    PROVE  IInv'
<1> DEFINE fs == [f \in Fetches |->
                    IF fetch[f].pc \in Running /\ fetch[f].gen = opens
                    THEN [fetch[f] EXCEPT !.cancelled = TRUE]
                    ELSE fetch[f]]
<1>1. /\ UNCHANGED <<disk, source, meta, wait>>
      /\ reader' = 0
      /\ window' = [i \in Blocks |-> 0]
      /\ fetch' = Settled(fs, window', wait)
  BY DEF CloseReader, cacheVars
<1>2. \A f \in Fetches : Fresh(fs[f], source)
  BY CancelledIsFresh DEF IInv, FreshFetches
<1> HIDE DEF fs
<1>3. FreshFetches'
  BY <1>1, <1>2, SettledIsFresh
<1>4. Sources'
  BY <1>1, VersionsAreNumbers DEF IInv, Sources
<1>5. Shapes' /\ WindowLives' /\ SeeksSpareReads' /\ FreshDisk'
  BY <1>1 DEF IInv, Shapes, WindowLives, SeeksSpareReads, FreshDisk
<1> QED
  BY <1>3, <1>4, <1>5 DEF IInv

LEMMA ReturnKeeps ==
    ASSUME IInv, NEW c \in Callers, Return(c)
    PROVE  IInv'
<1>1. /\ UNCHANGED <<disk, source, meta, reader, window>>
      /\ wait' = [wait EXCEPT ![c] = NoFetch]
      /\ fetch' = Settled(fetch, window, wait')
  BY DEF Return, cacheVars
<1>2. \A f \in Fetches : Fresh(fetch[f], source)
  BY DEF IInv, FreshFetches
<1>3. FreshFetches' /\ \A f \in Fetches : ~fetch[f].cancelled => ~fetch'[f].cancelled
  BY <1>1, <1>2, SettledIsFresh
<1>4. \A i \in Blocks : window[i] # 0 => <<i, window[i]>> \in Fetches
  BY DEF IInv, Shapes, Fetches
<1>5. Shapes' /\ \A b \in Callers : wait'[b] # NoFetch => wait'[b] = wait[b]
  BY <1>1 DEF IInv, Shapes
<1>6. WindowLives'
  BY <1>1, <1>3, <1>4 DEF IInv, WindowLives
<1>7. SeeksSpareReads'
  <2>1. \A b \in Callers : wait[b] # NoFetch => wait[b] \in Fetches
    BY DEF IInv, Shapes
  <2> QED BY <1>1, <1>3, <1>5, <2>1 DEF IInv, SeeksSpareReads
<1> QED
  BY <1>1, <1>3, <1>5, <1>6, <1>7 DEF IInv, Sources, FreshDisk

\* A seek: the blocks it starts are fresh, those it drops are nobody's.
LEMMA DemandKeeps ==
    ASSUME IInv, NEW c \in Callers, NEW i \in Blocks, NEW n \in Windows, Demand(c, i, n)
    PROVE  IInv'
<1> DEFINE inside == {j \in Blocks : i <= j /\ j < i + n}
           start == {j \in inside : window[j] = 0}
           dropped == Abandoned(Blocks \ inside)
           fs == [f \in Fetches |->
                    IF f[1] \in start /\ window'[f[1]] = f[2]
                    THEN Fetched(reader)
                    ELSE IF f \in dropped
                    THEN [fetch[f] EXCEPT !.cancelled = TRUE]
                    ELSE fetch[f]]
<1>1. /\ UNCHANGED <<disk, source, meta, reader>>
      /\ reader # 0
      /\ \A j \in start : Free(j) # {}
      /\ window' = [j \in Blocks |->
                      IF j \notin inside THEN 0
                      ELSE IF j \in start THEN Spare(j) ELSE window[j]]
      /\ wait' = [wait EXCEPT ![c] = <<i, window'[i]>>]
      /\ fetch' = Settled(fs, window', wait')
  BY DEF Demand, cacheVars
<1>2. i \in inside /\ inside \subseteq Blocks
  BY VersionsAreNumbers, TwinsAreNumbers
<1>3. \A j \in start : Spare(j) \in Twins /\ Spare(j) # 0
  BY <1>1, TwinsAreNumbers DEF Spare, Free
<1>4. window' \in [Blocks -> Twins \cup {0}]
  BY <1>1, <1>3 DEF IInv, Shapes
<1>5. window'[i] # 0 /\ <<i, window'[i]>> \in Fetches
  BY <1>1, <1>2, <1>3, <1>4 DEF IInv, Shapes, Fetches
<1>6. reader \in Versions /\ reader \in Nat /\ reader <= source /\ source \in Nat
  BY <1>1, VersionsAreNumbers DEF IInv, Sources
<1>7. Fresh(Fetched(reader), source) /\ Fetched(reader).cancelled = FALSE
  <2>1. Fetched(reader) = [pc |-> "get", gen |-> opens, key |-> reader, data |-> 0,
                           cancelled |-> FALSE, victims |-> <<>>]
    BY DEF Fetched, NoBlock
  <2> QED BY <1>6, <2>1 DEF Fresh, IsFetch, NoBlock
<1>8. \A f \in Fetches : Fresh(fs[f], source)
  BY <1>7, CancelledIsFresh DEF IInv, FreshFetches
<1>9. \A f \in Fetches : ~fetch[f].cancelled /\ f \notin dropped => ~fs[f].cancelled
  BY <1>7
<1>10. \A j \in start : ~fs[<<j, window'[j]>>].cancelled
  <2> TAKE j \in start
  <2>1. <<j, window'[j]>> \in Fetches
    BY <1>1, <1>2, <1>3 DEF Fetches
  <2> QED BY <2>1, <1>7
<1>11. \A f \in Fetches : f \in dropped => f[1] \notin inside /\ ~Awaited(f)
  BY DEF Abandoned
<1>12. \A j \in Blocks : window'[j] # 0 => /\ <<j, window'[j]>> \in Fetches
                                           /\ ~fs[<<j, window'[j]>>].cancelled
  <2> SUFFICES ASSUME NEW j \in Blocks, window'[j] # 0
               PROVE  /\ <<j, window'[j]>> \in Fetches
                      /\ ~fs[<<j, window'[j]>>].cancelled
    OBVIOUS
  <2>1. j \in inside
    BY <1>1
  <2>2. <<j, window'[j]>> \in Fetches
    BY <1>4 DEF Fetches
  <2>3. CASE j \notin start
    <3>1. window'[j] = window[j]
      BY <1>1, <2>1, <2>3
    <3>2. ~fetch[<<j, window'[j]>>].cancelled
      BY <1>1, <3>1 DEF IInv, WindowLives
    <3>3. <<j, window'[j]>> \notin dropped
      BY <1>11, <2>1, <2>2
    <3> QED BY <1>9, <2>2, <3>2, <3>3
  <2> QED BY <1>10, <2>2, <2>3
<1> HIDE DEF fs, dropped
<1>13. FreshFetches' /\ \A f \in Fetches : ~fs[f].cancelled => ~fetch'[f].cancelled
  BY <1>1, <1>8, SettledIsFresh
<1>14. WindowLives'
  BY <1>1, <1>12, <1>13 DEF WindowLives
<1>15. Shapes'
  BY <1>1, <1>4, <1>5 DEF IInv, Shapes
<1>16. SeeksSpareReads'
  <2> SUFFICES ASSUME NEW b \in Callers, wait'[b] # NoFetch
               PROVE  ~fetch'[wait'[b]].cancelled
    BY DEF SeeksSpareReads
  <2>1. CASE b = c
    <3>1. wait'[b] = <<i, window'[i]>>
      BY <1>1, <2>1 DEF IInv, Shapes
    <3> QED BY <3>1, <1>5, <1>12, <1>13
  <2>2. CASE b # c
    <3>1. wait'[b] = wait[b] /\ wait[b] \in Fetches
      BY <1>1, <2>2 DEF IInv, Shapes
    <3>2. ~fetch[wait[b]].cancelled
      BY <1>1, <3>1 DEF IInv, SeeksSpareReads
    <3>3. Awaited(wait[b])
      BY DEF Awaited
    <3> QED BY <3>1, <3>2, <3>3, <1>9, <1>11, <1>13
  <2> QED BY <2>1, <2>2
<1> QED
  BY <1>1, <1>13, <1>14, <1>15, <1>16 DEF IInv, Sources, FreshDisk

-----------------------------------------------------------------------------
(* A fetch *)

\* A step that changes only the pc, and leaves a fetch that may need its file a key.
LEMMA MovedIsFresh ==
    ASSUME NEW r, NEW s, Fresh(r, s), NEW pc, r.pc \in Running \/ pc \notin Running
    PROVE  /\ Fresh([r EXCEPT !.pc = pc], s)
           /\ [r EXCEPT !.pc = pc].cancelled = r.cancelled
<1> DEFINE q == [pc |-> pc, gen |-> r.gen, key |-> r.key, data |-> r.data,
                 cancelled |-> r.cancelled, victims |-> r.victims]
<1>1. [r EXCEPT !.pc = pc] = q
  <2>1. r = [pc |-> r.pc, gen |-> r.gen, key |-> r.key, data |-> r.data,
             cancelled |-> r.cancelled, victims |-> r.victims]
    BY DEF Fresh, IsFetch
  <2> QED BY <2>1
<1>2. Fresh(q, s) /\ q.cancelled = r.cancelled
  BY DEF Fresh, IsFetch
<1> QED
  BY <1>1, <1>2

\* A step that also fills in what was read.
LEMMA FilledIsFresh ==
    ASSUME NEW r, NEW s, Fresh(r, s), NEW pc, r.pc \in Running,
           NEW d \in Nat, d # NoBlock => d >= r.key
    PROVE  /\ Fresh([r EXCEPT !.pc = pc, !.data = d], s)
           /\ [r EXCEPT !.pc = pc, !.data = d].cancelled = r.cancelled
<1> DEFINE q == [pc |-> pc, gen |-> r.gen, key |-> r.key, data |-> d,
                 cancelled |-> r.cancelled, victims |-> r.victims]
<1>1. [r EXCEPT !.pc = pc, !.data = d] = q
  <2>1. r = [pc |-> r.pc, gen |-> r.gen, key |-> r.key, data |-> r.data,
             cancelled |-> r.cancelled, victims |-> r.victims]
    BY DEF Fresh, IsFetch
  <2>2. DOMAIN r = {"pc", "gen", "key", "data", "cancelled", "victims"}
    BY <2>1
  <2>3. [r EXCEPT !.pc = pc, !.data = d]
          = [x \in DOMAIN r |-> IF x = "data" THEN d ELSE IF x = "pc" THEN pc ELSE r[x]]
    OBVIOUS
  <2> QED BY <2>2, <2>3
<1>2. Fresh(q, s) /\ q.cancelled = r.cancelled
  BY DEF Fresh, IsFetch
<1> QED
  BY <1>1, <1>2

\* A step that also changes what is left to unlink.
LEMMA EvictingIsFresh ==
    ASSUME NEW r, NEW s, Fresh(r, s), NEW pc, r.pc \in Running, NEW vs
    PROVE  /\ Fresh([r EXCEPT !.pc = pc, !.victims = vs], s)
           /\ [r EXCEPT !.pc = pc, !.victims = vs].cancelled = r.cancelled
<1> DEFINE q == [pc |-> pc, gen |-> r.gen, key |-> r.key, data |-> r.data,
                 cancelled |-> r.cancelled, victims |-> vs]
<1>1. [r EXCEPT !.pc = pc, !.victims = vs] = q
  <2>1. r = [pc |-> r.pc, gen |-> r.gen, key |-> r.key, data |-> r.data,
             cancelled |-> r.cancelled, victims |-> r.victims]
    BY DEF Fresh, IsFetch
  <2>2. DOMAIN r = {"pc", "gen", "key", "data", "cancelled", "victims"}
    BY <2>1
  <2>3. [r EXCEPT !.pc = pc, !.victims = vs]
          = [x \in DOMAIN r |-> IF x = "victims" THEN vs ELSE IF x = "pc" THEN pc ELSE r[x]]
    OBVIOUS
  <2> QED BY <2>2, <2>3
<1>2. Fresh(q, s) /\ q.cancelled = r.cancelled
  BY DEF Fresh, IsFetch
<1> QED
  BY <1>1, <1>2

\* Removing a file, any file, leaves the others as fresh.
LEMMA UnlinkIsFresh ==
    ASSUME IInv, NEW x, Unlink(x)
    PROVE  FreshDisk'
BY DEF IInv, FreshDisk, Unlink, NoBlock

LEMMA FetchStepKeeps ==
    ASSUME IInv, NEW f \in Fetches, FetchStep(f)
    PROVE  IInv'
<1> DEFINE r == fetch[f]
<1>1. Fresh(r, source) /\ source \in Versions /\ source \in Nat
  BY VersionsAreNumbers DEF IInv, FreshFetches, Sources
<1>2. FreshDisk
  BY DEF IInv
<1>3. disk' = disk => FreshDisk'
  BY <1>2 DEF FreshDisk
<1>4. r.pc \in Running
  BY DEF FetchStep, LookUp, ReadFile, Drop, DropFile, Acquire, GiveUp, Answer, Refuse,
         Store, RecordBlock, EvictFile, Running, InFlight
<1>5. FileOf(f) \in Names /\ FileOf(f)[1] = r.key /\ r.key \in Nat
  BY <1>1, <1>4, FileIsNamedByKey DEF Fresh
<1>6. ASSUME NEW pc, Now(f, [r EXCEPT !.pc = pc]), Elsewhere, FreshDisk'
      PROVE  IInv'
  BY <1>1, <1>4, <1>6, MovedIsFresh, FetchKeeps
<1>7. CASE LookUp(f)
  <2>1. disk' = disk
    BY <1>7 DEF LookUp, Hit, cacheVars
  <2>2. Elsewhere /\ \E pc \in {"open", "slot"} : Now(f, [r EXCEPT !.pc = pc])
    BY <1>7 DEF LookUp
  <2> QED BY <1>3, <1>6, <2>1, <2>2
<1>8. CASE ReadFile(f)
  <2>1. disk' = disk /\ Elsewhere
    BY <1>8 DEF ReadFile, cacheVars
  <2>2. CASE disk[FileOf(f)] = NoBlock
    <3>1. Now(f, [r EXCEPT !.pc = "drop"])
      BY <1>8, <2>2 DEF ReadFile
    <3> QED BY <1>3, <1>6, <2>1, <3>1
  <2>3. CASE disk[FileOf(f)] # NoBlock
    <3> DEFINE d == disk[FileOf(f)]
    <3>1. Now(f, [r EXCEPT !.pc = "ready", !.data = d])
      BY <1>8, <2>3 DEF ReadFile
    <3>2. d \in Nat /\ d >= r.key
      BY <1>2, <1>5, <2>3 DEF FreshDisk
    <3> HIDE DEF d
    <3>3. /\ Fresh([r EXCEPT !.pc = "ready", !.data = d], source)
          /\ [r EXCEPT !.pc = "ready", !.data = d].cancelled = r.cancelled
      BY <1>1, <1>4, <3>2, FilledIsFresh
    <3> QED BY <1>3, <2>1, <3>1, <3>3, FetchKeeps
  <2> QED BY <2>2, <2>3
<1>9. CASE Drop(f)
  <2>1. disk' = disk /\ Elsewhere /\ Now(f, [r EXCEPT !.pc = "unlink"])
    BY <1>9 DEF Drop, Forget
  <2> QED BY <1>3, <1>6, <2>1
<1>10. CASE DropFile(f)
  <2>1. Unlink(FileOf(f)) /\ Elsewhere /\ Now(f, [r EXCEPT !.pc = "slot"])
    BY <1>10 DEF DropFile
  <2>2. FreshDisk'
    BY <2>1, UnlinkIsFresh
  <2> QED BY <1>6, <2>1, <2>2
<1>11. CASE Acquire(f) \/ GiveUp(f) \/ Refuse(f)
  <2>1. disk' = disk /\ Elsewhere /\ \E pc \in {"wire", "ready"} : Now(f, [r EXCEPT !.pc = pc])
    BY <1>11 DEF Acquire, GiveUp, Refuse, cacheVars
  <2> QED BY <1>3, <1>6, <2>1
<1>12. CASE Answer(f)
  <2>1. disk' = disk /\ Elsewhere /\ Now(f, [r EXCEPT !.pc = "store", !.data = source])
    BY <1>12 DEF Answer, cacheVars
  <2>2. source >= r.key
    BY <1>1, <1>5 DEF Fresh
  <2>3. /\ Fresh([r EXCEPT !.pc = "store", !.data = source], source)
        /\ [r EXCEPT !.pc = "store", !.data = source].cancelled = r.cancelled
    BY <1>1, <1>4, <2>2, FilledIsFresh
  <2> QED BY <1>3, <2>1, <2>3, FetchKeeps
<1>13. CASE Store(f)
  <2>1. Elsewhere /\ \E pc \in {"record", "ready"} : Now(f, [r EXCEPT !.pc = pc])
    BY <1>13 DEF Store
  <2>2. disk' = disk \/ disk' = [disk EXCEPT ![FileOf(f)] = r.data]
    BY <1>13 DEF Store, Rename, cacheVars
  <2>3. FreshDisk'
    BY <1>1, <1>2, <1>5, <2>2 DEF FreshDisk, Fresh
  <2> QED BY <1>6, <2>1, <2>3
<1>14. CASE RecordBlock(f)
  <2> DEFINE vs == Victims(FileOf(f), r.data)
             pc == IF vs = <<>> THEN "ready" ELSE "evict"
  <2>1. disk' = disk /\ Elsewhere
    BY <1>14 DEF RecordBlock, Record
  <2>2. Now(f, [r EXCEPT !.pc = pc, !.victims = vs])
    BY <1>14 DEF RecordBlock
  <2> HIDE DEF vs, pc
  <2>3. /\ Fresh([r EXCEPT !.pc = pc, !.victims = vs], source)
        /\ [r EXCEPT !.pc = pc, !.victims = vs].cancelled = r.cancelled
    BY <1>1, <1>4, EvictingIsFresh
  <2> QED BY <1>3, <2>1, <2>2, <2>3, FetchKeeps
<1>15. CASE EvictFile(f)
  <2> DEFINE vs == Tail(r.victims)
             pc == IF vs = <<>> THEN "ready" ELSE "evict"
  <2>1. Unlink(Head(r.victims)) /\ Elsewhere
    BY <1>15 DEF EvictFile
  <2>2. Now(f, [r EXCEPT !.pc = pc, !.victims = vs])
    BY <1>15 DEF EvictFile
  <2>3. FreshDisk'
    BY <2>1, UnlinkIsFresh
  <2> HIDE DEF vs, pc
  <2>4. /\ Fresh([r EXCEPT !.pc = pc, !.victims = vs], source)
        /\ [r EXCEPT !.pc = pc, !.victims = vs].cancelled = r.cancelled
    BY <1>1, <1>4, EvictingIsFresh
  <2> QED BY <2>1, <2>2, <2>3, <2>4, FetchKeeps
<1> QED
  BY <1>7, <1>8, <1>9, <1>10, <1>11, <1>12, <1>13, <1>14, <1>15 DEF FetchStep

-----------------------------------------------------------------------------

LEMMA Invariance == IInv /\ [Next]_vars => IInv'
<1> SUFFICES ASSUME IInv, [Next]_vars PROVE IInv'
  OBVIOUS
<1>1. CASE Replace
  BY <1>1, ReplaceKeeps
<1>2. CASE Publish \/ Withdraw
  BY <1>2, UrlKeeps
<1>3. CASE OpenReader
  BY <1>3, OpenKeeps
<1>4. CASE CloseReader
  BY <1>4, CloseReaderKeeps
<1>5. CASE CloseCache
  BY <1>5, CloseCacheKeeps
<1>6. ASSUME NEW c \in Callers, Return(c) PROVE IInv'
  BY <1>6, ReturnKeeps
<1>7. ASSUME NEW c \in Callers, NEW i \in Blocks, NEW n \in Windows, Demand(c, i, n)
      PROVE  IInv'
  BY <1>7, DemandKeeps
<1>8. ASSUME NEW f \in Fetches, FetchStep(f) PROVE IInv'
  BY <1>8, FetchStepKeeps
<1>9. CASE UNCHANGED vars
  BY <1>9
  DEF vars, IInv, Sources, Shapes, FreshDisk, FreshFetches, WindowLives, SeeksSpareReads
<1> QED
  BY <1>1, <1>2, <1>3, <1>4, <1>5, <1>6, <1>7, <1>8, <1>9 DEF Next

\* For every cache, window and number of callers: a reader is never given a
\* block older than the version of the file it was opened for (cache.go, cacheKey).
THEOREM BlocksAreNeverStaler == Spec => []NeverStaler
<1>1. IInv => NeverStaler
  BY DEF IInv, FreshFetches, Fresh, NeverStaler
<1> QED
  BY StreamInit, Invariance, <1>1, PTL DEF Spec

\* For every cache, window and number of callers: a seek never cancels the
\* fetch another caller of the open reader waits for (stream.go, demand).
THEOREM SeeksNeverHurt == Spec => []SeeksSpareReads
<1>1. IInv => SeeksSpareReads
  BY DEF IInv
<1> QED
  BY StreamInit, Invariance, <1>1, PTL DEF Spec

-----------------------------------------------------------------------------
(***************************************************************************)
(* The second inductive invariant, of the cache: what its list weighs, who *)
(* answers for a file that is not on it, and the types of the rest.  That  *)
(* a file without an entry has somebody to answer for it rests on each     *)
(* victim evictLocked returns being a name that left the list, and on a    *)
(* fetch having victims only while it removes them.                        *)
(***************************************************************************)

Entry == [name : Names, bytes : Nat \ {0}]
FetchType == [pc : {"idle", "ready"} \cup Running, gen : 0..MaxOpens,
              key : Versions \cup {0}, data : Versions \cup {NoBlock},
              cancelled : BOOLEAN, victims : Seq(Names)]

\* One entry a name.
Distinct(es) == \A j, k \in 1..Len(es) : es[j].name = es[k].name => j = k

ListInv ==
    /\ lru \in Seq(Entry) /\ Distinct(lru)
    /\ size = Bytes(lru) /\ size <= CacheMax

DiskInv ==
    /\ disk \in [Names -> Versions \cup {NoBlock}]
    /\ closed \in {"no", "cleared", "removed"}
    /\ closed = "removed" => \A n \in Names : disk[n] = NoBlock

\* A fetch removes victims while it has some, and stores only what it was given.
Working(r) ==
    /\ r \in FetchType
    /\ r.pc = "evict" <=> r.victims # <<>>
    /\ r.pc \in {"store", "record"} => r.data \in Versions

TableInv ==
    /\ opens \in 0..MaxOpens /\ reads \in 0..MaxReads
    /\ fetch \in [Fetches -> FetchType]
    /\ \A f \in Fetches : Working(fetch[f])

\* Fetch f is about to record the file n, or to remove it.
Owes(f, n) ==
    \/ fetch[f].pc \in {"record", "unlink"} /\ FileOf(f) = n
    \/ n \in ToSet(fetch[f].victims)

Accounted ==
    \A n \in Names : disk[n] # NoBlock =>
        n \in Recorded \/ closed = "cleared" \/ \E f \in Fetches : Owes(f, n)

CacheInv == ListInv /\ DiskInv /\ TableInv /\ Accounted

-----------------------------------------------------------------------------
(* Totals.  Induction is by the least counterexample.                      *)

LEMMA Least ==
    ASSUME NEW T \in SUBSET Nat, T # {}
    PROVE  \E m \in T : \A k \in T : m <= k
<1>1. PICK n \in T : TRUE
  OBVIOUS
<1> DEFINE S == 0..n
           R == StrictSubsetOrdering(S)
           Downs == {0..k : k \in {j \in T : j <= n}}
<1>2. IsWellFoundedOn(R, SUBSET S)
  <2>1. IsFiniteSet(S)
    BY FS_Interval
  <2>2. FiniteSubsetsOf(S) = SUBSET S
    BY <2>1, FS_FiniteSubsetsOfFinite
  <2> QED
    BY <2>2, FS_StrictSubsetOrderingWellFounded
<1>3. Downs \subseteq SUBSET S /\ Downs # {}
  BY <1>1
<1>4. PICK D \in Downs : \A E \in Downs : <<E, D>> \notin R
  BY <1>2, <1>3, WFMin
<1>5. PICK m \in T : m <= n /\ D = 0..m
  OBVIOUS
<1>6. ASSUME NEW k \in T, k < m PROVE FALSE
  <2>1. 0..k \in Downs /\ 0..k \subseteq 0..m /\ m \in 0..m /\ m \notin 0..k
    BY <1>5, <1>6
  <2>2. <<0..k, 0..m>> \in R
    BY <1>3, <1>5, <2>1 DEF StrictSubsetOrdering
  <2> QED
    BY <1>4, <1>5, <2>1, <2>2
<1> QED
  BY <1>5, <1>6

\* A function that adds up d from 0.
Adds(s, n, d) == s = [k \in 0..n |-> IF k = 0 THEN 0 ELSE s[k - 1] + d[k]]

LEMMA TotalsExist ==
    ASSUME NEW n \in Nat, NEW d \in [1..n -> Nat]
    PROVE  \E s \in [0..n -> Nat] : Adds(s, n, d)
<1> DEFINE Done(m) == \E s \in [0..m -> Nat] : Adds(s, m, d)
<1> DEFINE Bad == {m \in Nat : m <= n /\ ~Done(m)}
<1>1. SUFFICES ASSUME Bad # {} PROVE FALSE
  <2>1. n \in Bad <=> ~Done(n)
    <3> HIDE DEF Done
    <3> QED
      OBVIOUS
  <2> HIDE DEF Bad
  <2> QED
    BY <2>1
<1>2. PICK m \in Bad : \A j \in Bad : m <= j
  <2>1. Bad \in SUBSET Nat
    <3> HIDE DEF Done
    <3> QED
      OBVIOUS
  <2> HIDE DEF Bad
  <2> QED
    BY <1>1, <2>1, Least
<1>t. m \in Nat /\ m <= n /\ ~Done(m)
  <2> HIDE DEF Done
  <2> QED
    BY <1>2
<1>3. CASE m = 0
  <2> DEFINE w == [k \in 0..m |-> 0]
  <2>1. w \in [0..m -> Nat]
    OBVIOUS
  <2>2. Adds(w, m, d)
    BY <1>3 DEF Adds
  <2>3. Done(m)
    BY <2>1, <2>2
  <2> HIDE DEF Done
  <2> QED
    BY <1>t, <2>3
<1>4. CASE m # 0
  <2>1. m - 1 \in Nat /\ m - 1 <= n /\ m \in 1..n
    BY <1>t, <1>4
  <2>2. PICK s \in [0..(m - 1) -> Nat] : Adds(s, m - 1, d)
    <3>1. m - 1 \notin Bad
      <4> HIDE DEF Bad
      <4> QED
        BY <1>2, <2>1, <1>t
    <3>2. Done(m - 1)
      <4> HIDE DEF Done
      <4> QED
        BY <2>1, <3>1
    <3> QED
      BY <3>2
  <2> DEFINE w == [k \in 0..m |-> IF k = m THEN s[m - 1] + d[m] ELSE s[k]]
  <2>3. w \in [0..m -> Nat]
    BY <2>1
  <2>4. \A k \in 0..(m - 1) : s[k] = IF k = 0 THEN 0 ELSE s[k - 1] + d[k]
    BY <2>2 DEF Adds
  <2>5. \A k \in 0..m : w[k] = IF k = 0 THEN 0 ELSE w[k - 1] + d[k]
    <3> TAKE k \in 0..m
    <3>1. CASE k = m
      <4>1. w[m] = s[m - 1] + d[m] /\ w[m - 1] = s[m - 1]
        BY <1>t, <2>1
      <4> HIDE DEF w
      <4> QED
        BY <1>4, <3>1, <4>1
    <3>2. CASE k # m
      <4>1. k \in 0..(m - 1) /\ (k # 0 => k - 1 \in 0..(m - 1))
        BY <1>t, <3>2
      <4>2. w[k] = s[k] /\ (k # 0 => w[k - 1] = s[k - 1])
        BY <1>t, <3>2, <4>1
      <4> HIDE DEF w
      <4> QED
        BY <2>4, <4>1, <4>2
    <3> QED
      BY <3>1, <3>2
  <2>6. Adds(w, m, d)
    BY <2>5 DEF Adds
  <2>7. Done(m)
    BY <2>3, <2>6
  <2> HIDE DEF Done
  <2> QED
    BY <1>t, <2>7
<1> QED
  BY <1>3, <1>4

\* Two totals that start x apart and grow alike stay x apart.
Alike(n, f, g, x) ==
    /\ n \in Nat /\ x \in Nat
    /\ \A k \in 0..n : f[k] \in Nat /\ g[k] \in Nat
    /\ f[0] = g[0] + x
    /\ \A k \in 1..n : f[k] + g[k - 1] = g[k] + f[k - 1]

LEMMA TotalsAgree ==
    ASSUME NEW n, NEW f, NEW g, NEW x, Alike(n, f, g, x)
    PROVE  \A k \in 0..n : f[k] = g[k] + x
<1> USE DEF Alike
<1> DEFINE Bad == {m \in 0..n : f[m] # g[m] + x}
<1>1. SUFFICES ASSUME Bad # {} PROVE FALSE
  OBVIOUS
<1>2. PICK m \in Bad : \A j \in Bad : m <= j
  <2>1. Bad \in SUBSET Nat
    OBVIOUS
  <2> HIDE DEF Bad
  <2> QED
    BY <1>1, <2>1, Least
<1>3. m \in 1..n /\ m - 1 \in 0..n /\ m - 1 \notin Bad
  <2>1. m \in 1..n /\ m - 1 \in 0..n
    OBVIOUS
  <2> HIDE DEF Bad
  <2> QED
    BY <1>2, <2>1
<1>4. f[m - 1] = g[m - 1] + x
  BY <1>3
<1> QED
  BY <1>3, <1>4

LEMMA UpToIs ==
    ASSUME NEW es \in Seq(Entry)
    PROVE  /\ Len(es) \in Nat /\ UpTo(es)[0] = 0
           /\ \A k \in 1..Len(es) : UpTo(es)[k] = UpTo(es)[k - 1] + es[k].bytes
           /\ \A k \in 0..Len(es) : UpTo(es)[k] \in Nat
           /\ \A k \in 1..Len(es) : es[k] \in Entry
           /\ Bytes(es) \in Nat
<1> DEFINE n == Len(es)
<1> DEFINE d == [k \in 1..n |-> es[k].bytes]
<1>1. n \in Nat /\ \A k \in 1..n : es[k] \in Entry
  <2> HIDE DEF Entry
  <2> QED
    OBVIOUS
<1>2. d \in [1..n -> Nat]
  BY <1>1 DEF Entry
<1> DEFINE Eq(s) == s = [k \in 0..n |-> IF k = 0 THEN 0 ELSE s[k - 1] + es[k].bytes]
<1>3. PICK s \in [0..n -> Nat] : Adds(s, n, d)
  <2> HIDE DEF d, n
  <2> QED
    BY <1>1, <1>2, TotalsExist
<1>4. Eq(s)
  <2>1. \A k \in 0..n : k = 0 \/ d[k] = es[k].bytes
    BY <1>1
  <2>2. \A k \in 0..n : s[k] = IF k = 0 THEN 0 ELSE s[k - 1] + es[k].bytes
    BY <1>3, <2>1 DEF Adds
  <2> QED
    BY <2>2
<1>5. UpTo(es) = CHOOSE f : Eq(f)
  BY DEF UpTo
<1>6. Eq(UpTo(es))
  BY <1>4, <1>5
<1> DEFINE u == UpTo(es)
<1> HIDE DEF u
<1>7. /\ u[0] = 0
      /\ \A k \in 1..n : u[k] = u[k - 1] + d[k] /\ d[k] = es[k].bytes
  BY <1>1, <1>6 DEF u
<1>8. /\ s[0] = 0
      /\ \A k \in 1..n : s[k] = s[k - 1] + d[k]
  BY <1>1, <1>4
<1>9. \A k \in 0..n : u[k] \in Nat
  <2> DEFINE Bad == {m \in 0..n : u[m] \notin Nat}
  <2>1. SUFFICES ASSUME Bad # {} PROVE FALSE
    OBVIOUS
  <2>2. PICK m \in Bad : \A j \in Bad : m <= j
    <3>1. Bad \in SUBSET Nat
      BY <1>1
    <3> HIDE DEF Bad
    <3> QED
      BY <2>1, <3>1, Least
  <2>3. m \in 1..n /\ m - 1 \in 0..n
    BY <1>1, <1>7
  <2>4. m - 1 \notin Bad
    <3> HIDE DEF Bad
    <3> QED
      BY <2>2, <2>3
  <2>5. u[m - 1] \in Nat /\ d[m] \in Nat
    BY <1>2, <2>3, <2>4
  <2> HIDE DEF d, n
  <2> QED
    BY <1>7, <2>3, <2>5
<1> QED
  BY <1>1, <1>7, <1>9 DEF u, Bytes

LEMMA BytesJoin ==
    ASSUME NEW p \in Seq(Entry), NEW q \in Seq(Entry)
    PROVE  p \o q \in Seq(Entry) /\ Bytes(p \o q) = Bytes(p) + Bytes(q)
<1> DEFINE w == p \o q
<1>1. /\ w \in Seq(Entry) /\ Len(w) = Len(p) + Len(q)
      /\ Len(p) \in Nat /\ Len(q) \in Nat
      /\ \A k \in 1..(Len(p) + Len(q)) : w[k] = IF k <= Len(p) THEN p[k] ELSE q[k - Len(p)]
  <2> HIDE DEF Entry
  <2> QED
    BY ConcatProperties, LenProperties
<1> HIDE DEF w
<1>2. /\ UpTo(w)[0] = 0 /\ UpTo(p)[0] = 0 /\ UpTo(q)[0] = 0
      /\ \A k \in 1..Len(w) : UpTo(w)[k] = UpTo(w)[k - 1] + w[k].bytes
      /\ \A k \in 1..Len(p) : UpTo(p)[k] = UpTo(p)[k - 1] + p[k].bytes
      /\ \A k \in 1..Len(q) : UpTo(q)[k] = UpTo(q)[k - 1] + q[k].bytes
      /\ \A k \in 0..Len(w) : UpTo(w)[k] \in Nat
      /\ \A k \in 0..Len(p) : UpTo(p)[k] \in Nat
      /\ \A k \in 0..Len(q) : UpTo(q)[k] \in Nat
  BY <1>1, UpToIs
<1>b. /\ \A k \in 1..Len(p) : p[k].bytes \in Nat
      /\ \A k \in 1..Len(q) : q[k].bytes \in Nat
  <2>1. (\A k \in 1..Len(p) : p[k] \in Entry) /\ (\A k \in 1..Len(q) : q[k] \in Entry)
    BY UpToIs
  <2> QED
    BY <2>1 DEF Entry
<1>3. UpTo(w)[Len(p)] = UpTo(p)[Len(p)]
  <2> DEFINE f == UpTo(w)
  <2> DEFINE g == UpTo(p)
  <2>1. \A k \in 0..Len(p) : f[k] \in Nat /\ g[k] \in Nat
    BY <1>1, <1>2
  <2>2. f[0] = g[0] + 0
    BY <1>2
  <2>3. \A k \in 1..Len(p) : f[k] + g[k - 1] = g[k] + f[k - 1]
    <3> TAKE k \in 1..Len(p)
    <3>1. k \in 1..Len(w) /\ k - 1 \in 0..Len(p) /\ w[k] = p[k]
      BY <1>1
    <3>2. f[k] = f[k - 1] + p[k].bytes /\ g[k] = g[k - 1] + p[k].bytes
      BY <1>2, <3>1
    <3>3. /\ f[k] \in Nat /\ f[k - 1] \in Nat /\ g[k] \in Nat /\ g[k - 1] \in Nat
          /\ p[k].bytes \in Nat
      <4>1. k \in 0..Len(p) /\ k - 1 \in 0..Len(p)
        BY <3>1
      <4> HIDE DEF f, g
      <4> QED
        BY <1>b, <2>1, <4>1
    <3> HIDE DEF f, g
    <3> QED
      BY <3>2, <3>3
  <2> HIDE DEF f, g
  <2>n. PICK n \in Nat : n = Len(p)
    BY <1>1
  <2>4. \A k \in 0..n : f[k] = g[k] + 0
    <3>1. 0 \in Nat /\ \A k \in 0..n : f[k] \in Nat /\ g[k] \in Nat
      BY <2>n, <2>1
    <3>2. \A k \in 1..n : f[k] + g[k - 1] = g[k] + f[k - 1]
      BY <2>n, <2>3
    <3>3. Alike(n, f, g, 0)
      BY <2>2, <3>1, <3>2 DEF Alike
    <3> QED
      BY <3>3, TotalsAgree
  <2> QED
    BY <1>1, <2>1, <2>4, <2>n DEF f, g
<1>4. UpTo(w)[Len(p) + Len(q)] = UpTo(q)[Len(q)] + UpTo(p)[Len(p)]
  <2> DEFINE f == [k \in 0..Len(q) |-> UpTo(w)[Len(p) + k]]
  <2> DEFINE g == UpTo(q)
  <2> DEFINE x == UpTo(p)[Len(p)]
  <2>1. /\ \A k \in 0..Len(q) : f[k] = UpTo(w)[Len(p) + k] /\ f[k] \in Nat /\ g[k] \in Nat
        /\ x \in Nat
    BY <1>1, <1>2
  <2>2. f[0] = g[0] + x
    BY <1>1, <1>2, <1>3
  <2>3. \A k \in 1..Len(q) : f[k] + g[k - 1] = g[k] + f[k - 1]
    <3> TAKE k \in 1..Len(q)
    <3> DEFINE m == Len(p) + k
    <3>1. /\ m \in 1..Len(w) /\ k - 1 \in 0..Len(q) /\ k \in 0..Len(q)
          /\ m - 1 = Len(p) + (k - 1)
      BY <1>1
    <3>w. w[m] = q[k]
      <4>1. m \in 1..(Len(p) + Len(q)) /\ ~ (m <= Len(p)) /\ m - Len(p) = k
        BY <1>1
      <4> HIDE DEF m
      <4> QED
        BY <1>1, <4>1
    <3>2. f[k] = f[k - 1] + q[k].bytes /\ g[k] = g[k - 1] + q[k].bytes
      <4>1. f[k] = UpTo(w)[m] /\ f[k - 1] = UpTo(w)[m - 1]
        BY <2>1, <3>1
      <4> HIDE DEF f, m
      <4>2. UpTo(w)[m] = UpTo(w)[m - 1] + w[m].bytes
        BY <1>2, <3>1
      <4> QED
        BY <1>2, <3>w, <4>1, <4>2
    <3>3. /\ f[k] \in Nat /\ f[k - 1] \in Nat /\ g[k] \in Nat /\ g[k - 1] \in Nat
          /\ q[k].bytes \in Nat
      BY <1>b, <2>1, <3>1
    <3> HIDE DEF f, g, m
    <3> QED
      BY <3>2, <3>3
  <2> HIDE DEF f, g, x
  <2>n. PICK n \in Nat : n = Len(q)
    BY <1>1
  <2>4. \A k \in 0..n : f[k] = g[k] + x
    <3>1. x \in Nat /\ \A k \in 0..n : f[k] \in Nat /\ g[k] \in Nat
      BY <2>n, <2>1
    <3>2. \A k \in 1..n : f[k] + g[k - 1] = g[k] + f[k - 1]
      BY <2>n, <2>3
    <3>3. Alike(n, f, g, x)
      BY <2>2, <3>1, <3>2 DEF Alike
    <3> QED
      BY <3>3, TotalsAgree
  <2> QED
    BY <1>1, <2>n, <2>1, <2>4 DEF g, x
<1>5. Bytes(p) \in Nat /\ Bytes(q) \in Nat
  BY UpToIs
<1> QED
  BY <1>1, <1>4, <1>5 DEF Bytes, w

LEMMA BytesOfFew ==
    /\ <<>> \in Seq(Entry) /\ Bytes(<<>>) = 0
    /\ \A e \in Entry : <<e>> \in Seq(Entry) /\ Bytes(<<e>>) = e.bytes
<1>1. <<>> \in Seq(Entry) /\ Len(<<>>) = 0
  OBVIOUS
<1>2. Bytes(<<>>) = 0
  BY <1>1, UpToIs DEF Bytes
<1>3. ASSUME NEW e \in Entry PROVE <<e>> \in Seq(Entry) /\ Bytes(<<e>>) = e.bytes
  <2> DEFINE es == <<e>>
  <2>1. es \in Seq(Entry) /\ Len(es) = 1 /\ es[1] = e
    <3> HIDE DEF Entry
    <3> QED
      OBVIOUS
  <2> HIDE DEF es
  <2>2. UpTo(es)[0] = 0 /\ \A k \in 1..1 : UpTo(es)[k] = UpTo(es)[k - 1] + es[k].bytes
    <3> HIDE DEF Entry
    <3> QED
      BY <2>1, UpToIs
  <2>3. e.bytes \in Nat
    BY DEF Entry
  <2> QED
    <3>1. UpTo(es)[1] = 0 + e.bytes
      BY <2>1, <2>2
    <3> QED
      BY <2>1, <2>3, <3>1 DEF Bytes, es
<1> QED
  BY <1>1, <1>2, <1>3

-----------------------------------------------------------------------------
(* Pieces of a list *)

NamesIn(es) == {es[k].name : k \in 1..Len(es)}

LEMMA ListIs ==
    ASSUME NEW es \in Seq(Entry)
    PROVE  /\ Len(es) \in Nat /\ DOMAIN es = 1..Len(es)
           /\ \A k \in 1..Len(es) : /\ es[k] \in Entry /\ es[k].name \in Names
                                    /\ es[k].bytes \in Nat
<1>1. Len(es) \in Nat /\ DOMAIN es = 1..Len(es) /\ \A k \in 1..Len(es) : es[k] \in Entry
  <2> HIDE DEF Entry
  <2> QED
    BY LenProperties
<1> QED
  BY <1>1 DEF Entry

\* A list cut in two: what is in front of the cut and what is behind it.
LEMMA CutInTwo ==
    ASSUME NEW es \in Seq(Entry), NEW k \in 0..Len(es)
    PROVE  /\ SubSeq(es, 1, k) \in Seq(Entry) /\ Len(SubSeq(es, 1, k)) = k
           /\ \A j \in 1..k : SubSeq(es, 1, k)[j] = es[j]
           /\ SubSeq(es, k + 1, Len(es)) \in Seq(Entry)
           /\ Len(SubSeq(es, k + 1, Len(es))) = Len(es) - k
           /\ \A j \in 1..(Len(es) - k) : SubSeq(es, k + 1, Len(es))[j] = es[k + j]
           /\ Bytes(SubSeq(es, 1, k)) + Bytes(SubSeq(es, k + 1, Len(es))) = Bytes(es)
<1> DEFINE p == SubSeq(es, 1, k)
           q == SubSeq(es, k + 1, Len(es))
<1>1. Len(es) \in Nat /\ k \in Nat /\ k <= Len(es) /\ \A j \in 1..Len(es) : es[j] \in Entry
  BY ListIs
<1>2. p \in Seq(Entry) /\ Len(p) = k /\ \A j \in 1..k : p[j] = es[j]
  <2>1. 1 \in Int /\ k \in Int /\ \A j \in 1..k : es[j] \in Entry
    BY <1>1
  <2>2. /\ p \in Seq(Entry)
        /\ Len(p) = IF 1 <= k THEN k - 1 + 1 ELSE 0
        /\ \A j \in 1..(k - 1 + 1) : p[j] = es[1 + j - 1]
    <3> HIDE DEF Entry
    <3> QED
      BY <2>1, SubSeqProperties
  <2> HIDE DEF p
  <2> QED
    BY <1>1, <2>2
<1>3. q \in Seq(Entry) /\ Len(q) = Len(es) - k /\ \A j \in 1..(Len(es) - k) : q[j] = es[k + j]
  <2>1. k + 1 \in Int /\ Len(es) \in Int /\ \A j \in (k + 1)..Len(es) : es[j] \in Entry
    BY <1>1
  <2>2. /\ q \in Seq(Entry)
        /\ Len(q) = IF k + 1 <= Len(es) THEN Len(es) - (k + 1) + 1 ELSE 0
        /\ \A j \in 1..(Len(es) - (k + 1) + 1) : q[j] = es[(k + 1) + j - 1]
    <3> HIDE DEF Entry
    <3> QED
      BY <2>1, SubSeqProperties
  <2>3. Len(q) = Len(es) - k
    <3> HIDE DEF q
    <3> QED
      BY <1>1, <2>2
  <2>4. ASSUME NEW j \in 1..(Len(es) - k) PROVE q[j] = es[k + j]
    <3>1. j \in 1..(Len(es) - (k + 1) + 1) /\ (k + 1) + j - 1 = k + j
      BY <1>1
    <3> HIDE DEF q
    <3> QED
      BY <2>2, <3>1
  <2> QED
    BY <2>2, <2>3, <2>4
<1>4. p \o q = es
  <2>1. p \o q = SubSeq(es, 1, Len(es))
    <3>1. 1 \in 1..(Len(es) + 1) /\ k \in (1 - 1)..Len(es) /\ Len(es) \in k..Len(es)
      BY <1>1
    <3> HIDE DEF Entry
    <3> QED
      BY <3>1, ConcatAdjacentSubSeq
  <2> HIDE DEF Entry
  <2> QED
    BY <2>1, SubSeqFull
<1> HIDE DEF p, q
<1>5. Bytes(p) + Bytes(q) = Bytes(es)
  BY <1>2, <1>3, <1>4, BytesJoin
<1> QED
  BY <1>2, <1>3, <1>5 DEF p, q

\* A list with its k-th entry taken out.
LEMMA TakenOut ==
    ASSUME NEW es \in Seq(Entry), NEW k \in 1..Len(es)
    PROVE  /\ RemoveAt(es, k) \in Seq(Entry) /\ Len(RemoveAt(es, k)) = Len(es) - 1
           /\ \A j \in 1..(Len(es) - 1) :
                RemoveAt(es, k)[j] = IF j < k THEN es[j] ELSE es[j + 1]
           /\ Bytes(RemoveAt(es, k)) + es[k].bytes = Bytes(es)
<1> DEFINE p == SubSeq(es, 1, k - 1)
           q == SubSeq(es, k + 1, Len(es))
           r == SubSeq(es, k, Len(es))
<1>1. /\ Len(es) \in Nat /\ k \in 1..Len(es) /\ k - 1 \in 0..Len(es) /\ k \in 0..Len(es)
      /\ (k - 1) + 1 = k /\ es[k] \in Entry /\ es[k].bytes \in Nat
  BY ListIs
<1>2. /\ p \in Seq(Entry) /\ Len(p) = k - 1 /\ \A j \in 1..(k - 1) : p[j] = es[j]
      /\ r \in Seq(Entry)
      /\ Bytes(p) + Bytes(r) = Bytes(es)
  <2> DEFINE i == k - 1
  <2>1. i \in 0..Len(es) /\ i + 1 = k
    BY <1>1
  <2> HIDE DEF i, Entry
  <2>2. /\ SubSeq(es, 1, i) \in Seq(Entry) /\ Len(SubSeq(es, 1, i)) = i
        /\ \A j \in 1..i : SubSeq(es, 1, i)[j] = es[j]
        /\ SubSeq(es, i + 1, Len(es)) \in Seq(Entry)
        /\ Bytes(SubSeq(es, 1, i)) + Bytes(SubSeq(es, i + 1, Len(es))) = Bytes(es)
    BY <2>1, CutInTwo
  <2> QED
    BY <2>1, <2>2 DEF i
<1>3. /\ q \in Seq(Entry) /\ Len(q) = Len(es) - k
      /\ \A j \in 1..(Len(es) - k) : q[j] = es[k + j]
  <2> HIDE DEF Entry
  <2> QED
    BY <1>1, CutInTwo
<1>4. r = <<es[k]>> \o q
  <2>1. Len(es) \in k..Len(es)
    BY <1>1
  <2> HIDE DEF Entry
  <2> QED
    BY <2>1, SubSeqRecursiveFirst
<1>5. RemoveAt(es, k) = p \o q
  BY DEF RemoveAt
<1> HIDE DEF p, q, r, Entry
<1>6. <<es[k]>> \in Seq(Entry) /\ Bytes(<<es[k]>>) = es[k].bytes
  BY <1>1, BytesOfFew
<1>7. Bytes(r) = es[k].bytes + Bytes(q)
  BY <1>3, <1>4, <1>6, BytesJoin
<1>8. p \o q \in Seq(Entry) /\ Bytes(p \o q) = Bytes(p) + Bytes(q)
  BY <1>2, <1>3, BytesJoin
<1>9. /\ Len(p \o q) = (k - 1) + (Len(es) - k)
      /\ \A j \in 1..((k - 1) + (Len(es) - k)) :
           (p \o q)[j] = IF j <= k - 1 THEN p[j] ELSE q[j - (k - 1)]
  <2>1. /\ Len(p \o q) = Len(p) + Len(q)
        /\ \A j \in 1..(Len(p) + Len(q)) :
             (p \o q)[j] = IF j <= Len(p) THEN p[j] ELSE q[j - Len(p)]
    BY <1>2, <1>3, ConcatProperties
  <2>2. Len(p) = k - 1 /\ Len(q) = Len(es) - k
    BY <1>2, <1>3
  <2> QED
    BY <2>1, <2>2
<1>10. ASSUME NEW j \in 1..(Len(es) - 1)
       PROVE  (p \o q)[j] = IF j < k THEN es[j] ELSE es[j + 1]
  <2>1. j \in 1..((k - 1) + (Len(es) - k)) /\ (j <= k - 1 <=> j < k)
    BY <1>1
  <2>2. CASE j < k
    <3>1. j \in 1..(k - 1)
      BY <1>1, <2>2
    <3> QED
      BY <1>2, <1>9, <2>1, <2>2, <3>1
  <2>3. CASE ~ (j < k)
    <3>1. j - (k - 1) \in 1..(Len(es) - k) /\ k + (j - (k - 1)) = j + 1
      BY <1>1, <2>3
    <3> QED
      BY <1>3, <1>9, <2>1, <2>3, <3>1
  <2> QED
    BY <2>2, <2>3
<1>11. Bytes(p) \in Nat /\ Bytes(q) \in Nat
  BY <1>2, <1>3, UpToIs
<1>12. Len(p \o q) = Len(es) - 1
  BY <1>1, <1>9
<1>13. Bytes(p \o q) + es[k].bytes = Bytes(es)
  BY <1>1, <1>2, <1>7, <1>8, <1>11
<1> QED
  BY <1>5, <1>8, <1>10, <1>12, <1>13

-----------------------------------------------------------------------------
(* The cache's list *)

LEMMA RecordedAre ==
    ASSUME lru \in Seq(Entry)
    PROVE  Recorded = NamesIn(lru)
<1>1. DOMAIN lru = 1..Len(lru)
  BY ListIs
<1> QED
  BY <1>1 DEF Recorded, NamesIn, ToSet

LEMMA PlaceIs ==
    ASSUME lru \in Seq(Entry), NEW n \in Recorded
    PROVE  Place(n) \in 1..Len(lru) /\ lru[Place(n)].name = n
<1>1. DOMAIN lru = 1..Len(lru)
  BY ListIs
<1>2. \E k \in DOMAIN lru : lru[k].name = n
  BY RecordedAre, <1>1 DEF NamesIn
<1> QED
  BY <1>1, <1>2 DEF Place

\* What is left when n is taken out: the other names, and the rest of the bytes.
LEMMA OthersAre ==
    ASSUME ListInv, NEW n
    PROVE  /\ Others(n) \in Seq(Entry) /\ Distinct(Others(n))
           /\ NamesIn(Others(n)) = Recorded \ {n}
           /\ Freed(n) \in Nat /\ Bytes(Others(n)) \in Nat
           /\ Bytes(Others(n)) + Freed(n) = size
<1>1. lru \in Seq(Entry) /\ Distinct(lru) /\ size = Bytes(lru) /\ Bytes(lru) \in Nat
  BY UpToIs DEF ListInv
<1>2. CASE n \notin Recorded
  <2>1. Others(n) = lru /\ Freed(n) = 0
    BY <1>2 DEF Others, Freed
  <2> QED
    BY <1>1, <1>2, <2>1, RecordedAre
<1>3. CASE n \in Recorded
  <2> DEFINE k == Place(n)
             es == Others(n)
  <2>1. k \in 1..Len(lru) /\ lru[k].name = n /\ Len(lru) \in Nat /\ lru[k].bytes \in Nat
    BY <1>1, <1>3, PlaceIs, ListIs
  <2>2. es = RemoveAt(lru, k) /\ Freed(n) = lru[k].bytes
    BY <1>3 DEF Others, Freed
  <2> HIDE DEF k, es, Entry
  <2>3. /\ es \in Seq(Entry) /\ Len(es) = Len(lru) - 1
        /\ \A j \in 1..(Len(lru) - 1) : es[j] = IF j < k THEN lru[j] ELSE lru[j + 1]
        /\ Bytes(es) + lru[k].bytes = Bytes(lru)
    BY <1>1, <2>1, <2>2, TakenOut
  <2> DEFINE ups(j) == IF j < k THEN j ELSE j + 1
  <2>4. \A j \in 1..Len(es) : ups(j) \in 1..Len(lru) /\ ups(j) # k /\ es[j] = lru[ups(j)]
    BY <2>1, <2>3
  <2>5. \A i, j \in 1..Len(es) : ups(i) = ups(j) => i = j
    BY <2>1, <2>3
  <2>6. \A m \in 1..Len(lru) : m # k => \E j \in 1..Len(es) : ups(j) = m
    <3> TAKE m \in 1..Len(lru)
    <3> HAVE m # k
    <3>1. CASE m < k
      <4>1. m \in 1..Len(es) /\ ups(m) = m
        BY <2>1, <2>3, <3>1
      <4> QED
        BY <4>1
    <3>2. CASE m > k
      <4>1. m - 1 \in 1..Len(es) /\ ups(m - 1) = m
        BY <2>1, <2>3, <3>2
      <4> QED
        BY <4>1
    <3> QED
      BY <2>1, <3>1, <3>2
  <2> HIDE DEF ups
  <2>7. Distinct(es)
    BY <1>1, <2>4, <2>5 DEF Distinct
  <2>8. \A m \in 1..Len(lru) : lru[m].name = n => m = k
    BY <1>1, <2>1 DEF Distinct
  <2>9. NamesIn(es) = Recorded \ {n}
    <3>1. ASSUME NEW j \in 1..Len(es) PROVE es[j].name \in NamesIn(lru) /\ es[j].name # n
      BY <2>4, <2>8 DEF NamesIn
    <3>2. ASSUME NEW x \in NamesIn(lru), x # n PROVE x \in NamesIn(es)
      <4>1. PICK m \in 1..Len(lru) : x = lru[m].name
        BY DEF NamesIn
      <4>2. m # k
        BY <2>1, <3>2, <4>1
      <4>3. PICK j \in 1..Len(es) : ups(j) = m
        BY <2>6, <4>2
      <4> QED
        BY <2>4, <4>1, <4>3 DEF NamesIn
    <3> QED
      BY <1>1, <3>1, <3>2, RecordedAre DEF NamesIn
  <2>10. Bytes(es) \in Nat
    BY <2>3, UpToIs
  <2> QED
    BY <1>1, <2>1, <2>2, <2>3, <2>7, <2>9, <2>10 DEF es
<1> QED
  BY <1>2, <1>3

\* An entry put in front of the others.
LEMMA InFront ==
    ASSUME ListInv, NEW e \in Entry
    PROVE  /\ <<e>> \o Others(e.name) \in Seq(Entry) /\ Distinct(<<e>> \o Others(e.name))
           /\ NamesIn(<<e>> \o Others(e.name)) = Recorded \cup {e.name}
           /\ Bytes(<<e>> \o Others(e.name)) = e.bytes + Bytes(Others(e.name))
           /\ Len(<<e>> \o Others(e.name)) >= 1
<1> DEFINE os == Others(e.name)
           es == <<e>> \o os
<1>1. /\ os \in Seq(Entry) /\ Distinct(os) /\ NamesIn(os) = Recorded \ {e.name}
      /\ Bytes(os) \in Nat /\ Len(os) \in Nat
  BY OthersAre, ListIs
<1>2. e.bytes \in Nat
  BY DEF Entry
<1> HIDE DEF os, es, Entry
<1>3. <<e>> \in Seq(Entry) /\ Bytes(<<e>>) = e.bytes /\ Len(<<e>>) = 1 /\ <<e>>[1] = e
  BY BytesOfFew
<1>4. /\ es \in Seq(Entry) /\ Bytes(es) = e.bytes + Bytes(os)
      /\ Len(es) = 1 + Len(os)
      /\ \A j \in 1..(1 + Len(os)) : es[j] = IF j <= 1 THEN <<e>>[j] ELSE os[j - 1]
  <2>1. es \in Seq(Entry) /\ Bytes(es) = e.bytes + Bytes(os)
    BY <1>1, <1>3, BytesJoin DEF es
  <2>2. /\ Len(es) = Len(<<e>>) + Len(os)
        /\ \A j \in 1..(Len(<<e>>) + Len(os)) :
             es[j] = IF j <= Len(<<e>>) THEN <<e>>[j] ELSE os[j - Len(<<e>>)]
    BY <1>1, <1>3, ConcatProperties DEF es
  <2> QED
    BY <1>3, <2>1, <2>2
<1>5. es[1] = e /\ \A j \in 2..Len(es) : es[j] = os[j - 1] /\ j - 1 \in 1..Len(os)
  BY <1>1, <1>3, <1>4
<1>6. \A j \in 1..Len(os) : os[j].name # e.name
  BY <1>1 DEF NamesIn
<1>7. Distinct(es)
  <2> SUFFICES ASSUME NEW i \in 1..Len(es), NEW j \in 1..Len(es), es[i].name = es[j].name
               PROVE  i = j
    BY DEF Distinct
  <2>1. i = 1 \/ i \in 2..Len(es)
    BY <1>1, <1>4
  <2>2. j = 1 \/ j \in 2..Len(es)
    BY <1>1, <1>4
  <2>3. CASE i = 1 \/ j = 1
    BY <1>5, <1>6, <2>1, <2>2, <2>3
  <2>4. CASE i \in 2..Len(es) /\ j \in 2..Len(es)
    <3>1. i - 1 = j - 1
      BY <1>1, <1>5, <2>4 DEF Distinct
    <3> QED
      BY <2>4, <3>1
  <2> QED
    BY <2>1, <2>2, <2>3, <2>4
<1>8. NamesIn(es) = Recorded \cup {e.name}
  <2>1. ASSUME NEW j \in 1..Len(es) PROVE es[j].name \in Recorded \cup {e.name}
    <3>1. j = 1 \/ j \in 2..Len(es)
      BY <1>1, <1>4
    <3> QED
      BY <1>1, <1>5, <3>1 DEF NamesIn
  <2>2. e.name \in NamesIn(es)
    <3>1. 1 \in 1..Len(es)
      BY <1>1, <1>4
    <3> QED
      BY <1>5, <3>1 DEF NamesIn
  <2>3. ASSUME NEW x \in Recorded, x # e.name PROVE x \in NamesIn(es)
    <3>1. PICK j \in 1..Len(os) : x = os[j].name
      BY <1>1, <2>3 DEF NamesIn
    <3> DEFINE i == j + 1
    <3>2. i \in 2..Len(es) /\ i \in 1..Len(es) /\ i - 1 = j
      BY <1>1, <1>4
    <3> HIDE DEF i
    <3> QED
      BY <1>5, <3>1, <3>2 DEF NamesIn
  <2> QED
    BY <2>1, <2>2, <2>3 DEF NamesIn
<1>9. Len(es) >= 1
  BY <1>1, <1>4
<1> QED
  BY <1>4, <1>7, <1>8, <1>9 DEF es, os

-----------------------------------------------------------------------------
(* What the lock sections of the cache do to its list *)

LEMMA HitKeepsList ==
    ASSUME ListInv, NEW n, Hit(n)
    PROVE  ListInv' /\ Recorded' = Recorded
<1> DEFINE e == lru[Place(n)]
<1>1. lru \in Seq(Entry) /\ size = Bytes(lru) /\ size <= CacheMax /\ n \in Recorded
  BY DEF ListInv, Hit
<1>2. Place(n) \in 1..Len(lru) /\ e.name = n /\ e \in Entry /\ Freed(n) = e.bytes
  BY <1>1, PlaceIs, ListIs DEF Freed
<1>3. lru' = <<e>> \o Others(e.name) /\ size' = size
  BY <1>2 DEF Hit
<1> HIDE DEF e, Entry
<1>4. /\ <<e>> \o Others(e.name) \in Seq(Entry) /\ Distinct(<<e>> \o Others(e.name))
      /\ NamesIn(<<e>> \o Others(e.name)) = Recorded \cup {e.name}
      /\ Bytes(<<e>> \o Others(e.name)) = e.bytes + Bytes(Others(e.name))
  BY <1>2, InFront
<1>5. Freed(n) \in Nat /\ Bytes(Others(n)) \in Nat /\ Bytes(Others(n)) + Freed(n) = size
  BY OthersAre
<1>6. Bytes(lru') = size
  BY <1>2, <1>3, <1>4, <1>5
<1>7. lru' \in Seq(Entry) /\ Distinct(lru')
  BY <1>3, <1>4
<1>8. ListInv'
  BY <1>1, <1>3, <1>6, <1>7 DEF ListInv
<1>9. Recorded' = NamesIn(lru')
  BY <1>7, ListIs DEF Recorded, NamesIn, ToSet
<1> QED
  BY <1>1, <1>2, <1>3, <1>4, <1>8, <1>9

LEMMA ForgetKeepsList ==
    ASSUME ListInv, NEW n, Forget(n)
    PROVE  ListInv' /\ Recorded' = Recorded \ {n}
<1>1. lru' = Others(n) /\ size' = size - Freed(n) /\ size <= CacheMax
  BY DEF ListInv, Forget
<1> HIDE DEF Entry
<1>2. /\ Others(n) \in Seq(Entry) /\ Distinct(Others(n))
      /\ NamesIn(Others(n)) = Recorded \ {n}
      /\ Freed(n) \in Nat /\ Bytes(Others(n)) \in Nat
      /\ Bytes(Others(n)) + Freed(n) = size
  BY OthersAre
<1>3. lru' \in Seq(Entry) /\ Distinct(lru')
  BY <1>1, <1>2
<1>4. size' = Bytes(lru') /\ size' <= CacheMax
  BY <1>1, <1>2, CacheAssumption DEF CacheAssumption
<1>5. Recorded' = NamesIn(lru')
  BY <1>3, ListIs DEF Recorded, NamesIn, ToSet
<1> QED
  BY <1>1, <1>2, <1>3, <1>4, <1>5 DEF ListInv

\* A set of numbers up to n has a greatest.
LEMMA Greatest ==
    ASSUME NEW n \in Nat, NEW S \in SUBSET (0..n), S # {}
    PROVE  Max(S) \in S
<1> DEFINE T == {n - x : x \in S}
<1>1. T \in SUBSET Nat /\ T # {}
  <2>1. PICK x \in S : TRUE
    OBVIOUS
  <2>2. n - x \in T
    BY <2>1
  <2>3. \A m \in T : m \in Nat
    OBVIOUS
  <2> HIDE DEF T
  <2> QED
    BY <2>2, <2>3
<1>2. PICK m \in T : \A k \in T : m <= k
  <2> HIDE DEF T
  <2> QED
    BY <1>1, Least
<1>3. PICK x \in S : m = n - x
  BY <1>2
<1>4. \A y \in S : x >= y
  <2> TAKE y \in S
  <2>1. n - y \in T
    OBVIOUS
  <2>2. n - x <= n - y
    BY <1>2, <1>3, <2>1
  <2>3. x \in 0..n /\ y \in 0..n
    OBVIOUS
  <2> QED
    BY <2>2, <2>3
<1> QED
  BY <1>4 DEF Max

\* What evictLocked keeps fits, and each name it does not keep is a victim.
LEMMA RecordKeepsList ==
    ASSUME ListInv, NEW n \in Names, NEW v \in Versions, Record(n, v)
    PROVE  /\ ListInv'
           /\ Victims(n, v) \in Seq(Names)
           /\ Recorded \cup {n} \subseteq Recorded' \cup ToSet(Victims(n, v))
<1> DEFINE e == [name |-> n, bytes |-> Weight[v]]
           es == Pushed(n, v)
           held == Held(n, v)
           fits == Staying(es, held)
           k == Max(fits)
<1>1. e \in Entry /\ e.name = n /\ e.bytes = Weight[v] /\ Weight[v] \in Nat
  BY CacheAssumption DEF CacheAssumption, Entry
<1>2. /\ Others(n) \in Seq(Entry) /\ Freed(n) \in Nat /\ Bytes(Others(n)) \in Nat
      /\ Bytes(Others(n)) + Freed(n) = size
  BY OthersAre
<1>3. /\ es \in Seq(Entry) /\ Distinct(es)
      /\ NamesIn(es) = Recorded \cup {n}
      /\ Bytes(es) = Weight[v] + Bytes(Others(n))
      /\ Len(es) \in Nat
  <2>1. es = <<e>> \o Others(e.name)
    BY <1>1 DEF Pushed
  <2> HIDE DEF e, es, Entry
  <2>2. /\ es \in Seq(Entry) /\ Distinct(es)
        /\ NamesIn(es) = Recorded \cup {e.name}
        /\ Bytes(es) = e.bytes + Bytes(Others(e.name))
    BY <1>1, <2>1, InFront
  <2> QED
    BY <1>1, <2>2, ListIs
<1>4. held = Bytes(es)
  <2>1. held = (size - Freed(n)) + Weight[v]
    BY DEF Held
  <2> HIDE DEF es, held
  <2> QED
    BY <1>1, <1>2, <1>3, <2>1
<1>5. k \in fits
  <2>1. fits \in SUBSET (0..Len(es)) /\ 0 \in fits
    BY <1>3 DEF Staying
  <2> HIDE DEF fits, es
  <2> QED
    BY <1>3, <2>1, Greatest
<1>6. k \in 0..Len(es) /\ (k = 0 \/ held - Bytes(SubSeq(es, k + 1, Len(es))) <= CacheMax)
  <2> HIDE DEF k, es, held
  <2> QED
    BY <1>5 DEF Staying
<1> DEFINE p == SubSeq(es, 1, k)
           q == SubSeq(es, k + 1, Len(es))
<1>7. lru' = p /\ size' = held - Bytes(q)
  BY DEF Record
<1> HIDE DEF e, es, held, fits, k, Entry
<1>8. /\ p \in Seq(Entry) /\ Len(p) = k /\ \A j \in 1..k : p[j] = es[j]
      /\ q \in Seq(Entry) /\ Len(q) = Len(es) - k
      /\ \A j \in 1..(Len(es) - k) : q[j] = es[k + j]
      /\ Bytes(p) + Bytes(q) = Bytes(es)
  BY <1>3, <1>6, CutInTwo
<1>9. Victims(n, v) = [j \in DOMAIN Reverse(q) |-> Reverse(q)[j].name]
  BY DEF Victims, q, k, fits, held, es
<1> HIDE DEF p, q
<1>10. Bytes(p) \in Nat /\ Bytes(q) \in Nat
  BY <1>8, UpToIs
<1>11. size' = Bytes(p)
  BY <1>3, <1>4, <1>7, <1>8, <1>10
<1>12. size' <= CacheMax
  <2>1. CASE k = 0
    <3>1. p = <<>>
      BY <1>8, <2>1, EmptySeq
    <3>2. Bytes(p) = 0
      BY <3>1, BytesOfFew
    <3> QED
      BY <1>11, <3>2, CacheAssumption DEF CacheAssumption
  <2>2. CASE k # 0
    BY <1>6, <1>7, <2>2 DEF q
  <2> QED
    BY <2>1, <2>2
<1>13. Distinct(p)
  <2>1. \A j \in 1..k : j \in 1..Len(es)
    BY <1>3, <1>6
  <2> QED
    BY <1>3, <1>8, <2>1 DEF Distinct
<1>14. ListInv'
  <2>1. lru' \in Seq(Entry) /\ Distinct(lru') /\ size' = Bytes(lru') /\ size' <= CacheMax
    BY <1>7, <1>8, <1>11, <1>12, <1>13
  <2> QED
    BY <2>1 DEF ListInv
<1> DEFINE vs == Victims(n, v)
           m == Len(q)
<1>15. /\ m \in Nat
       /\ vs = [j \in 1..m |-> q[m - j + 1].name]
  <2>1. m \in Nat
    BY <1>8, ListIs
  <2>2. Reverse(q) = [j \in 1..m |-> q[m - j + 1]]
    BY DEF Reverse
  <2> HIDE DEF m
  <2> QED
    BY <1>9, <2>1, <2>2
<1> HIDE DEF vs, m
<1>16. \A j \in 1..m : q[j].name \in Names
  BY <1>8, ListIs DEF m
<1>17. vs \in Seq(Names)
  <2>1. \A j \in 1..m : m - j + 1 \in 1..m
    BY <1>15
  <2>2. vs \in [1..m -> Names]
    BY <1>15, <1>16, <2>1
  <2> QED
    BY <1>15, <2>2
<1>18. ASSUME NEW x \in NamesIn(es) PROVE x \in Recorded' \/ x \in ToSet(vs)
  <2>1. PICK i \in 1..Len(es) : x = es[i].name
    BY DEF NamesIn
  <2>2. CASE i <= k
    <3>1. i \in 1..k /\ i \in 1..Len(lru') /\ lru'[i] = es[i]
      BY <1>3, <1>6, <1>7, <1>8, <2>2
    <3>2. DOMAIN lru' = 1..Len(lru')
      BY <1>7, <1>8, ListIs
    <3> QED
      BY <2>1, <3>1, <3>2 DEF Recorded, ToSet
  <2>3. CASE i > k
    <3> DEFINE a == i - k
    <3>1. a \in 1..(Len(es) - k) /\ k + a = i /\ a \in 1..m
      BY <1>3, <1>6, <1>8, <2>3 DEF m
    <3>2. q[a] = es[i]
      BY <1>8, <3>1
    <3> DEFINE j == m - a + 1
    <3>3. j \in 1..m /\ m - j + 1 = a
      BY <1>15, <3>1
    <3> HIDE DEF a, j
    <3>4. j \in DOMAIN vs /\ vs[j] = x
      BY <1>15, <2>1, <3>2, <3>3
    <3> QED
      BY <3>4 DEF ToSet
  <2> QED
    BY <1>3, <1>6, <2>2, <2>3
<1> QED
  BY <1>3, <1>14, <1>17, <1>18 DEF vs

-----------------------------------------------------------------------------
(* What the steps do to the fetches *)

\* What a fetch holds is what Owes says of it.
Holds(r, f, n) ==
    \/ r.pc \in {"record", "unlink"} /\ BlockName(r.key, f[1]) = n
    \/ n \in ToSet(r.victims)

LEMMA OwesIsHolds ==
    ASSUME NEW f, NEW n
    PROVE  Owes(f, n) <=> Holds(fetch[f], f, n)
BY DEF Owes, Holds, FileOf

LEMMA IdleIsWorking == Working(Idle)
<1>1. <<>> \in Seq(Names) /\ 0 \in 0..MaxOpens
  BY StreamAssumption DEF StreamAssumption
<1> HIDE DEF Names
<1>2. Idle \in FetchType
  BY <1>1 DEF Idle, FetchType, NoBlock
<1> QED
  BY <1>2 DEF Working, Idle

\* Who neither evicts nor is at one of two places holds nothing.
LEMMA FreeHands ==
    ASSUME NEW r, Working(r), NEW f, NEW n, r.pc \notin {"record", "unlink", "evict"}
    PROVE  ~Holds(r, f, n)
<1>1. r.victims = <<>>
  BY DEF Working
<1>2. ToSet(<<>>) = {}
  BY DEF ToSet
<1> QED
  BY <1>1, <1>2 DEF Holds

LEMMA SettledHolds ==
    ASSUME NEW fs, NEW win, NEW wt, fetch' = Settled(fs, win, wt),
           \A f \in Fetches : Working(fs[f])
    PROVE  /\ fetch' \in [Fetches -> FetchType]
           /\ \A f \in Fetches : Working(fetch'[f])
           /\ \A f \in Fetches, n \in Names : Holds(fs[f], f, n) => Holds(fetch'[f], f, n)
<1>1. /\ fetch' = [f \in Fetches |-> fetch'[f]]
      /\ \A f \in Fetches : fetch'[f] = fs[f] \/ (fetch'[f] = Idle /\ fs[f].pc = "ready")
  BY DEF Settled
<1>2. \A f \in Fetches : Working(fetch'[f])
  BY <1>1, IdleIsWorking
<1>3. \A f \in Fetches : fetch'[f] \in FetchType
  BY <1>2 DEF Working
<1>4. fetch' \in [Fetches -> FetchType]
  BY <1>1, <1>3
<1>5. ASSUME NEW f \in Fetches, NEW n \in Names, Holds(fs[f], f, n)
      PROVE  Holds(fetch'[f], f, n)
  <2>1. fs[f].pc # "ready"
    BY <1>5, FreeHands
  <2> QED
    BY <1>1, <1>5, <2>1
<1> QED
  BY <1>2, <1>4, <1>5

\* A step of fetch f leaves what the others hold, and f with what r holds.
LEMMA StepHolds ==
    ASSUME TableInv, NEW f \in Fetches, NEW r, Now(f, r), Elsewhere, Working(r)
    PROVE  /\ TableInv'
           /\ \A n \in Names : Holds(r, f, n) => Owes(f, n)'
           /\ \A g \in Fetches \ {f}, n \in Names : Owes(g, n) => Owes(g, n)'
<1> DEFINE fs == [fetch EXCEPT ![f] = r]
<1>1. fetch' = Settled(fs, window, wait)
  BY DEF Now
<1>2. /\ \A g \in Fetches : fs[g] = IF g = f THEN r ELSE fetch[g]
      /\ \A g \in Fetches : Working(fetch[g])
  BY DEF TableInv
<1>3. \A g \in Fetches : Working(fs[g])
  BY <1>2
<1> HIDE DEF fs
<1>4. /\ fetch' \in [Fetches -> FetchType]
      /\ \A g \in Fetches : Working(fetch'[g])
      /\ \A g \in Fetches, n \in Names : Holds(fs[g], g, n) => Holds(fetch'[g], g, n)
  BY <1>1, <1>3, SettledHolds
<1>5. \A g \in Fetches, n \in Names : Owes(g, n)' <=> Holds(fetch'[g], g, n)
  BY DEF Owes, Holds, FileOf
<1>6. TableInv'
  BY <1>4 DEF TableInv, Elsewhere
<1> QED
  BY <1>2, <1>4, <1>5, <1>6, OwesIsHolds

\* A fetch that is cancelled holds what it held.
LEMMA CancelledHolds ==
    ASSUME NEW r, Working(r)
    PROVE  /\ Working([r EXCEPT !.cancelled = TRUE])
           /\ \A f, n : Holds(r, f, n) => Holds([r EXCEPT !.cancelled = TRUE], f, n)
<1> DEFINE q == [r EXCEPT !.cancelled = TRUE]
<1>1. q \in FetchType /\ q.pc = r.pc /\ q.key = r.key /\ q.victims = r.victims /\ q.data = r.data
  <2> HIDE DEF Names
  <2> QED
    BY DEF Working, FetchType
<1> HIDE DEF q
<1>2. Working(q) /\ \A f, n : Holds(r, f, n) => Holds(q, f, n)
  BY <1>1 DEF Working, Holds
<1> QED
  BY <1>2 DEF q

\* One that moves to where no list of victims is wanted.
LEMMA MovedIsWorking ==
    ASSUME NEW r, Working(r), r.pc # "evict",
           NEW pc \in {"idle", "ready"} \cup Running, pc # "evict",
           NEW d \in Versions \cup {NoBlock}, pc \in {"store", "record"} => d \in Versions
    PROVE  /\ Working([r EXCEPT !.pc = pc, !.data = d])
           /\ [r EXCEPT !.pc = pc, !.data = d].pc = pc
           /\ [r EXCEPT !.pc = pc, !.data = d].key = r.key
<1> DEFINE q == [r EXCEPT !.pc = pc, !.data = d]
<1>1. r \in FetchType /\ r.victims = <<>>
  BY DEF Working
<1>2. q \in FetchType /\ q.pc = pc /\ q.key = r.key /\ q.victims = r.victims /\ q.data = d
  <2> HIDE DEF Names, Running
  <2> QED
    BY <1>1 DEF FetchType
<1> HIDE DEF q
<1>3. Working(q)
  BY <1>1, <1>2 DEF Working
<1> QED
  BY <1>2, <1>3 DEF q

\* One that has a list of victims to go through, or has come to its end.
LEMMA EvictingIsWorking ==
    ASSUME NEW r, Working(r), NEW vs \in Seq(Names), NEW pc,
           pc = IF vs = <<>> THEN "ready" ELSE "evict"
    PROVE  /\ Working([r EXCEPT !.pc = pc, !.victims = vs])
           /\ [r EXCEPT !.pc = pc, !.victims = vs].victims = vs
<1> DEFINE q == [r EXCEPT !.pc = pc, !.victims = vs]
<1>1. r \in FetchType /\ pc \in {"idle", "ready"} \cup Running
  BY DEF Working, Running, InFlight
<1>2. q \in FetchType /\ q.pc = pc /\ q.victims = vs
  <2> HIDE DEF Names, Running
  <2> QED
    BY <1>1 DEF FetchType
<1> HIDE DEF q
<1>3. Working(q)
  BY <1>2 DEF Working
<1> QED
  BY <1>2, <1>3 DEF q

LEMMA SteppedIsWorking ==
    ASSUME NEW r, Working(r), r.pc # "evict",
           NEW pc \in {"idle", "ready"} \cup Running, pc \notin {"evict", "store", "record"}
    PROVE  /\ Working([r EXCEPT !.pc = pc])
           /\ [r EXCEPT !.pc = pc].pc = pc
           /\ [r EXCEPT !.pc = pc].key = r.key
<1> DEFINE q == [r EXCEPT !.pc = pc]
<1>1. r \in FetchType /\ r.victims = <<>>
  BY DEF Working
<1>2. q \in FetchType /\ q.pc = pc /\ q.key = r.key /\ q.victims = r.victims
  <2> HIDE DEF Names, Running
  <2> QED
    BY <1>1 DEF FetchType
<1> HIDE DEF q
<1>3. Working(q)
  BY <1>1, <1>2 DEF Working
<1> QED
  BY <1>2, <1>3 DEF q

LEMMA StoringIsWorking ==
    ASSUME NEW r, Working(r), r.pc = "store"
    PROVE  /\ Working([r EXCEPT !.pc = "record"])
           /\ [r EXCEPT !.pc = "record"].pc = "record"
           /\ [r EXCEPT !.pc = "record"].key = r.key
<1> DEFINE q == [r EXCEPT !.pc = "record"]
<1>1. r \in FetchType /\ r.victims = <<>> /\ r.data \in Versions /\ "record" \in Running
  BY DEF Working, Running, InFlight
<1>2. q \in FetchType /\ q.pc = "record" /\ q.key = r.key /\ q.victims = r.victims
      /\ q.data = r.data
  <2> HIDE DEF Names, Running
  <2> QED
    BY <1>1 DEF FetchType
<1> HIDE DEF q
<1>3. Working(q)
  BY <1>1, <1>2 DEF Working
<1> QED
  BY <1>2, <1>3 DEF q

-----------------------------------------------------------------------------
(* The steps of a fetch *)

\* A fetch that held nothing steps, and the files are as they were.
LEMMA IdleHandStep ==
    ASSUME CacheInv, NEW f \in Fetches, NEW r, Now(f, r), Elsewhere, Working(r),
           fetch[f].pc \notin {"record", "unlink", "evict"},
           ListInv', UNCHANGED <<disk, closed>>,
           \A n \in Recorded : n \in Recorded' \/ (n \in Names => Holds(r, f, n))
    PROVE  CacheInv'
<1>1. /\ TableInv'
      /\ \A n \in Names : Holds(r, f, n) => Owes(f, n)'
      /\ \A g \in Fetches \ {f}, n \in Names : Owes(g, n) => Owes(g, n)'
  BY StepHolds DEF CacheInv
<1>2. \A n : ~Owes(f, n)
  BY FreeHands, OwesIsHolds DEF CacheInv, TableInv
<1>3. DiskInv'
  BY DEF CacheInv, DiskInv
<1>4. Accounted'
  <2> SUFFICES ASSUME NEW n \in Names, disk[n] # NoBlock,
                      n \notin Recorded', closed # "cleared"
               PROVE  \E g \in Fetches : Owes(g, n)'
    BY DEF Accounted
  <2>1. CASE n \in Recorded
    BY <1>1, <2>1
  <2>2. CASE n \notin Recorded
    <3>1. PICK g \in Fetches : Owes(g, n)
      BY <2>2 DEF CacheInv, Accounted
    <3> QED
      BY <1>1, <1>2, <3>1
  <2> QED
    BY <2>1, <2>2
<1> QED
  BY <1>1, <1>3, <1>4 DEF CacheInv

\* One that writes or removes the file x, and then answers for what it held.
LEMMA FileStep ==
    ASSUME CacheInv, NEW f \in Fetches, NEW r, Now(f, r), Elsewhere, Working(r),
           NEW x \in Names, NEW v \in Versions \cup {NoBlock},
           disk' = [disk EXCEPT ![x] = v], UNCHANGED <<lru, size, closed>>,
           v # NoBlock => closed # "removed" /\ Holds(r, f, x),
           \A n \in Names \ {x} : Owes(f, n) => Holds(r, f, n)
    PROVE  CacheInv'
<1>1. /\ TableInv'
      /\ \A n \in Names : Holds(r, f, n) => Owes(f, n)'
      /\ \A g \in Fetches \ {f}, n \in Names : Owes(g, n) => Owes(g, n)'
  BY StepHolds DEF CacheInv
<1>2. ListInv' /\ Recorded' = Recorded
  BY DEF CacheInv, ListInv, Recorded
<1>3. \A n \in Names : disk'[n] = IF n = x THEN v ELSE disk[n]
  BY DEF CacheInv, DiskInv
<1>4. DiskInv'
  <2>1. disk' \in [Names -> Versions \cup {NoBlock}]
    BY DEF CacheInv, DiskInv
  <2>2. closed' = "removed" => \A n \in Names : disk'[n] = NoBlock
    BY <1>3 DEF CacheInv, DiskInv
  <2>3. closed' \in {"no", "cleared", "removed"}
    BY DEF CacheInv, DiskInv
  <2> QED
    BY <2>1, <2>2, <2>3 DEF DiskInv
<1>5. Accounted'
  <2> SUFFICES ASSUME NEW n \in Names, disk'[n] # NoBlock,
                      n \notin Recorded, closed # "cleared"
               PROVE  \E g \in Fetches : Owes(g, n)'
    BY <1>2 DEF Accounted
  <2>1. CASE n = x
    BY <1>1, <1>3, <2>1
  <2>2. CASE n # x
    <3>1. PICK g \in Fetches : Owes(g, n)
      BY <1>3, <2>2 DEF CacheInv, Accounted
    <3> QED
      BY <1>1, <2>2, <3>1
  <2> QED
    BY <2>1, <2>2
<1> QED
  BY <1>1, <1>2, <1>4, <1>5 DEF CacheInv

LEMMA CacheFetchStepKeeps ==
    ASSUME IInv, CacheInv, NEW f \in Fetches, FetchStep(f)
    PROVE  CacheInv'
<1> DEFINE r == fetch[f]
<1>1. Working(r) /\ r \in FetchType /\ ListInv
  BY DEF CacheInv, TableInv, Working
<1>2. r.pc \in Running
  BY DEF FetchStep, LookUp, ReadFile, Drop, DropFile, Acquire, GiveUp, Answer, Refuse,
         Store, RecordBlock, EvictFile, Running, InFlight
<1>3. FileOf(f) \in Names /\ FileOf(f) = BlockName(r.key, f[1])
  <2>1. r.key \in Versions
    BY <1>2 DEF IInv, FreshFetches, Fresh
  <2> QED
    BY <2>1, FileIsNamedByKey DEF FileOf
<1>l. UNCHANGED lru /\ UNCHANGED size => ListInv' /\ Recorded' = Recorded
  BY <1>1 DEF ListInv, Recorded
<1>p. \A pc \in {"ready", "open", "slot", "drop", "unlink", "wire"} :
        pc \in {"idle", "ready"} \cup Running /\ pc \notin {"evict", "store", "record"}
  BY DEF Running, InFlight
<1>o. \A n : Owes(f, n) <=> Holds(r, f, n)
  BY OwesIsHolds
<1>4. CASE LookUp(f)
  <2>1. Elsewhere /\ r.pc = "get"
    BY <1>4 DEF LookUp
  <2>2. CASE Hit(FileOf(f)) /\ Now(f, [r EXCEPT !.pc = "open"])
    <3>1. ListInv' /\ Recorded' = Recorded
      BY <1>1, <2>2, HitKeepsList
    <3>2. Working([r EXCEPT !.pc = "open"])
      BY <1>1, <1>p, <2>1, SteppedIsWorking
    <3>3. UNCHANGED <<disk, closed>>
      BY <2>2 DEF Hit
    <3> QED
      BY <2>1, <2>2, <3>1, <3>2, <3>3, IdleHandStep
  <2>3. CASE UNCHANGED cacheVars /\ Now(f, [r EXCEPT !.pc = "slot"])
    <3>1. Working([r EXCEPT !.pc = "slot"])
      BY <1>1, <1>p, <2>1, SteppedIsWorking
    <3>2. ListInv' /\ Recorded' = Recorded /\ UNCHANGED <<disk, closed>>
      BY <1>l, <2>3 DEF cacheVars
    <3> QED
      BY <2>1, <2>3, <3>1, <3>2, IdleHandStep
  <2> QED
    BY <1>4, <2>2, <2>3 DEF LookUp
<1>5. CASE ReadFile(f)
  <2> DEFINE d == disk[FileOf(f)]
  <2>1. Elsewhere /\ r.pc = "open" /\ UNCHANGED <<disk, closed>> /\ ListInv'
        /\ Recorded' = Recorded
    BY <1>5, <1>l DEF ReadFile, cacheVars
  <2>2. d \in Versions \cup {NoBlock}
    BY <1>3 DEF CacheInv, DiskInv
  <2>3. CASE d = NoBlock
    <3>1. Now(f, [r EXCEPT !.pc = "drop"])
      BY <1>5, <2>3 DEF ReadFile
    <3>2. Working([r EXCEPT !.pc = "drop"])
      BY <1>1, <1>p, <2>1, SteppedIsWorking
    <3> QED
      BY <2>1, <3>1, <3>2, IdleHandStep
  <2>4. CASE d # NoBlock
    <3>1. Now(f, [r EXCEPT !.pc = "ready", !.data = d])
      BY <1>5, <2>4 DEF ReadFile
    <3> HIDE DEF d
    <3>2. Working([r EXCEPT !.pc = "ready", !.data = d])
      BY <1>1, <1>p, <2>1, <2>2, MovedIsWorking
    <3> QED
      BY <2>1, <3>1, <3>2, IdleHandStep
  <2> QED
    BY <2>3, <2>4
<1>6. CASE Drop(f)
  <2> DEFINE q == [r EXCEPT !.pc = "unlink"]
  <2>1. Elsewhere /\ r.pc = "drop" /\ UNCHANGED <<disk, closed>> /\ Forget(FileOf(f))
        /\ Now(f, q)
    BY <1>6 DEF Drop, Forget
  <2>2. Working(q) /\ q.pc = "unlink" /\ q.key = r.key
    BY <1>1, <1>p, <2>1, SteppedIsWorking
  <2>3. ListInv' /\ Recorded' = Recorded \ {FileOf(f)}
    BY <1>1, <2>1, ForgetKeepsList
  <2> HIDE DEF q
  <2>4. Holds(q, f, FileOf(f))
    BY <1>3, <2>2 DEF Holds
  <2> QED
    BY <2>1, <2>2, <2>3, <2>4, IdleHandStep
<1>7. CASE DropFile(f)
  <2> DEFINE q == [r EXCEPT !.pc = "slot"]
  <2>1. Elsewhere /\ r.pc = "unlink" /\ Unlink(FileOf(f)) /\ Now(f, q)
    BY <1>7 DEF DropFile
  <2>2. Working(q)
    BY <1>1, <1>p, <2>1, SteppedIsWorking
  <2> HIDE DEF q
  <2>3. r.victims = <<>> /\ ToSet(<<>>) = {}
    BY <1>1, <2>1 DEF Working, ToSet
  <2>4. \A n \in Names \ {FileOf(f)} : ~Owes(f, n)
    BY <2>3, <1>o, <1>3 DEF Holds
  <2>5. disk' = [disk EXCEPT ![FileOf(f)] = NoBlock] /\ UNCHANGED <<lru, size, closed>>
    BY <2>1 DEF Unlink
  <2>6. NoBlock \in Versions \cup {NoBlock}
    OBVIOUS
  <2> QED
    BY <1>3, <2>1, <2>2, <2>4, <2>5, <2>6, FileStep
<1>8. CASE Acquire(f) \/ GiveUp(f) \/ Refuse(f)
  <2>1. PICK pc \in {"wire", "ready"} : Now(f, [r EXCEPT !.pc = pc])
    BY <1>8 DEF Acquire, GiveUp, Refuse
  <2>2. Elsewhere /\ UNCHANGED cacheVars /\ r.pc \in {"slot", "wire"}
    BY <1>8 DEF Acquire, GiveUp, Refuse
  <2>3. Working([r EXCEPT !.pc = pc])
    BY <1>1, <1>p, <2>2, SteppedIsWorking
  <2>4. ListInv' /\ Recorded' = Recorded /\ UNCHANGED <<disk, closed>>
    BY <1>l, <2>2 DEF cacheVars
  <2> QED
    BY <2>1, <2>2, <2>3, <2>4, IdleHandStep
<1>9. CASE Answer(f)
  <2>1. Elsewhere /\ UNCHANGED cacheVars /\ r.pc = "wire"
        /\ Now(f, [r EXCEPT !.pc = "store", !.data = source])
    BY <1>9 DEF Answer
  <2>2. source \in Versions
    BY DEF IInv, Sources
  <2>3. "store" \in {"idle", "ready"} \cup Running
    BY DEF Running, InFlight
  <2>4. Working([r EXCEPT !.pc = "store", !.data = source])
    BY <1>1, <2>1, <2>2, <2>3, MovedIsWorking
  <2>5. ListInv' /\ Recorded' = Recorded /\ UNCHANGED <<disk, closed>>
    BY <1>l, <2>1 DEF cacheVars
  <2> QED
    BY <2>1, <2>4, <2>5, IdleHandStep
<1>10. CASE Store(f)
  <2>1. Elsewhere /\ r.pc = "store"
    BY <1>10 DEF Store
  <2>2. CASE Rename(FileOf(f), r.data) /\ Now(f, [r EXCEPT !.pc = "record"])
    <3> DEFINE q == [r EXCEPT !.pc = "record"]
    <3>1. Working(q) /\ q.pc = "record" /\ q.key = r.key
      BY <1>1, <2>1, StoringIsWorking
    <3>2. Now(f, q)
      BY <2>2
    <3> HIDE DEF q
    <3>3. Holds(q, f, FileOf(f))
      BY <1>3, <3>1 DEF Holds
    <3>4. /\ disk' = [disk EXCEPT ![FileOf(f)] = r.data] /\ UNCHANGED <<lru, size, closed>>
          /\ closed # "removed"
      BY <2>2 DEF Rename
    <3>5. \A n \in Names \ {FileOf(f)} : ~Owes(f, n)
      BY <1>1, <1>o, <2>1, FreeHands
    <3>6. r.data \in Versions \cup {NoBlock}
      BY <1>1, <2>1 DEF Working
    <3> QED
      BY <1>3, <2>1, <3>1, <3>2, <3>3, <3>4, <3>5, <3>6, FileStep
  <2>3. CASE UNCHANGED cacheVars /\ Now(f, [r EXCEPT !.pc = "ready"])
    <3>1. Working([r EXCEPT !.pc = "ready"])
      BY <1>1, <1>p, <2>1, SteppedIsWorking
    <3>2. ListInv' /\ Recorded' = Recorded /\ UNCHANGED <<disk, closed>>
      BY <1>l, <2>3 DEF cacheVars
    <3> QED
      BY <2>1, <2>3, <3>1, <3>2, IdleHandStep
  <2> QED
    BY <1>10, <2>2, <2>3 DEF Store
<1>11. CASE RecordBlock(f)
  <2> DEFINE vs == Victims(FileOf(f), r.data)
             pc == IF vs = <<>> THEN "ready" ELSE "evict"
             q == [r EXCEPT !.pc = pc, !.victims = vs]
  <2>1. Elsewhere /\ r.pc = "record" /\ UNCHANGED <<disk, closed>> /\ Now(f, q)
        /\ Record(FileOf(f), r.data)
    BY <1>11 DEF RecordBlock, Record
  <2>2. r.data \in Versions
    BY <1>1, <2>1 DEF Working
  <2>3. /\ ListInv' /\ vs \in Seq(Names)
        /\ Recorded \cup {FileOf(f)} \subseteq Recorded' \cup ToSet(vs)
    BY <1>1, <1>3, <2>1, <2>2, RecordKeepsList
  <2>p. pc = IF vs = <<>> THEN "ready" ELSE "evict"
    OBVIOUS
  <2> HIDE DEF vs, pc
  <2>4. Working(q) /\ q.victims = vs
    <3>1. vs \in Seq(Names)
      BY <2>3
    <3> HIDE DEF r, Names
    <3> QED
      BY <1>1, <2>p, <3>1, EvictingIsWorking
  <2> HIDE DEF q
  <2>5. \A n \in Recorded \cup {FileOf(f)} : n \in Recorded' \/ Holds(q, f, n)
    BY <2>3, <2>4 DEF Holds
  <2>6. /\ TableInv'
        /\ \A n \in Names : Holds(q, f, n) => Owes(f, n)'
        /\ \A g \in Fetches \ {f}, n \in Names : Owes(g, n) => Owes(g, n)'
    BY <2>1, <2>4, StepHolds DEF CacheInv
  <2>7. DiskInv'
    BY <2>1 DEF CacheInv, DiskInv
  <2>8. \A n \in Names : Owes(f, n) => n = FileOf(f)
    <3>1. r.victims = <<>> /\ ToSet(<<>>) = {}
      BY <1>1, <2>1 DEF Working, ToSet
    <3> QED
      BY <3>1, <1>o, <1>3 DEF Holds
  <2>9. Accounted'
    <3> SUFFICES ASSUME NEW n \in Names, disk[n] # NoBlock,
                        n \notin Recorded', closed # "cleared"
                 PROVE  \E g \in Fetches : Owes(g, n)'
      BY <2>1 DEF Accounted
    <3>1. CASE n \in Recorded \cup {FileOf(f)}
      BY <2>5, <2>6, <3>1
    <3>2. CASE n \notin Recorded \cup {FileOf(f)}
      <4>1. PICK g \in Fetches : Owes(g, n)
        BY <3>2 DEF CacheInv, Accounted
      <4> QED
        BY <2>6, <2>8, <3>2, <4>1
    <3> QED
      BY <3>1, <3>2
  <2> QED
    BY <2>3, <2>6, <2>7, <2>9 DEF CacheInv
<1>12. CASE EvictFile(f)
  <2> DEFINE ws == r.victims
             vs == Tail(ws)
             pc == IF vs = <<>> THEN "ready" ELSE "evict"
             q == [r EXCEPT !.pc = pc, !.victims = vs]
  <2>1. Elsewhere /\ r.pc = "evict" /\ Unlink(Head(ws)) /\ Now(f, q)
    BY <1>12 DEF EvictFile
  <2>2. ws \in Seq(Names) /\ ws # <<>>
    BY <1>1, <2>1 DEF Working, FetchType
  <2>p. pc = IF vs = <<>> THEN "ready" ELSE "evict"
    OBVIOUS
  <2> HIDE DEF pc
  <2>3. /\ Head(ws) \in Names /\ vs \in Seq(Names)
        /\ Head(ws) = ws[1] /\ Len(ws) \in Nat /\ DOMAIN ws = 1..Len(ws)
        /\ DOMAIN vs = 1..(Len(ws) - 1)
        /\ \A i \in 1..(Len(ws) - 1) : vs[i] = ws[i + 1]
    <3> HIDE DEF ws, vs, Names
    <3>1. Head(ws) \in Names /\ Head(ws) = ws[1] /\ Len(ws) \in Nat /\ DOMAIN ws = 1..Len(ws)
      BY <2>2
    <3>2. /\ vs \in Seq(Names) /\ Len(vs) = Len(ws) - 1
          /\ \A i \in 1..Len(vs) : vs[i] = ws[i + 1]
      BY <2>2, HeadTailProperties DEF vs
    <3>3. DOMAIN vs = 1..Len(vs)
      BY <3>2
    <3> QED
      BY <3>1, <3>2, <3>3
  <2> HIDE DEF vs
  <2>4. Working(q) /\ q.victims = vs
    <3>1. vs \in Seq(Names)
      BY <2>3
    <3> HIDE DEF r, Names
    <3> QED
      BY <1>1, <2>p, <3>1, EvictingIsWorking
  <2> HIDE DEF q
  <2>5. \A n \in Names \ {Head(ws)} : Owes(f, n) => Holds(q, f, n)
    <3> SUFFICES ASSUME NEW n \in Names, n # Head(ws), Owes(f, n) PROVE Holds(q, f, n)
      OBVIOUS
    <3>1. n \in ToSet(ws)
      BY <1>o, <2>1 DEF Holds
    <3>2. PICK i \in 1..Len(ws) : n = ws[i]
      BY <2>3, <3>1 DEF ToSet
    <3>3. i - 1 \in 1..(Len(ws) - 1) /\ (i - 1) + 1 = i
      BY <2>3, <3>2
    <3>4. n = vs[i - 1] /\ i - 1 \in DOMAIN vs
      BY <2>3, <3>2, <3>3
    <3> QED
      BY <2>4, <3>4 DEF Holds, ToSet
  <2>6. disk' = [disk EXCEPT ![Head(ws)] = NoBlock] /\ UNCHANGED <<lru, size, closed>>
    BY <2>1 DEF Unlink
  <2>7. NoBlock \in Versions \cup {NoBlock}
    OBVIOUS
  <2> HIDE DEF ws
  <2> QED
    BY <2>1, <2>3, <2>4, <2>5, <2>6, <2>7, FileStep
<1> QED
  BY <1>4, <1>5, <1>6, <1>7, <1>8, <1>9, <1>10, <1>11, <1>12 DEF FetchStep

-----------------------------------------------------------------------------
(* The other steps *)

\* Steps that leave the cache alone, and each fetch with what it holds.
LEMMA CacheUntouched ==
    ASSUME CacheInv, UNCHANGED cacheVars, TableInv',
           \A f \in Fetches, n \in Names : Owes(f, n) => Owes(f, n)'
    PROVE  CacheInv'
<1>1. UNCHANGED <<lru, size, disk, closed>>
  BY DEF cacheVars
<1>2. Recorded' = Recorded
  BY <1>1 DEF Recorded
<1>3. ListInv' /\ DiskInv'
  BY <1>1 DEF CacheInv, ListInv, DiskInv
<1>4. Accounted'
  BY <1>1, <1>2 DEF CacheInv, Accounted
<1> QED
  BY <1>3, <1>4 DEF CacheInv

LEMMA SameFetches ==
    ASSUME UNCHANGED fetch
    PROVE  \A f, n : Owes(f, n) => Owes(f, n)'
BY DEF Owes, FileOf

LEMMA StreamCacheInit == Init => CacheInv
<1> SUFFICES ASSUME Init PROVE CacheInv
  OBVIOUS
<1>1. lru = <<>> /\ size = 0 /\ closed = "no" /\ disk = [n \in Names |-> NoBlock]
      /\ opens = 0 /\ reads = 0 /\ fetch = [f \in Fetches |-> Idle]
  BY DEF Init, CacheInit
<1>2. ListInv
  <2>1. <<>> \in Seq(Entry) /\ Bytes(<<>>) = 0 /\ Len(<<>>) = 0
    BY BytesOfFew
  <2>2. Distinct(<<>>)
    BY <2>1 DEF Distinct
  <2>3. 0 <= CacheMax
    BY CacheAssumption DEF CacheAssumption
  <2> HIDE DEF Entry
  <2> QED
    BY <1>1, <2>1, <2>2, <2>3 DEF ListInv
<1>3. DiskInv
  BY <1>1 DEF DiskInv
<1>4. TableInv
  <2>1. Idle \in FetchType
    BY IdleIsWorking DEF Working
  <2> QED
    BY <1>1, <2>1, IdleIsWorking, StreamAssumption DEF StreamAssumption, TableInv
<1>5. Accounted
  BY <1>1 DEF Accounted
<1> QED
  BY <1>2, <1>3, <1>4, <1>5 DEF CacheInv

LEMMA CacheCloseKeeps ==
    ASSUME CacheInv, CloseCache
    PROVE  CacheInv'
<1>1. UNCHANGED <<opens, reads, fetch>>
  BY DEF CloseCache
<1>2. TableInv'
  BY <1>1 DEF CacheInv, TableInv
<1>3. CASE ClearCache
  <2>1. lru' = <<>> /\ size' = 0 /\ closed' = "cleared" /\ disk' = disk
    BY <1>3 DEF ClearCache
  <2>2. ListInv'
    <3>1. <<>> \in Seq(Entry) /\ Bytes(<<>>) = 0 /\ Len(<<>>) = 0
      BY BytesOfFew
    <3>2. Distinct(<<>>)
      BY <3>1 DEF Distinct
    <3>3. 0 <= CacheMax
      BY CacheAssumption DEF CacheAssumption
    <3> HIDE DEF Entry
    <3> QED
      BY <2>1, <3>1, <3>2, <3>3 DEF ListInv
  <2>3. DiskInv' /\ Accounted'
    BY <2>1 DEF CacheInv, DiskInv, Accounted
  <2> QED
    BY <1>2, <2>2, <2>3 DEF CacheInv
<1>4. CASE RemoveDir
  <2>1. UNCHANGED <<lru, size>> /\ closed' = "removed" /\ disk' = [n \in Names |-> NoBlock]
    BY <1>4 DEF RemoveDir
  <2>2. ListInv' /\ DiskInv' /\ Accounted'
    BY <2>1 DEF CacheInv, ListInv, DiskInv, Accounted
  <2> QED
    BY <1>2, <2>2 DEF CacheInv
<1> QED
  BY <1>3, <1>4 DEF CloseCache

\* Steps that settle a table of fetches in which each holds what it held.
LEMMA SettledKeeps ==
    ASSUME NEW fs, NEW win, NEW wt, CacheInv, fetch' = Settled(fs, win, wt),
           UNCHANGED cacheVars, opens' \in 0..MaxOpens, reads' \in 0..MaxReads,
           \A f \in Fetches : Working(fs[f]),
           \A f \in Fetches, n \in Names : Holds(fetch[f], f, n) => Holds(fs[f], f, n)
    PROVE  CacheInv'
<1>1. /\ fetch' \in [Fetches -> FetchType]
      /\ \A f \in Fetches : Working(fetch'[f])
      /\ \A f \in Fetches, n \in Names : Holds(fs[f], f, n) => Holds(fetch'[f], f, n)
  BY SettledHolds
<1>2. TableInv'
  BY <1>1 DEF TableInv
<1>3. \A f \in Fetches, n \in Names : Owes(f, n)' <=> Holds(fetch'[f], f, n)
  BY DEF Owes, Holds, FileOf
<1> QED
  BY <1>1, <1>2, <1>3, OwesIsHolds, CacheUntouched

LEMMA CacheCloseReaderKeeps ==
    ASSUME CacheInv, CloseReader
    PROVE  CacheInv'
<1> DEFINE fs == [f \in Fetches |->
                    IF fetch[f].pc \in Running /\ fetch[f].gen = opens
                    THEN [fetch[f] EXCEPT !.cancelled = TRUE]
                    ELSE fetch[f]]
<1>1. /\ opens \in 0..MaxOpens /\ reads \in 0..MaxReads
      /\ \A f \in Fetches : Working(fetch[f])
  BY DEF CacheInv, TableInv
<1>2. fetch' = Settled(fs, window', wait) /\ UNCHANGED <<cacheVars, opens, reads>>
  BY DEF CloseReader
<1>3. \A f \in Fetches : fs[f] = fetch[f] \/ fs[f] = [fetch[f] EXCEPT !.cancelled = TRUE]
  OBVIOUS
<1> HIDE DEF fs
<1>4. \A f \in Fetches : Working(fs[f])
  BY <1>1, <1>3, CancelledHolds
<1>5. \A f \in Fetches, n \in Names : Holds(fetch[f], f, n) => Holds(fs[f], f, n)
  <2> TAKE f \in Fetches, n \in Names
  <2>1. Holds(fetch[f], f, n) => Holds([fetch[f] EXCEPT !.cancelled = TRUE], f, n)
    BY <1>1, CancelledHolds
  <2> QED
    BY <1>3, <2>1
<1> QED
  BY <1>1, <1>2, <1>4, <1>5, SettledKeeps

LEMMA CacheReadKeeps ==
    ASSUME IInv, CacheInv, NEW c \in Callers,
           Return(c) \/ \E i \in Blocks, n \in Windows : Demand(c, i, n)
    PROVE  CacheInv'
<1>1. /\ opens \in 0..MaxOpens /\ reads \in 0..MaxReads
      /\ \A f \in Fetches : Working(fetch[f])
  BY DEF CacheInv, TableInv
<1>3. CASE Return(c)
  <2>1. fetch' = Settled(fetch, window, wait') /\ UNCHANGED <<cacheVars, opens, reads>>
    BY <1>3 DEF Return
  <2> QED
    BY <1>1, <2>1, SettledKeeps
<1>4. ASSUME NEW i \in Blocks, NEW n \in Windows, Demand(c, i, n)
      PROVE  CacheInv'
  <2> DEFINE inside == {j \in Blocks : i <= j /\ j < i + n}
             start == {j \in inside : window[j] = 0}
             fs == [f \in Fetches |->
                      IF f[1] \in start /\ window'[f[1]] = f[2]
                      THEN Fetched(reader)
                      ELSE IF f \in Abandoned(Blocks \ inside)
                      THEN [fetch[f] EXCEPT !.cancelled = TRUE]
                      ELSE fetch[f]]
  <2>1. /\ fetch' = Settled(fs, window', wait')
        /\ UNCHANGED <<cacheVars, opens>> /\ reads' = reads + 1 /\ reads < MaxReads
        /\ reader # 0
        /\ \A j \in start : Free(j) # {}
        /\ window' = [j \in Blocks |->
                        IF j \notin inside THEN 0
                        ELSE IF j \in start THEN Spare(j) ELSE window[j]]
    BY <1>4 DEF Demand
  <2>2. ASSUME NEW f \in Fetches, f[1] \in start, window'[f[1]] = f[2]
        PROVE  fetch[f].pc = "idle"
    <3>1. f = <<f[1], f[2]>> /\ f[1] \in Blocks
      BY DEF Fetches
    <3>2. f[2] = Spare(f[1])
      BY <2>1, <2>2, <3>1
    <3>3. Spare(f[1]) \in Free(f[1])
      BY <2>1, <2>2 DEF Spare
    <3> QED
      BY <3>1, <3>2, <3>3 DEF Free
  <2>3. Working(Fetched(reader))
    <3>1. reader \in Versions \cup {0}
      BY DEF IInv, Sources
    <3>2. <<>> \in Seq(Names) /\ "get" \in Running
      BY DEF Running, InFlight
    <3> HIDE DEF Names, Running
    <3>3. Fetched(reader) \in FetchType
      BY <1>1, <3>1, <3>2 DEF Fetched, FetchType, NoBlock
    <3> QED
      BY <3>3 DEF Working, Fetched
  <2>4. \A f \in Fetches :
          \/ fs[f] = fetch[f] \/ fs[f] = [fetch[f] EXCEPT !.cancelled = TRUE]
          \/ (fs[f] = Fetched(reader) /\ fetch[f].pc = "idle")
    BY <2>2
  <2> HIDE DEF fs, start, inside
  <2>5. \A f \in Fetches : Working(fs[f])
    BY <1>1, <2>3, <2>4, CancelledHolds
  <2>6. \A f \in Fetches, m \in Names : Holds(fetch[f], f, m) => Holds(fs[f], f, m)
    <3> TAKE f \in Fetches, m \in Names
    <3>1. Holds(fetch[f], f, m) => Holds([fetch[f] EXCEPT !.cancelled = TRUE], f, m)
      BY <1>1, CancelledHolds
    <3>2. fetch[f].pc = "idle" => ~Holds(fetch[f], f, m)
      BY <1>1, FreeHands
    <3> QED
      BY <2>4, <3>1, <3>2
  <2>7. opens' \in 0..MaxOpens /\ reads' \in 0..MaxReads
    BY <1>1, <2>1, StreamAssumption DEF StreamAssumption
  <2> QED
    BY <2>1, <2>5, <2>6, <2>7, SettledKeeps
<1> QED
  BY <1>3, <1>4

LEMMA CacheInvariance == IInv /\ CacheInv /\ [Next]_vars => CacheInv'
<1> SUFFICES ASSUME IInv, CacheInv, [Next]_vars PROVE CacheInv'
  OBVIOUS
<1>1. CASE Replace \/ Publish \/ Withdraw \/ OpenReader \/ UNCHANGED vars
  <2>1. UNCHANGED cacheVars /\ UNCHANGED <<fetch, reads>> /\ opens' \in 0..MaxOpens
    <3>1. opens \in 0..MaxOpens
      BY DEF CacheInv, TableInv
    <3> QED
      BY <1>1, <3>1, StreamAssumption
      DEF StreamAssumption, Replace, Publish, Withdraw, OpenReader, vars, cacheVars
  <2>2. TableInv'
    BY <2>1 DEF CacheInv, TableInv
  <2> QED
    BY <2>1, <2>2, SameFetches, CacheUntouched
<1>2. CASE CloseReader
  BY <1>2, CacheCloseReaderKeeps
<1>3. CASE CloseCache
  BY <1>3, CacheCloseKeeps
<1>4. ASSUME NEW c \in Callers, Return(c) \/ \E i \in Blocks, n \in Windows : Demand(c, i, n)
      PROVE  CacheInv'
  BY <1>4, CacheReadKeeps
<1>5. ASSUME NEW f \in Fetches, FetchStep(f) PROVE CacheInv'
  BY <1>5, CacheFetchStepKeeps
<1> QED
  BY <1>1, <1>2, <1>3, <1>4, <1>5 DEF Next

LEMMA OneEntryAName ==
    ASSUME ListInv
    PROVE  Cardinality(Recorded) = Len(lru)
<1> DEFINE N == Len(lru)
           F == [k \in 1..N |-> lru[k].name]
<1>1. N \in Nat /\ Recorded = NamesIn(lru) /\ Distinct(lru)
  BY RecordedAre, ListIs DEF ListInv
<1>2. IsFiniteSet(1..N) /\ Cardinality(1..N) = N
  <2> HIDE DEF N
  <2> QED
    BY <1>1, FS_Interval
<1>3. F \in Bijection(1..N, Recorded)
  BY <1>1 DEF Bijection, Injection, Surjection, IsInjective, NamesIn, Distinct
<1>4. ExistsBijection(1..N, Recorded)
  BY <1>3 DEF ExistsBijection
<1> QED
  BY <1>2, <1>4, FS_Bijection

LEMMA BothInvariants == Spec => [](IInv /\ CacheInv)
<1>1. Init => IInv /\ CacheInv
  BY StreamInit, StreamCacheInit
<1>2. IInv /\ CacheInv /\ [Next]_vars => IInv' /\ CacheInv'
  BY Invariance, CacheInvariance
<1> QED
  BY <1>1, <1>2, PTL DEF Spec

\* For every cache and every cap: the entries weigh what the cache counts and no
\* more than the cap, and a file without an entry has a goroutine that is about
\* to record it or to remove it (cache.go, Put, drop).
THEOREM CapIsKept == Spec => []CapHolds
<1>1. CacheInv => CapHolds
  BY DEF CacheInv, ListInv, Accounted, Owes, CapHolds
<1> QED
  BY BothInvariants, <1>1, PTL

\* For every file, window and cache: the shape of the state, with one entry a
\* name in the cache's list and a size that never goes below zero.
THEOREM StreamTypeCorrect == Spec => []TypeOK
<1>1. IInv /\ CacheInv => TypeOK
  <2> SUFFICES ASSUME IInv, CacheInv PROVE TypeOK
    OBVIOUS
  <2>1. Cardinality(Recorded) = Len(lru)
    BY OneEntryAName DEF CacheInv
  <2>2. size \in Nat
    BY UpToIs DEF CacheInv, ListInv
  <2>3. CacheTypeOK
    BY <2>1, <2>2 DEF CacheInv, ListInv, DiskInv, CacheTypeOK, Entry
  <2>4. fetch \in [Fetches -> FetchType] /\ opens \in 0..MaxOpens /\ reads \in 0..MaxReads
    BY DEF CacheInv, TableInv
  <2> QED
    BY <2>3, <2>4 DEF TypeOK, FetchType, IInv, Sources, Shapes
<1> QED
  BY BothInvariants, <1>1, PTL

----------------------------------------------------------------------------
(* Mirror, for any number of requests and sessions.                         *)

ViewRequest == [kind : Kinds,
                pc : {"new", "announcing", "watching", "stopping", "ending", "done"},
                s : Sessions]
Sharing == [pc : {"idle", "admitted", "alone", "started"},
            id : Requests \cup {None}]
ScreenControls == {"announce", "end"} \X Requests
Pictures == {"start", "stop"} \X Requests

\* What a capture that no stop raced and no other replaced goes through: while it is
\* being started, and while it is shared, an announcement stands or is being ended,
\* and what runs is about to be shared or is.
SharesAccounted ==
    \A r \in Requests \ (raced \cup lost) :
        /\ capture[r] = "running" =>
              \/ sending = r
              \/ \E s \in Sessions : handler[s].pc = "started" /\ handler[s].id = r
        /\ r \in Starting \/ sending = r => ann # {} \/ ending # {}

----------------------------------------------------------------------------
(* Mirror: types.                                                           *)

\* The types of one side at a time.
SinkTyped ==
    /\ req \in [Requests -> ViewRequest] /\ view \in Requests \cup {None}
    /\ kept \in Requests \cup {None} /\ watching \in BOOLEAN

WireTyped ==
    /\ session \in Sessions /\ up \in BOOLEAN /\ acked \subseteq Requests
    /\ ctl \in [Sessions -> Seq(ScreenControls)]
    /\ mir \in [Sessions -> Seq(Pictures)]

SourceTyped ==
    /\ handler \in [Sessions -> Sharing]
    /\ \A s \in Sessions : handler[s].pc = "idle" <=> handler[s].id = None
    /\ ann \subseteq Requests
    /\ raced \subseteq Requests /\ lost \subseteq Requests
    /\ ending \subseteq (Sessions \cup {Timer}) \X Requests
    /\ sending \in Requests \cup {None}
    /\ capture \in [Requests -> {"none", "running", "over"}]
    /\ from \in [Requests -> Sessions] /\ pump \in [Requests -> BOOLEAN]
    /\ sending # None => pump[sending]

LEMMA SidesTyped == MirrorTypeOK <=> SinkTyped /\ WireTyped /\ SourceTyped
BY DEF MirrorTypeOK, SinkTyped, WireTyped, SourceTyped, ViewRequest, Sharing, ScreenControls,
   Pictures

LEMMA Numbers ==
    /\ 1 \in Sessions /\ None = 0
    /\ None \notin Requests /\ Requests \subseteq Nat
    /\ \A s \in Sessions : s < MaxSessions => s + 1 \in Sessions
<1>1. MaxRequests \in Nat /\ MaxSessions \in Nat /\ MaxSessions # 0
  BY MirrorAssumption
<1> QED
  BY <1>1 DEF Sessions, Requests, None

LEMMA ScreenInitType ==
    MirrorInit => MirrorTypeOK
<1> SUFFICES ASSUME MirrorInit PROVE SinkTyped /\ WireTyped /\ SourceTyped
  BY SidesTyped
<1>1. \A S : <<>> \in Seq(S)
  OBVIOUS
<1>2. SinkTyped
  BY Numbers DEF MirrorInit, SinkTyped, ViewRequest, Kinds
<1>3. WireTyped
  BY <1>1, Numbers DEF MirrorInit, WireTyped
<1>4. SourceTyped
  BY Numbers DEF MirrorInit, SourceTyped, Sharing, Rests
<1> QED
  BY <1>2, <1>3, <1>4

\* A message more in a queue, and one less.
LEMMA Queued ==
    ASSUME NEW S, NEW f \in [Sessions -> Seq(S)], NEW s \in Sessions, NEW m \in S
    PROVE  [f EXCEPT ![s] = Append(@, m)] \in [Sessions -> Seq(S)]
<1>1. f[s] \in Seq(S)
  OBVIOUS
<1>2. Append(f[s], m) \in Seq(S)
  BY <1>1, AppendProperties
<1> QED
  BY <1>2

LEMMA Unqueued ==
    ASSUME NEW S, NEW f \in [Sessions -> Seq(S)], NEW s \in Sessions, f[s] # <<>>
    PROVE  Head(f[s]) \in S /\ [f EXCEPT ![s] = Tail(@)] \in [Sessions -> Seq(S)]
<1>1. f[s] \in Seq(S)
  OBVIOUS
<1>2. Head(f[s]) \in S /\ Tail(f[s]) \in Seq(S)
  BY <1>1, HeadTailProperties
<1> QED
  BY <1>2

LEMMA GotoType ==
    ASSUME req \in [Requests -> ViewRequest], NEW r \in Requests,
           NEW pc \in {"new", "announcing", "watching", "stopping", "ending", "done"},
           Goto(r, pc)
    PROVE  req' \in [Requests -> ViewRequest]
<1>1. [req[r] EXCEPT !.pc = pc] \in ViewRequest
  BY DEF ViewRequest
<1>2. req' = [req EXCEPT ![r] = [req[r] EXCEPT !.pc = pc]]
  BY DEF Goto
<1> QED
  BY <1>1, <1>2

LEMMA StartingType ==
    ASSUME SourceTyped
    PROVE  Starting \subseteq Requests
BY DEF SourceTyped, Starting, Sharing

LEMMA StopSharingType ==
    ASSUME SourceTyped, StopSharing
    PROVE  /\ sending' = None /\ raced' \subseteq Requests
           /\ capture' \in [Requests -> {"none", "running", "over"}]
BY StartingType DEF StopSharing, SourceTyped

LEMMA EndAnnouncementType ==
    ASSUME SourceTyped, NEW who \in Sessions \cup {Timer},
           NEW id \in Requests, EndAnnouncement(who, id)
    PROVE  /\ ann' \subseteq Requests
           /\ ending' \subseteq (Sessions \cup {Timer}) \X Requests
           /\ sending' \in {sending, None} /\ raced' \subseteq Requests
           /\ capture' \in [Requests -> {"none", "running", "over"}]
<1>1. CASE StopSharing
  BY <1>1, StopSharingType DEF EndAnnouncement, SourceTyped
<1>2. CASE UNCHANGED <<sending, capture, raced>>
  BY <1>2 DEF EndAnnouncement, SourceTyped
<1> QED
  BY <1>1, <1>2 DEF EndAnnouncement

LEMMA SharerType ==
    ASSUME SourceTyped, NEW s \in Sessions,
           NEW pc \in {"idle", "admitted", "alone", "started"},
           NEW id \in Requests \cup {None},
           pc = "idle" <=> id = None,
           handler' = [handler EXCEPT ![s] = [pc |-> pc, id |-> id]]
    PROVE  /\ handler' \in [Sessions -> Sharing]
           /\ \A t \in Sessions : handler'[t].pc = "idle" <=> handler'[t].id = None
<1>1. [pc |-> pc, id |-> id] \in Sharing
  BY DEF Sharing
<1> QED
  BY <1>1 DEF SourceTyped

LEMMA ScreenNextType ==
    MirrorTypeOK /\ [MirrorNext]_mirrorVars => MirrorTypeOK'
<1> SUFFICES ASSUME MirrorTypeOK, [MirrorNext]_mirrorVars PROVE MirrorTypeOK'
  OBVIOUS
<1>0. SinkTyped /\ WireTyped /\ SourceTyped
  BY SidesTyped
<1>q. (SinkTyped /\ WireTyped /\ SourceTyped)' => MirrorTypeOK'
  <2> SUFFICES ASSUME SinkTyped', WireTyped', SourceTyped' PROVE MirrorTypeOK'
    OBVIOUS
  <2>1. /\ req' \in [Requests -> ViewRequest] /\ view' \in Requests \cup {None}
        /\ kept' \in Requests \cup {None} /\ watching' \in BOOLEAN
    BY DEF SinkTyped
  <2>2. /\ session' \in Sessions /\ up' \in BOOLEAN /\ acked' \subseteq Requests
        /\ ctl' \in [Sessions -> Seq(ScreenControls)] /\ mir' \in [Sessions -> Seq(Pictures)]
    BY DEF WireTyped
  <2>3. SourceTyped'
    OBVIOUS
  <2>4. /\ {view, kept, sending}' \subseteq Requests \cup {None}
        /\ (ann \cup acked \cup raced \cup lost)' \subseteq Requests
    BY <2>1, <2>2, <2>3 DEF SourceTyped
  <2> QED
    BY <2>1, <2>2, <2>3, <2>4 DEF MirrorTypeOK, SourceTyped, ViewRequest, Sharing, ScreenControls, Pictures
<1>k. UNCHANGED sink => SinkTyped'
  BY <1>0 DEF sink, SinkTyped
<1>w. UNCHANGED wire => WireTyped'
  BY <1>0 DEF wire, WireTyped
<1>s. UNCHANGED shares => SourceTyped'
  BY <1>0 DEF shares, SourceTyped
<1>1. CASE Lose
  <2>1. <<>> \in Seq(ScreenControls) /\ <<>> \in Seq(Pictures)
    OBVIOUS
  <2>2. WireTyped'
    BY <1>0, <1>1, <2>1 DEF Lose, WireTyped
  <2> QED
    BY <1>1, <1>k, <1>s, <1>q, <2>2 DEF Lose
<1>2. CASE Dial
  <2>1. WireTyped'
    BY <1>0, <1>2, Numbers DEF Dial, WireTyped
  <2> QED
    BY <1>2, <1>k, <1>s, <1>q, <2>1 DEF Dial
<1>3. CASE StopOther
  <2>1. SourceTyped'
    BY <1>0, <1>3, StopSharingType DEF StopOther, SourceTyped
  <2> QED
    BY <1>3, <1>k, <1>w, <1>q, <2>1 DEF StopOther
<1>4. ASSUME NEW r \in Requests, AskToWatch(r) PROVE MirrorTypeOK'
  <2>1. <<"announce", r>> \in ScreenControls
    BY DEF ScreenControls
  <2>0. [ctl EXCEPT ![session] = Append(@, <<"announce", r>>)]
           \in [Sessions -> Seq(ScreenControls)]
    BY <1>0, <2>1, Queued DEF WireTyped
  <2>2. WireTyped'
    BY <1>0, <1>4, <2>0 DEF AskToWatch, WireTyped
  <2>3. [kind |-> "watch", pc |-> "announcing", s |-> session] \in ViewRequest
    BY <1>0 DEF ViewRequest, Kinds, WireTyped
  <2>4. req' \in [Requests -> ViewRequest]
    BY <1>0, <1>4, <2>3, GotoType DEF AskToWatch, SinkTyped
  <2>5. SinkTyped'
    BY <1>0, <1>4, <2>4 DEF AskToWatch, SinkTyped
  <2> QED
    BY <1>4, <1>s, <1>q, <2>2, <2>5 DEF AskToWatch
<1>5. ASSUME NEW r \in Requests, NotAcknowledged(r) PROVE MirrorTypeOK'
  <2>1. SinkTyped'
    BY <1>0, <1>5, GotoType DEF NotAcknowledged, SinkTyped
  <2> QED
    BY <1>5, <1>w, <1>s, <1>q, <2>1 DEF NotAcknowledged
<1>6. ASSUME NEW r \in Requests, PublishView(r) PROVE MirrorTypeOK'
  <2>1. SinkTyped'
    BY <1>0, <1>6, GotoType DEF PublishView, SinkTyped
  <2> QED
    BY <1>6, <1>w, <1>s, <1>q, <2>1 DEF PublishView
<1>7. ASSUME NEW r \in Requests, Watch(r) PROVE MirrorTypeOK'
  <2>1. <<"start", r>> \in Pictures
    BY DEF Pictures
  <2>2. [mir EXCEPT ![session] = Append(@, <<"start", r>>)] \in [Sessions -> Seq(Pictures)]
    BY <1>0, <2>1, Queued DEF WireTyped
  <2>3. WireTyped'
    BY <1>0, <1>7, <2>2 DEF Watch, WireTyped
  <2>4. req' \in [Requests -> ViewRequest]
    BY <1>0, <1>7, GotoType DEF Watch, SinkTyped
  <2>5. SinkTyped'
    BY <1>0, <1>7, <2>4 DEF Watch, SinkTyped
  <2> QED
    BY <1>7, <1>s, <1>q, <2>3, <2>5 DEF Watch
<1>8. ASSUME NEW r \in Requests, AskToStop(r) PROVE MirrorTypeOK'
  <2>1. [kind |-> "stop", pc |-> "stopping", s |-> session] \in ViewRequest
    BY <1>0 DEF ViewRequest, Kinds, WireTyped
  <2>2. req' \in [Requests -> ViewRequest]
    BY <1>0, <1>8, <2>1, GotoType DEF AskToStop, SinkTyped
  <2>3. SinkTyped'
    BY <1>0, <1>8, <2>2 DEF AskToStop, SinkTyped
  <2> QED
    BY <1>8, <1>w, <1>s, <1>q, <2>3 DEF AskToStop
<1>9. ASSUME NEW r \in Requests, Unwatch(r) PROVE MirrorTypeOK'
  <2>1. <<"stop", r>> \in Pictures
    BY DEF Pictures
  <2>2. [mir EXCEPT ![session] = Append(@, <<"stop", r>>)] \in [Sessions -> Seq(Pictures)]
    BY <1>0, <2>1, Queued DEF WireTyped
  <2>3. WireTyped'
    BY <1>0, <1>9, <2>2 DEF Unwatch, WireTyped
  <2>4. req' \in [Requests -> ViewRequest]
    BY <1>0, <1>9, GotoType DEF Unwatch, SinkTyped
  <2>5. SinkTyped'
    BY <1>0, <1>9, <2>4 DEF Unwatch, SinkTyped
  <2> QED
    BY <1>9, <1>s, <1>q, <2>3, <2>5 DEF Unwatch
<1>10. ASSUME NEW r \in Requests, EndMirrorAnnouncement(r) PROVE MirrorTypeOK'
  <2>1. kept # None => <<"end", kept>> \in ScreenControls
    BY <1>0 DEF ScreenControls, SinkTyped
  <2>2. kept # None =>
           [ctl EXCEPT ![session] = Append(@, <<"end", kept>>)]
              \in [Sessions -> Seq(ScreenControls)]
    BY <1>0, <2>1, Queued DEF WireTyped
  <2>3. WireTyped'
    BY <1>0, <1>10, <2>2 DEF EndMirrorAnnouncement, WireTyped
  <2>4. req' \in [Requests -> ViewRequest]
    BY <1>0, <1>10, GotoType DEF EndMirrorAnnouncement, SinkTyped
  <2>5. SinkTyped'
    BY <1>0, <1>10, <2>4 DEF EndMirrorAnnouncement, SinkTyped
  <2> QED
    BY <1>10, <1>s, <1>q, <2>3, <2>5 DEF EndMirrorAnnouncement
<1>11. ASSUME NEW r \in Requests, WentQuiet(r) PROVE MirrorTypeOK'
  <2>1. Timer \in Sessions \cup {Timer} /\ EndAnnouncement(Timer, r)
    BY <1>11 DEF WentQuiet
  <2>2. SourceTyped'
    BY <1>0, <1>11, <2>1, EndAnnouncementType DEF WentQuiet, SourceTyped
  <2> QED
    BY <1>11, <1>k, <1>w, <1>q, <2>2 DEF WentQuiet
<1>12. ASSUME NEW r \in Requests, PumpReturns(r) PROVE MirrorTypeOK'
  <2>1. SourceTyped'
    BY <1>0, <1>12, StopSharingType DEF PumpReturns, SourceTyped
  <2> QED
    BY <1>12, <1>k, <1>w, <1>q, <2>1 DEF PumpReturns
<1>13. ASSUME NEW r \in Requests, EncoderEnds(r) PROVE MirrorTypeOK'
  <2>1. SourceTyped'
    BY <1>0, <1>13, StartingType DEF EncoderEnds, SourceTyped
  <2> QED
    BY <1>13, <1>k, <1>w, <1>q, <2>1 DEF EncoderEnds
<1>14. ASSUME NEW s \in Sessions, HearAnnounce(s) PROVE MirrorTypeOK'
  <2>1. /\ Head(ctl[s]) \in ScreenControls
        /\ [ctl EXCEPT ![s] = Tail(@)] \in [Sessions -> Seq(ScreenControls)]
    BY <1>0, <1>14, Unqueued DEF HearAnnounce, WireTyped
  <2>2. Head(ctl[s])[2] \in Requests
    BY <2>1 DEF ScreenControls
  <2>3. WireTyped' /\ SourceTyped'
    BY <1>0, <1>14, <2>1, <2>2 DEF HearAnnounce, WireTyped, SourceTyped
  <2> QED
    BY <1>14, <1>k, <1>q, <2>3 DEF HearAnnounce
<1>15. ASSUME NEW s \in Sessions, HearEnd(s) PROVE MirrorTypeOK'
  <2>1. /\ Head(ctl[s]) \in ScreenControls
        /\ [ctl EXCEPT ![s] = Tail(@)] \in [Sessions -> Seq(ScreenControls)]
    BY <1>0, <1>15, Unqueued DEF HearEnd, WireTyped
  <2>2. Head(ctl[s])[2] \in Requests
    BY <2>1 DEF ScreenControls
  <2>3. WireTyped'
    BY <1>0, <1>15, <2>1 DEF HearEnd, WireTyped
  <2>4. CASE EndAnnouncement(s, Head(ctl[s])[2])
    <3>1. SourceTyped'
      BY <1>0, <1>15, <2>2, <2>4, EndAnnouncementType DEF HearEnd, SourceTyped
    <3> QED
      BY <1>15, <1>k, <1>q, <2>3, <3>1 DEF HearEnd
  <2>5. CASE UNCHANGED <<ann, ending, sending, capture, raced>>
    <3>1. SourceTyped'
      BY <1>0, <1>15, <2>5 DEF HearEnd, SourceTyped
    <3> QED
      BY <1>15, <1>k, <1>q, <2>3, <3>1 DEF HearEnd
  <2> QED
    BY <1>15, <2>4, <2>5 DEF HearEnd
<1>16. ASSUME NEW s \in Sessions, FinishEnd(s) PROVE MirrorTypeOK'
  <2>1. PICK id \in Requests : EndAnnouncement(s, id)
    BY <1>16 DEF FinishEnd
  <2>2. SourceTyped'
    BY <1>0, <1>16, <2>1, EndAnnouncementType DEF FinishEnd, SourceTyped
  <2> QED
    BY <1>16, <1>k, <1>w, <1>q, <2>2 DEF FinishEnd
<1>17. ASSUME NEW s \in Sessions, Admit(s) PROVE MirrorTypeOK'
  <2>1. mir[s] # <<>> /\ mir' = [mir EXCEPT ![s] = Tail(@)]
    BY <1>17 DEF Admit, Hears
  <2>2. /\ Head(mir[s]) \in Pictures
        /\ [mir EXCEPT ![s] = Tail(@)] \in [Sessions -> Seq(Pictures)]
    BY <1>0, <2>1, Unqueued DEF WireTyped
  <2>3. Head(mir[s])[2] \in Requests
    BY <2>2 DEF Pictures
  <2>4. WireTyped'
    BY <1>0, <1>17, <2>1, <2>2 DEF Admit, WireTyped
  <2>5. \/ handler' = handler
        \/ handler' = [handler EXCEPT ![s] = [pc |-> "admitted", id |-> Head(mir[s])[2]]]
    BY <1>17 DEF Admit, Handles
  <2>6. /\ handler' \in [Sessions -> Sharing]
        /\ \A t \in Sessions : handler'[t].pc = "idle" <=> handler'[t].id = None
    <3>1. CASE handler' = handler
      BY <1>0, <3>1 DEF SourceTyped
    <3>2. CASE handler' = [handler EXCEPT ![s] = [pc |-> "admitted", id |-> Head(mir[s])[2]]]
      <4>1. Head(mir[s])[2] # None
        BY <2>3, Numbers
      <4> QED
        BY <1>0, <2>3, <3>2, <4>1, SharerType
    <3> QED
      BY <2>5, <3>1, <3>2
  <2>7. SourceTyped'
    BY <1>0, <1>17, <2>6 DEF Admit, SourceTyped
  <2> QED
    BY <1>17, <1>k, <1>q, <2>4, <2>7 DEF Admit
<1>18. ASSUME NEW s \in Sessions, LookForOne(s) PROVE MirrorTypeOK'
  <2>1. handler[s].id \in Requests \cup {None} /\ handler[s].id # None
    BY <1>0, <1>18 DEF LookForOne, SourceTyped, Sharing
  <2>2. \/ handler' = [handler EXCEPT ![s] = [pc |-> "idle", id |-> None]]
        \/ handler' = [handler EXCEPT ![s] = [pc |-> "alone", id |-> handler[s].id]]
    BY <1>18 DEF LookForOne, Handles, Rests
  <2>3. /\ handler' \in [Sessions -> Sharing]
        /\ \A t \in Sessions : handler'[t].pc = "idle" <=> handler'[t].id = None
    BY <1>0, <2>1, <2>2, SharerType
  <2>4. SourceTyped'
    BY <1>0, <1>18, <2>3 DEF LookForOne, SourceTyped
  <2> QED
    BY <1>18, <1>k, <1>w, <1>q, <2>4 DEF LookForOne
<1>19. ASSUME NEW s \in Sessions, StartCapture(s) PROVE MirrorTypeOK'
  <2>1. handler[s].id \in Requests \cup {None} /\ handler[s].id # None
    BY <1>0, <1>19 DEF StartCapture, SourceTyped, Sharing
  <2>2. \/ handler' = [handler EXCEPT ![s] = [pc |-> "idle", id |-> None]]
        \/ handler' = [handler EXCEPT ![s] = [pc |-> "started", id |-> handler[s].id]]
    BY <1>19 DEF StartCapture, Handles, Rests
  <2>3. /\ handler' \in [Sessions -> Sharing]
        /\ \A t \in Sessions : handler'[t].pc = "idle" <=> handler'[t].id = None
    BY <1>0, <2>1, <2>2, SharerType
  <2>4. SourceTyped'
    BY <1>0, <1>19, <2>3 DEF StartCapture, SourceTyped
  <2> QED
    BY <1>19, <1>k, <1>w, <1>q, <2>4 DEF StartCapture
<1>20. ASSUME NEW s \in Sessions, Share(s) PROVE MirrorTypeOK'
  <2>1. handler[s].id \in Requests
    BY <1>0, <1>20 DEF Share, SourceTyped, Sharing
  <2>2. handler' = [handler EXCEPT ![s] = [pc |-> "idle", id |-> None]]
    BY <1>20 DEF Share, Rests
  <2>3. /\ handler' \in [Sessions -> Sharing]
        /\ \A t \in Sessions : handler'[t].pc = "idle" <=> handler'[t].id = None
    BY <1>0, <2>2, SharerType
  <2>4. SourceTyped'
    BY <1>0, <1>20, <2>1, <2>3 DEF Share, SourceTyped
  <2> QED
    BY <1>20, <1>k, <1>w, <1>q, <2>4 DEF Share
<1>21. ASSUME NEW s \in Sessions, HearStop(s) PROVE MirrorTypeOK'
  <2>1. mir[s] # <<>> /\ mir' = [mir EXCEPT ![s] = Tail(@)]
    BY <1>21 DEF HearStop, Hears
  <2>2. [mir EXCEPT ![s] = Tail(@)] \in [Sessions -> Seq(Pictures)]
    BY <1>0, <2>1, Unqueued DEF WireTyped
  <2>3. WireTyped'
    BY <1>0, <1>21, <2>1, <2>2 DEF HearStop, WireTyped
  <2>4. SourceTyped'
    BY <1>0, <1>21, StopSharingType DEF HearStop, SourceTyped
  <2> QED
    BY <1>21, <1>k, <1>q, <2>3, <2>4 DEF HearStop
<1>22. CASE UNCHANGED mirrorVars
  BY <1>22, <1>k, <1>w, <1>s, <1>q DEF mirrorVars
<1> QED
  BY <1>1, <1>2, <1>3, <1>4, <1>5, <1>6, <1>7, <1>8, <1>9, <1>10, <1>11, <1>12, <1>13,
     <1>14, <1>15, <1>16, <1>17, <1>18, <1>19, <1>20, <1>21, <1>22 DEF MirrorNext

\* The requests of the watching device and the announcements, handlers and captures
\* of the shared one have their types, whichever sessions are lost.
THEOREM MirrorTypeCorrect == MirrorSpec => []MirrorTypeOK
<1>1. MirrorInit => MirrorTypeOK
  BY ScreenInitType
<1>2. MirrorTypeOK /\ [MirrorNext]_mirrorVars => MirrorTypeOK'
  BY ScreenNextType
<1> QED
  BY <1>1, <1>2, PTL DEF MirrorSpec

----------------------------------------------------------------------------
(* Mirror: captures.                                                        *)

\* A capture that a stop has left running had not been in sending.
LEMMA Stopped ==
    ASSUME SharesAccounted, SourceTyped, handler' = handler,
           sending' = None,
           raced' = raced \cup Starting, lost' = lost,
           \A r \in Requests :
              capture'[r] = "running" => capture[r] = "running" /\ r # sending
    PROVE  SharesAccounted'
<1> SUFFICES ASSUME NEW r \in Requests, r \notin raced', r \notin lost'
             PROVE  capture'[r] # "running" /\ r \notin Starting' /\ sending' # r
  BY DEF SharesAccounted
<1>1. r \notin Starting /\ Starting' = Starting /\ r # None
  BY Numbers DEF Starting
<1>2. \A s \in Sessions : handler[s].id # r
  BY <1>1 DEF Starting
<1>3. capture'[r] # "running"
  BY <1>2 DEF SharesAccounted
<1> QED
  BY <1>1, <1>3

LEMMA StopAccounted ==
    ASSUME SharesAccounted, SourceTyped, StopSharing,
           handler' = handler, lost' = lost
    PROVE  SharesAccounted'
<1>1. \A r \in Requests : capture'[r] = "running" => capture[r] = "running" /\ r # sending
  BY DEF StopSharing
<1> QED
  BY <1>1, Stopped DEF StopSharing

LEMMA EndAccounted ==
    ASSUME SharesAccounted, SourceTyped,
           NEW who \in Sessions \cup {Timer}, NEW id \in Requests,
           EndAnnouncement(who, id), handler' = handler, lost' = lost
    PROVE  SharesAccounted'
<1>1. CASE StopSharing
  BY <1>1, StopAccounted
<1>2. CASE ~StopSharing
  <2>1. ending' # {} /\ UNCHANGED <<sending, capture, raced>>
    BY <1>2 DEF EndAnnouncement
  <2>2. Starting' = Starting
    BY DEF Starting
  <2> QED
    BY <2>1, <2>2 DEF SharesAccounted
<1> QED
  BY <1>1, <1>2

LEMMA InitAccounted ==
    MirrorInit => SharesAccounted
BY Numbers DEF MirrorInit, SharesAccounted, Starting, Rests

LEMMA NextAccounted ==
    MirrorTypeOK /\ SharesAccounted /\ [MirrorNext]_mirrorVars => SharesAccounted'
<1> SUFFICES ASSUME MirrorTypeOK, SharesAccounted, [MirrorNext]_mirrorVars PROVE SharesAccounted'
  OBVIOUS
<1>0. /\ SourceTyped /\ handler \in [Sessions -> Sharing]
      /\ \A s \in Sessions : handler[s].pc = "idle" <=> handler[s].id = None
      /\ capture \in [Requests -> {"none", "running", "over"}]
  BY SidesTyped DEF SourceTyped
<1>1. ASSUME UNCHANGED shares PROVE SharesAccounted'
  <2>1. Starting' = Starting
    BY <1>1 DEF shares, Starting
  <2> QED
    BY <1>1, <2>1 DEF shares, SharesAccounted
<1>2. CASE Lose \/ Dial \/ UNCHANGED mirrorVars
  BY <1>1, <1>2 DEF Lose, Dial, mirrorVars
<1>3. ASSUME NEW r \in Requests,
             \/ AskToWatch(r) \/ NotAcknowledged(r)
             \/ PublishView(r) \/ Watch(r)
             \/ AskToStop(r) \/ Unwatch(r) \/ EndMirrorAnnouncement(r)
      PROVE  SharesAccounted'
  BY <1>1, <1>3 DEF AskToWatch, NotAcknowledged, PublishView, Watch,
     AskToStop, Unwatch, EndMirrorAnnouncement
<1>4. CASE StopOther
  BY <1>0, <1>4, StopAccounted DEF StopOther
<1>5. ASSUME NEW r \in Requests, WentQuiet(r) PROVE SharesAccounted'
  BY <1>0, <1>5, EndAccounted DEF WentQuiet
<1>6. ASSUME NEW r \in Requests, PumpReturns(r) PROVE SharesAccounted'
  BY <1>0, <1>6, StopAccounted DEF PumpReturns
<1>7. ASSUME NEW r \in Requests, EncoderEnds(r) PROVE SharesAccounted'
  <2>1. \A q \in Requests : capture'[q] = "running" => capture[q] = "running" /\ q # sending
    BY <1>7 DEF EncoderEnds
  <2> QED
    BY <1>0, <1>7, <2>1, Stopped DEF EncoderEnds
<1>8. ASSUME NEW s \in Sessions, HearAnnounce(s) PROVE SharesAccounted'
  <2>1. ann' # {} /\ UNCHANGED <<handler, sending, capture, raced, lost>>
    BY <1>8 DEF HearAnnounce
  <2>2. Starting' = Starting
    BY <2>1 DEF Starting
  <2> QED
    BY <2>1, <2>2 DEF SharesAccounted
<1>9. ASSUME NEW s \in Sessions, HearEnd(s) PROVE SharesAccounted'
  <2>1. handler' = handler /\ lost' = lost
    BY <1>9 DEF HearEnd
  <2>2. CASE UNCHANGED <<ann, ending, sending, capture, raced>>
    <3>1. Starting' = Starting
      BY <2>1 DEF Starting
    <3> QED
      BY <2>1, <2>2, <3>1 DEF SharesAccounted
  <2>3. CASE Head(ctl[s])[2] \in ann /\ EndAnnouncement(s, Head(ctl[s])[2])
    <3>1. Head(ctl[s])[2] \in Requests
      BY <1>0, <2>3 DEF SourceTyped
    <3> QED
      BY <1>0, <2>1, <2>3, <3>1, EndAccounted
  <2> QED
    BY <1>9, <2>2, <2>3 DEF HearEnd
<1>10. ASSUME NEW s \in Sessions, FinishEnd(s) PROVE SharesAccounted'
  BY <1>0, <1>10, EndAccounted DEF FinishEnd
<1>11. ASSUME NEW s \in Sessions, Admit(s) PROVE SharesAccounted'
  <2>1. UNCHANGED <<ann, ending, sending, capture, raced, lost>> /\ handler[s].pc = "idle"
    BY <1>11 DEF Admit, Hears, Rests
  <2>2. CASE ann # {}
    <3>1. \A t \in Sessions : handler[t].pc = "started" => handler'[t] = handler[t]
      BY <1>0, <1>11, <2>1 DEF Admit, Handles
    <3> QED
      BY <2>1, <2>2, <3>1 DEF SharesAccounted
  <2>3. CASE ann = {}
    <3>1. handler' = handler
      BY <1>11, <2>3 DEF Admit
    <3>2. Starting' = Starting
      BY <3>1 DEF Starting
    <3> QED
      BY <2>1, <3>1, <3>2 DEF SharesAccounted
  <2> QED
    BY <2>2, <2>3
<1>12. ASSUME NEW s \in Sessions, LookForOne(s) PROVE SharesAccounted'
  <2>1. UNCHANGED <<ann, ending, sending, capture, raced, lost>> /\ handler[s].pc = "admitted"
    BY <1>12 DEF LookForOne
  <2>2. \A t \in Sessions : handler[t].pc = "started" => handler'[t] = handler[t]
    BY <1>0, <1>12, <2>1 DEF LookForOne, Handles
  <2>3. Starting' \subseteq Starting
    BY <1>0, <1>12 DEF LookForOne, Handles, Rests, Starting
  <2> QED
    BY <2>1, <2>2, <2>3 DEF SharesAccounted
<1>13. ASSUME NEW s \in Sessions, StartCapture(s) PROVE SharesAccounted'
  <2>1. UNCHANGED <<ann, ending, sending, raced, lost>> /\ handler[s].pc = "alone"
    BY <1>13 DEF StartCapture
  <2>2. \A t \in Sessions : handler[t].pc = "started" => handler'[t] = handler[t]
    BY <1>0, <1>13, <2>1 DEF StartCapture, Handles
  <2>3. Starting' \subseteq Starting
    BY <1>0, <1>13 DEF StartCapture, Handles, Rests, Starting
  <2>4. \A r \in Requests : capture'[r] = "running" =>
           \/ capture[r] = "running"
           \/ handler'[s].pc = "started" /\ handler'[s].id = r
    BY <1>0, <1>13 DEF StartCapture, Handles
  <2> QED
    BY <2>1, <2>2, <2>3, <2>4 DEF SharesAccounted
<1>14. ASSUME NEW s \in Sessions, Share(s) PROVE SharesAccounted'
  <2> DEFINE id == handler[s].id
  <2>1. /\ UNCHANGED <<ann, ending, capture, raced>> /\ handler[s].pc = "started"
        /\ sending' = id /\ lost' = lost \cup ({sending} \ {None})
    BY <1>14 DEF Share
  <2>2. \A t \in Sessions : t # s => handler'[t] = handler[t]
    BY <1>0, <1>14 DEF Share
  <2>3. Starting' \subseteq Starting
    BY <1>0, <1>14 DEF Share, Rests, Starting
  <2>4. id \in Starting
    BY <1>0, <2>1 DEF Starting
  <2> HIDE DEF id
  <2>5. ASSUME NEW r \in Requests, r \notin raced, r \notin lost'
        PROVE  /\ capture'[r] = "running" =>
                     \/ sending' = r
                     \/ \E t \in Sessions : handler'[t].pc = "started" /\ handler'[t].id = r
               /\ r \in Starting' \/ sending' = r => ann' # {} \/ ending' # {}
    <3>1. r \notin lost /\ sending # r
      BY <2>1, <2>5, Numbers
    <3>2. capture[r] = "running" =>
             \E t \in Sessions : handler[t].pc = "started" /\ handler[t].id = r
      BY <2>5, <3>1 DEF SharesAccounted
    <3>3. r \in Starting => ann # {} \/ ending # {}
      BY <2>5, <3>1 DEF SharesAccounted
    <3> QED
      BY <2>1, <2>2, <2>3, <2>4, <3>2, <3>3 DEF id
  <2> QED
    BY <2>1, <2>5 DEF SharesAccounted
<1>15. ASSUME NEW s \in Sessions, HearStop(s) PROVE SharesAccounted'
  BY <1>0, <1>15, StopAccounted DEF HearStop
<1> QED
  BY <1>2, <1>3, <1>4, <1>5, <1>6, <1>7, <1>8, <1>9, <1>10, <1>11, <1>12, <1>13, <1>14,
     <1>15 DEF MirrorNext

\* The screen is captured only for an announcement that stands or is being ended, and
\* where a stop finds the capture, but for the two races of startSharing.
THEOREM CapturesHaveAnnouncements == MirrorSpec => []CapturesAreAnnounced
<1>1. MirrorInit => MirrorTypeOK /\ SharesAccounted
  BY ScreenInitType, InitAccounted
<1>2. MirrorTypeOK /\ SharesAccounted /\ [MirrorNext]_mirrorVars => (MirrorTypeOK /\ SharesAccounted)'
  BY ScreenNextType, NextAccounted
<1>3. MirrorTypeOK /\ SharesAccounted => CapturesAreAnnounced
  <2>1. SUFFICES ASSUME MirrorTypeOK, SharesAccounted, NEW r \in Requests,
                        r \notin raced, r \notin lost,
                        capture[r] = "running"
                 PROVE  (ann # {} \/ ending # {}) /\ (sending = r \/ r \in Starting)
    BY DEF CapturesAreAnnounced
  <2>2. sending = r \/ r \in Starting
    BY <2>1, Numbers DEF SharesAccounted, Starting
  <2> QED
    BY <2>1, <2>2 DEF SharesAccounted
<1> QED
  BY <1>1, <1>2, <1>3, PTL DEF MirrorSpec

=============================================================================
