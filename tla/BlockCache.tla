----------------------------- MODULE BlockCache -----------------------------
(***************************************************************************)
(* The cache of blocks of another device's files (caps/remotefs/cache.go): *)
(* a list of entries, most recently used first, and the files they are     *)
(* about, which are written, read and removed outside the lock.            *)
(* An operator here is one lock section or one call on a file; the         *)
(* goroutines that make them are in RemoteStream.  What a block holds is   *)
(* the version of the file it was read from.                               *)
(***************************************************************************)
EXTENDS Naturals, SequencesExt

CONSTANTS Versions,  \* of the file, 1 up; also what stands for its size and time
          Blocks,    \* block numbers, 0 up
          Weight,    \* Weight[v]: bytes of a sealed block of version v
          CacheMax   \* Cache.max

ASSUME CacheAssumption ==
    /\ Versions \subseteq Nat \ {0} /\ 1 \in Versions
    /\ Blocks \subseteq Nat
    /\ Weight \in [Versions -> Nat \ {0}]
    /\ CacheMax \in Nat

VARIABLES
    lru,    \* Cache.lru with Cache.entries: [name, bytes], most recently used first
    size,   \* Cache.size
    disk,   \* disk[n]: the version the file n holds, or NoBlock
    closed  \* how far Close is: "no", "cleared", "removed"

cacheVars == <<lru, size, disk, closed>>

Names == Versions \X Blocks
NoBlock == 0

\* cacheKey with the modification time left out.
CacheKeySlip(v) == 1

\* One version of the file has one key.
CacheKey(v) == v

BlockName(v, i) == <<CacheKey(v), i>>

Recorded == {e.name : e \in ToSet(lru)}

\* The list's element for n, which Cache.entries leads to, and what it weighs.
Place(n) == CHOOSE k \in DOMAIN lru : lru[k].name = n
Freed(n) == IF n \in Recorded THEN lru[Place(n)].bytes ELSE 0

\* The list without n.
Others(n) == IF n \in Recorded THEN RemoveAt(lru, Place(n)) ELSE lru

\* What entries weigh, added up.
UpTo(es) == LET sum[k \in 0..Len(es)] == IF k = 0 THEN 0 ELSE sum[k - 1] + es[k].bytes
            IN  sum
Bytes(es) == UpTo(es)[Len(es)]

CacheInit ==
    /\ lru = <<>>
    /\ size = 0
    /\ disk = [n \in Names |-> NoBlock]
    /\ closed = "no"

\* Get under the lock.
Hit(n) ==
    /\ n \in Recorded
    /\ lru' = <<lru[Place(n)]>> \o Others(n)
    /\ UNCHANGED <<size, disk, closed>>

\* Put's rename of the temporary file.  Without its directory there is none.
Rename(n, v) ==
    /\ closed # "removed"
    /\ disk' = [disk EXCEPT ![n] = v]
    /\ UNCHANGED <<lru, size, closed>>

\* evictLocked that always spares the block just stored and the one before it.
StayingSlip(es, held) ==
    {k \in 0..Len(es) : k <= 2 \/ held - Bytes(SubSeq(es, k + 1, Len(es))) <= CacheMax}

\* evictLocked: the lengths at which what is left fits.
Staying(es, held) ==
    {k \in 0..Len(es) : k = 0 \/ held - Bytes(SubSeq(es, k + 1, Len(es))) <= CacheMax}

\* Put under the lock: the list and the size before evictLocked.
Pushed(n, v) == <<[name |-> n, bytes |-> Weight[v]]>> \o Others(n)
Held(n, v) == (size - Freed(n)) + Weight[v]

\* What evictLocked returns, oldest first.
Victims(n, v) ==
    LET es == Pushed(n, v)
        out == Reverse(SubSeq(es, Max(Staying(es, Held(n, v))) + 1, Len(es)))
    IN [j \in DOMAIN out |-> out[j].name]

Record(n, v) ==
    LET es == Pushed(n, v)
        k == Max(Staying(es, Held(n, v)))
    IN /\ lru' = SubSeq(es, 1, k)
       /\ size' = Held(n, v) - Bytes(SubSeq(es, k + 1, Len(es)))
       /\ UNCHANGED <<disk, closed>>

\* drop that takes the same bytes off again for a block already forgotten.
ForgetSlip(n) ==
    /\ lru' = Others(n)
    /\ size' = size - 1
    /\ UNCHANGED <<disk, closed>>

\* drop under the lock.
Forget(n) ==
    /\ lru' = Others(n)
    /\ size' = size - Freed(n)
    /\ UNCHANGED <<disk, closed>>

\* os.Remove, after the lock of drop or of Put was released.
Unlink(n) ==
    /\ disk' = [disk EXCEPT ![n] = NoBlock]
    /\ UNCHANGED <<lru, size, closed>>

\* Close: the entries under the lock, then the directory.
ClearCache ==
    /\ closed = "no"
    /\ lru' = <<>>
    /\ size' = 0
    /\ closed' = "cleared"
    /\ UNCHANGED disk

RemoveDir ==
    /\ closed = "cleared"
    /\ disk' = [n \in Names |-> NoBlock]
    /\ closed' = "removed"
    /\ UNCHANGED <<lru, size>>

CacheTypeOK ==
    /\ lru \in Seq([name : Names, bytes : Nat \ {0}])
    /\ Cardinality(Recorded) = Len(lru)
    /\ size \in Nat
    /\ disk \in [Names -> Versions \cup {NoBlock}]
    /\ closed \in {"no", "cleared", "removed"}
=============================================================================
