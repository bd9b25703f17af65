--------------------------------- MODULE Unlock ---------------------------------
(****************************************************************************)
(* Unlock sessions: internal/identity/unlock.go.  One decrypted privilege   *)
(* key serves every peer with a grant and is wiped when the last grant      *)
(* lapses.  Lapsed grants are dropped lazily, by whoever next takes the     *)
(* lock; a timer per grant sees that somebody does.  Every operation runs   *)
(* under unlockState.mu and reads the clock inside it, so each is one step. *)
(****************************************************************************)
EXTENDS Integers

CONSTANTS
    Peers,           \* paired devices
    Ops,             \* Operation values
    Lifetimes,       \* the token lifetimes asked for
    Grace,           \* MaxInFlightGrace
    ThrottleAfter, ThrottleStep, ThrottleCeiling,
    MaxTime,         \* bound on the clock
    Never,           \* the zero expiry: PolicyNever
    None             \* no grant, no operation, nothing to report

ASSUME LifetimesPositive == Lifetimes \subseteq Nat \ {0}
ASSUME TimesAreNat ==
    /\ Grace \in Nat /\ MaxTime \in Nat
    /\ ThrottleAfter \in Nat \ {0} /\ ThrottleStep \in Nat /\ ThrottleCeiling \in Nat
ASSUME NeverIsNoTime == Never \notin Int
ASSUME NoneIsNoTime == None \notin Int \cup {Never}
ASSUME NoneIsNothing ==
    /\ None \notin [act : {"sign"}, peer : Peers] \cup [act : {"step"}, op : Ops]
    /\ None \notin [deadline : Nat \cup {Never}, ended : BOOLEAN]

VARIABLES
    now,         \* the clock
    key,         \* is the decrypted key in memory?
    grants,      \* peer -> its grant's expiry, Never, or None
    armed,       \* peers whose grant's reap timer has yet to fire
    sweeping,    \* has a timer fired whose sweep has not run yet?
    failures,    \* consecutive failed passphrases
    nextRetry,   \* when the next one may be tried
    lastTry,     \* history: when the last one failed
    ops,         \* operation -> its deadline, and whether it was ended
    out          \* history: the signature or step the last action allowed

vars == <<now, key, grants, armed, sweeping, failures, nextRetry, lastTry, ops, out>>
throttle == <<failures, nextRetry, lastTry>>

Expiry == Nat \cup {Never}
Operation == [deadline : Expiry, ended : BOOLEAN]
Signature(p) == [act |-> "sign", peer |-> p]
Progress(o) == [act |-> "step", op |-> o]

TypeOK ==
    /\ now \in 0..MaxTime
    /\ key \in BOOLEAN
    /\ grants \in [Peers -> {None} \cup Expiry]
    /\ armed \in SUBSET Peers
    /\ sweeping \in BOOLEAN
    /\ failures \in Nat
    /\ nextRetry \in Nat
    /\ lastTry \in Nat
    /\ ops \in [Ops -> {None} \cup Operation]
    /\ out \in {None} \cup [act : {"sign"}, peer : Peers] \cup [act : {"step"}, op : Ops]

Init ==
    /\ now = 0
    /\ key = FALSE
    /\ grants = [p \in Peers |-> None]
    /\ armed = {}
    /\ sweeping = FALSE
    /\ failures = 0
    /\ nextRetry = 0
    /\ lastTry = 0
    /\ ops = [o \in Ops |-> None]
    /\ out = None

----------------------------------------------------------------------------
(* expireLocked, which every operation but Lock and LockPeer begins with.   *)

\* grant.live
Live(p) == grants[p] # None /\ (grants[p] # Never => now < grants[p])

\* The grants left after expireLocked, whether it keeps the key, and the timers.
Kept == [p \in Peers |-> IF Live(p) THEN grants[p] ELSE None]

\* Slip: the last lapsed grant goes and the key stays.
KeyKeptSlip == key

KeyKept == key /\ \E p \in Peers : Live(p)

\* Slip: dropping one lapsed grant stops every timer.
StillArmedSlip == IF \A p \in Peers : Live(p) \/ grants[p] = None THEN armed ELSE {}

StillArmed == {p \in armed : Live(p)}

Expire ==
    /\ grants' = Kept
    /\ key' = KeyKept
    /\ armed' = StillArmed

----------------------------------------------------------------------------
(* Unlock.                                                                  *)

\* throttleDelay
Delay(n) ==
    LET d == (n - ThrottleAfter + 1) * ThrottleStep IN
    IF n < ThrottleAfter THEN 0 ELSE IF d > ThrottleCeiling THEN ThrottleCeiling ELSE d

\* Slip: off by one.
ThrottledSlip == failures > ThrottleAfter /\ now < nextRetry

\* throttleLocked
Throttled == failures >= ThrottleAfter /\ now < nextRetry

\* ErrThrottled: the lapsed grants are dropped all the same.
RefuseThrottled ==
    /\ Throttled
    /\ Expire
    /\ out' = None
    /\ UNCHANGED <<now, sweeping, throttle, ops>>

\* openPrivilege fails: only a wrong passphrase counts, not a damaged file.
WrongPassphrase ==
    /\ ~Throttled
    /\ ~KeyKept
    /\ Expire
    /\ failures' = failures + 1
    /\ nextRetry' = now + Delay(failures + 1)
    /\ lastTry' = now
    /\ out' = None
    /\ UNCHANGED <<now, sweeping, ops>>

KeyUnreadable ==
    /\ ~Throttled
    /\ ~KeyKept
    /\ Expire
    /\ out' = None
    /\ UNCHANGED <<now, sweeping, throttle, ops>>

\* The grant is made, or replaced: a key already held needs no passphrase.
Grant(p, expiry) ==
    /\ ~Throttled
    /\ grants' = [Kept EXCEPT ![p] = expiry]
    /\ key' = TRUE
    /\ armed' = IF expiry = Never THEN StillArmed \ {p} ELSE StillArmed \cup {p}
    /\ failures' = 0
    /\ nextRetry' = 0
    /\ out' = None
    /\ UNCHANGED <<now, sweeping, lastTry, ops>>

Unlock(p) == Grant(p, Never) \/ \E life \in Lifetimes : Grant(p, now + life)

----------------------------------------------------------------------------
(* Lock and LockPeer end grants by hand.                                    *)

Lock ==
    /\ grants' = [p \in Peers |-> None]
    /\ key' = FALSE
    /\ armed' = {}
    /\ out' = None
    /\ UNCHANGED <<now, sweeping, throttle, ops>>

LockPeer(p) ==
    /\ grants' = [grants EXCEPT ![p] = None]
    /\ key' = (key /\ \E q \in Peers \ {p} : grants[q] # None)
    /\ armed' = armed \ {p}
    /\ out' = None
    /\ UNCHANGED <<now, sweeping, throttle, ops>>

----------------------------------------------------------------------------
(* The uses of a grant.                                                     *)

\* Slip: signs by the map as it finds it.
SignOwnedSlip(p) ==
    /\ grants[p] # None
    /\ key
    /\ out' = Signature(p)
    /\ UNCHANGED <<now, key, grants, armed, sweeping, throttle, ops>>

\* SignOwned, where it signs.
SignOwned(p) ==
    /\ Kept[p] # None
    /\ KeyKept
    /\ Expire
    /\ out' = Signature(p)
    /\ UNCHANGED <<now, sweeping, throttle, ops>>

\* UnlockedUntil, UnlockedPeers, and the refusals of SignOwned and BeginOwned.
Look ==
    /\ Expire
    /\ out' = None
    /\ UNCHANGED <<now, sweeping, throttle, ops>>

BeginOwned(o, p) ==
    /\ ops[o] = None
    /\ Kept[p] # None
    /\ Expire
    /\ ops' = [ops EXCEPT ![o] =
                 [deadline |-> IF grants[p] = Never THEN Never ELSE grants[p] + Grace,
                  ended |-> FALSE]]
    /\ out' = None
    /\ UNCHANGED <<now, sweeping, throttle>>

\* Operation.Check, where it returns nil.
Check(o) ==
    /\ ops[o] # None
    /\ ~ops[o].ended
    /\ ops[o].deadline # Never => now <= ops[o].deadline
    /\ out' = Progress(o)
    /\ UNCHANGED <<now, key, grants, armed, sweeping, throttle, ops>>

End(o) ==
    /\ ops[o] # None
    /\ ops' = [ops EXCEPT ![o].ended = TRUE]
    /\ out' = None
    /\ UNCHANGED <<now, key, grants, armed, sweeping, throttle>>

----------------------------------------------------------------------------
(* The clock, and the reap timers it sets off.                              *)

Tick ==
    /\ now < MaxTime
    /\ now' = now + 1
    /\ out' = None
    /\ UNCHANGED <<key, grants, armed, sweeping, throttle, ops>>

Fire(p) ==
    /\ p \in armed
    /\ grants[p] <= now
    /\ armed' = armed \ {p}
    /\ sweeping' = TRUE
    /\ out' = None
    /\ UNCHANGED <<now, key, grants, throttle, ops>>

\* sweep, once it has the lock.
Sweep ==
    /\ sweeping
    /\ Expire
    /\ sweeping' = FALSE
    /\ out' = None
    /\ UNCHANGED <<now, throttle, ops>>

Next ==
    \/ RefuseThrottled \/ WrongPassphrase \/ KeyUnreadable
    \/ Lock \/ Look \/ Tick \/ Sweep
    \/ \E p \in Peers : Unlock(p) \/ LockPeer(p) \/ SignOwned(p) \/ Fire(p)
    \/ \E o \in Ops, p \in Peers : BeginOwned(o, p)
    \/ \E o \in Ops : Check(o) \/ End(o)

Spec == Init /\ [][Next]_vars

\* The runtime runs a timer that is due, and the goroutine it starts.
Fairness == WF_vars(Sweep) /\ \A p \in Peers : WF_vars(Fire(p))
FairSpec == Spec /\ Fairness

----------------------------------------------------------------------------
(* Properties.                                                              *)

\* The decrypted key is in memory exactly while a grant is recorded, whichever
\* of Unlock, Lock, LockPeer, expiry and failed attempts came in what order.
KeyJustified == key = (\E p \in Peers : grants[p] # None)

\* Dropping lapsed grants lazily cannot be observed: as seen through the
\* signatures made and the steps allowed, a token ends at its expiry, work in
\* flight Grace later, and neither a stale timer nor a replaced grant changes it.
Limit == [o \in Ops |-> IF ops[o] = None THEN None
                        ELSE IF ops[o].ended THEN None ELSE ops[o].deadline]
Promise == INSTANCE OwnedAccess WITH until <- Kept, limit <- Limit
ImplementsOwnedAccess == Promise!Spec

\* Passphrases are tried no faster than throttleDelay allows, measured from the
\* attempt that failed, whatever unlocks, locks and expiries lie between.
TriesAreSpaced ==
    [][failures' > failures => now >= lastTry + Delay(failures)]_vars

\* A key no live grant justifies does not stay in memory until somebody asks.
KeyIsWiped ==
    []<>(~key \/ \E p \in Peers : Live(p))
=================================================================================
