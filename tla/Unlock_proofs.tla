----------------------------- MODULE Unlock_proofs -----------------------------
(****************************************************************************)
(* Proofs about Unlock, for any peers, operations, lifetimes and throttle.  *)
(****************************************************************************)
EXTENDS Unlock, TLAPS

\* A failed attempt is followed by its delay until the count starts again.
ThrottleSet == lastTry <= now /\ (failures > 0 => nextRetry = lastTry + Delay(failures))

IInv == TypeOK /\ KeyJustified /\ ThrottleSet

\* throttleDelay is a duration that is never negative: below ThrottleAfter it is
\* zero, and beyond it the product stays between ThrottleStep and the ceiling.
LEMMA DelayIsNat == ASSUME NEW n \in Nat PROVE Delay(n) \in Nat
<1>1. CASE n < ThrottleAfter
  BY <1>1 DEF Delay
<1>2. CASE ~(n < ThrottleAfter)
  <2>1. n - ThrottleAfter + 1 \in Nat
    BY <1>2, TimesAreNat
  <2>2. (n - ThrottleAfter + 1) * ThrottleStep \in Nat
    BY <2>1, TimesAreNat
  <2> QED
    BY <1>2, <2>2, TimesAreNat DEF Delay
<1> QED
  BY <1>1, <1>2

\* expireLocked, run by every operation that reads the grants, keeps the types
\* and wipes the key exactly when it leaves no grant behind.
LEMMA ExpireKeeps ==
    ASSUME IInv
    PROVE  /\ Kept \in [Peers -> {None} \cup Expiry]
           /\ KeyKept \in BOOLEAN
           /\ StillArmed \in SUBSET Peers
           /\ KeyKept = (\E p \in Peers : Kept[p] # None)
<1>1. \A p \in Peers : Live(p) => grants[p] # None
  BY DEF Live
<1>2. \A p \in Peers : Kept[p] # None <=> Live(p)
  BY <1>1 DEF Kept
<1>3. Kept \in [Peers -> {None} \cup Expiry]
  BY DEF IInv, TypeOK, Kept
<1>4. StillArmed \in SUBSET Peers
  BY DEF IInv, TypeOK, StillArmed
<1>5. key = (\E p \in Peers : grants[p] # None)
  BY DEF IInv, KeyJustified
<1>6. KeyKept <=> \E p \in Peers : Live(p)
  BY <1>1, <1>5 DEF KeyKept
<1>7. KeyKept \in BOOLEAN
  BY DEF KeyKept, IInv, TypeOK
<1> QED
  BY <1>2, <1>3, <1>4, <1>6, <1>7

\* The initial state is well-formed: nothing is unlocked and nothing is held.
LEMMA InitIInv == Init => IInv
<1> SUFFICES ASSUME Init PROVE IInv
  OBVIOUS
<1>1. TypeOK
  <2>1. 0 \in 0..MaxTime
    BY TimesAreNat
  <2>2. /\ now \in 0..MaxTime /\ key \in BOOLEAN /\ sweeping \in BOOLEAN
        /\ failures \in Nat /\ nextRetry \in Nat /\ lastTry \in Nat
    BY <2>1 DEF Init
  <2>3. grants \in [Peers -> {None} \cup Expiry] /\ armed \in SUBSET Peers
    BY DEF Init
  <2>4. ops \in [Ops -> {None} \cup Operation]
    BY DEF Init
  <2>5. out = None
    BY DEF Init
  <2> QED
    BY <2>2, <2>3, <2>4, <2>5 DEF TypeOK
<1>2. KeyJustified
  BY DEF Init, KeyJustified
<1>3. ThrottleSet
  <2>1. ~(failures > 0) /\ lastTry <= now
    BY DEF Init
  <2> QED
    BY <2>1 DEF ThrottleSet
<1> QED
  BY <1>1, <1>2, <1>3 DEF IInv

\* An operation that only expires and leaves the throttle alone keeps IInv: the
\* common part of a refusal, a query, a signature, a new operation and a sweep.
LEMMA ExpireStep ==
    ASSUME IInv, Expire, UNCHANGED <<now, throttle>>,
           sweeping' \in BOOLEAN,
           ops' \in [Ops -> {None} \cup Operation],
           out' \in {None} \cup [act : {"sign"}, peer : Peers] \cup [act : {"step"}, op : Ops]
    PROVE  IInv'
<1>1. /\ grants' = Kept /\ key' = KeyKept /\ armed' = StillArmed
      /\ now' = now /\ failures' = failures /\ nextRetry' = nextRetry /\ lastTry' = lastTry
  BY DEF Expire, throttle
<1>2. TypeOK'
  BY <1>1, ExpireKeeps DEF IInv, TypeOK
<1>3. KeyJustified'
  BY <1>1, ExpireKeeps DEF KeyJustified
<1>4. ThrottleSet'
  BY <1>1 DEF IInv, ThrottleSet, Delay
<1> QED
  BY <1>2, <1>3, <1>4 DEF IInv

\* Every operation of the unlock state keeps it well-formed.
LEMMA NextIInv == IInv /\ [Next]_vars => IInv'
<1> SUFFICES ASSUME IInv, [Next]_vars PROVE IInv'
  OBVIOUS
<1>0. TypeOK /\ KeyJustified /\ ThrottleSet
  BY DEF IInv
<1>1. CASE RefuseThrottled
  BY <1>1, <1>0, ExpireStep DEF RefuseThrottled, TypeOK
<1>2. CASE WrongPassphrase
  <2>1. /\ grants' = Kept /\ key' = KeyKept /\ armed' = StillArmed
        /\ now' = now /\ sweeping' = sweeping /\ ops' = ops /\ out' = None
        /\ failures' = failures + 1 /\ lastTry' = now
        /\ nextRetry' = now + Delay(failures + 1)
    BY <1>2 DEF WrongPassphrase, Expire
  <2>2. failures + 1 \in Nat /\ Delay(failures + 1) \in Nat /\ now \in Nat
    BY <1>0, DelayIsNat, TimesAreNat DEF TypeOK
  <2>3. TypeOK'
    BY <2>1, <2>2, <1>0, ExpireKeeps DEF TypeOK
  <2>4. KeyJustified'
    BY <2>1, ExpireKeeps DEF KeyJustified
  <2>5. ThrottleSet'
    BY <2>1, <2>2 DEF ThrottleSet, Delay
  <2> QED
    BY <2>3, <2>4, <2>5 DEF IInv
<1>3. CASE KeyUnreadable
  BY <1>3, <1>0, ExpireStep DEF KeyUnreadable, TypeOK
<1>4. ASSUME NEW p \in Peers, NEW expiry \in Expiry, Grant(p, expiry)
      PROVE  IInv'
  <2>1. /\ grants' = [Kept EXCEPT ![p] = expiry] /\ key' = TRUE
        /\ armed' = IF expiry = Never THEN StillArmed \ {p} ELSE StillArmed \cup {p}
        /\ now' = now /\ sweeping' = sweeping /\ ops' = ops /\ out' = None
        /\ failures' = 0 /\ nextRetry' = 0 /\ lastTry' = lastTry
    BY <1>4 DEF Grant
  <2>2. TypeOK'
    BY <2>1, <1>0, ExpireKeeps DEF TypeOK
  <2>3. grants'[p] = expiry /\ expiry # None
    BY <2>1, ExpireKeeps, NoneIsNoTime DEF Expiry
  <2>4. KeyJustified'
    BY <2>1, <2>3 DEF KeyJustified
  <2>5. ThrottleSet'
    BY <2>1, <1>0 DEF ThrottleSet
  <2> QED
    BY <2>2, <2>4, <2>5 DEF IInv
<1>5. ASSUME NEW p \in Peers, Unlock(p)
      PROVE  IInv'
  <2>1. CASE Grant(p, Never)
    BY <2>1, <1>4 DEF Expiry
  <2>2. ASSUME NEW life \in Lifetimes, Grant(p, now + life)
        PROVE  IInv'
    <3>1. now \in Nat /\ life \in Nat
      BY <1>0, LifetimesPositive, TimesAreNat DEF TypeOK
    <3>2. now + life \in Expiry
      BY <3>1 DEF Expiry
    <3> QED
      BY <2>2, <3>2, <1>4
  <2> QED
    BY <1>5, <2>1, <2>2 DEF Unlock
<1>6. CASE Lock
  <2>1. /\ grants' = [p \in Peers |-> None] /\ key' = FALSE /\ armed' = {}
        /\ now' = now /\ sweeping' = sweeping /\ ops' = ops /\ out' = None
        /\ failures' = failures /\ nextRetry' = nextRetry /\ lastTry' = lastTry
    BY <1>6 DEF Lock, throttle
  <2>2. TypeOK'
    BY <2>1, <1>0 DEF TypeOK
  <2>3. KeyJustified'
    BY <2>1 DEF KeyJustified
  <2>4. ThrottleSet'
    BY <2>1, <1>0 DEF ThrottleSet, Delay
  <2> QED
    BY <2>2, <2>3, <2>4 DEF IInv
<1>7. ASSUME NEW p \in Peers, LockPeer(p)
      PROVE  IInv'
  <2>1. /\ grants' = [grants EXCEPT ![p] = None]
        /\ key' = (key /\ \E q \in Peers \ {p} : grants[q] # None)
        /\ armed' = armed \ {p}
        /\ now' = now /\ sweeping' = sweeping /\ ops' = ops /\ out' = None
        /\ failures' = failures /\ nextRetry' = nextRetry /\ lastTry' = lastTry
    BY <1>7 DEF LockPeer, throttle
  <2>2. TypeOK'
    BY <2>1, <1>0 DEF TypeOK
  <2>3. \A q \in Peers : grants'[q] = IF q = p THEN None ELSE grants[q]
    BY <2>1, <1>0 DEF TypeOK
  <2>4. (\E q \in Peers : grants'[q] # None) <=> \E q \in Peers \ {p} : grants[q] # None
    BY <2>3
  <2>5. key = (\E q \in Peers : grants[q] # None)
    BY <1>0 DEF KeyJustified
  <2>6. KeyJustified'
    BY <2>1, <2>4, <2>5 DEF KeyJustified
  <2>7. ThrottleSet'
    BY <2>1, <1>0 DEF ThrottleSet, Delay
  <2> QED
    BY <2>2, <2>6, <2>7 DEF IInv
<1>8. ASSUME NEW p \in Peers, SignOwned(p)
      PROVE  IInv'
  BY <1>8, <1>0, ExpireStep DEF SignOwned, Signature, TypeOK
<1>9. CASE Look
  BY <1>9, <1>0, ExpireStep DEF Look, TypeOK
<1>10. ASSUME NEW o \in Ops, NEW p \in Peers, BeginOwned(o, p)
       PROVE  IInv'
  <2>1. grants[p] \in Expiry
    BY <1>10, <1>0 DEF BeginOwned, Kept, Live, TypeOK
  <2>2. (IF grants[p] = Never THEN Never ELSE grants[p] + Grace) \in Expiry
    BY <2>1, TimesAreNat DEF Expiry
  <2>3. ops' \in [Ops -> {None} \cup Operation]
    BY <1>10, <2>2, <1>0 DEF BeginOwned, TypeOK, Operation
  <2> QED
    BY <1>10, <2>3, <1>0, ExpireStep DEF BeginOwned, TypeOK
<1>11. ASSUME NEW o \in Ops, Check(o)
       PROVE  IInv'
  <2>1. /\ UNCHANGED <<now, key, grants, armed, sweeping, failures, nextRetry, lastTry, ops>>
        /\ out' = Progress(o)
    BY <1>11 DEF Check, throttle
  <2>2. TypeOK'
    BY <2>1, <1>0 DEF TypeOK, Progress
  <2> QED
    BY <2>1, <2>2, <1>0 DEF IInv, KeyJustified, ThrottleSet, Delay
<1>12. ASSUME NEW o \in Ops, End(o)
       PROVE  IInv'
  <2>1. /\ UNCHANGED <<now, key, grants, armed, sweeping, failures, nextRetry, lastTry>>
        /\ out' = None /\ ops[o] # None
        /\ ops' = [ops EXCEPT ![o].ended = TRUE]
    BY <1>12 DEF End, throttle
  <2>2. ops' \in [Ops -> {None} \cup Operation]
    BY <2>1, <1>0 DEF TypeOK, Operation
  <2>3. TypeOK'
    BY <2>1, <2>2, <1>0 DEF TypeOK
  <2> QED
    BY <2>1, <2>3, <1>0 DEF IInv, KeyJustified, ThrottleSet, Delay
<1>13. CASE Tick
  <2>1. /\ UNCHANGED <<key, grants, armed, sweeping, failures, nextRetry, lastTry, ops>>
        /\ out' = None /\ now' = now + 1 /\ now < MaxTime
    BY <1>13 DEF Tick, throttle
  <2>2. TypeOK'
    BY <2>1, <1>0, TimesAreNat DEF TypeOK
  <2>3. lastTry' <= now'
    BY <2>1, <1>0 DEF ThrottleSet, TypeOK
  <2> QED
    BY <2>1, <2>2, <2>3, <1>0 DEF IInv, KeyJustified, ThrottleSet, Delay
<1>14. ASSUME NEW p \in Peers, Fire(p)
       PROVE  IInv'
  <2>1. /\ UNCHANGED <<now, key, grants, failures, nextRetry, lastTry, ops>>
        /\ out' = None /\ armed' = armed \ {p} /\ sweeping' = TRUE
    BY <1>14 DEF Fire, throttle
  <2>2. TypeOK'
    BY <2>1, <1>0 DEF TypeOK
  <2> QED
    BY <2>1, <2>2, <1>0 DEF IInv, KeyJustified, ThrottleSet, Delay
<1>15. CASE Sweep
  BY <1>15, <1>0, ExpireStep DEF Sweep, TypeOK
<1>16. CASE UNCHANGED vars
  BY <1>16, <1>0 DEF IInv, TypeOK, KeyJustified, ThrottleSet, Delay, vars
<1> QED
  BY <1>1, <1>2, <1>3, <1>5, <1>6, <1>7, <1>8, <1>9, <1>10, <1>11, <1>12, <1>13,
     <1>14, <1>15, <1>16 DEF Next

\* The strengthened invariant holds of every behaviour.
THEOREM Invariance == Spec => []IInv
BY InitIInv, NextIInv, PTL DEF Spec

\* Every variable keeps its type: no grant, deadline or retry time is ever
\* negative or of the wrong kind, however grants are replaced and expire.
THEOREM UnlockTypeCorrect == Spec => []TypeOK
<1>1. IInv => TypeOK
  BY DEF IInv
<1> QED
  BY <1>1, Invariance, PTL

\* The decrypted key is in memory exactly while some grant justifies it
\* (unlockState: "It is wiped the moment the last grant lapses").
THEOREM KeyIsJustified == Spec => []KeyJustified
<1>1. IInv => KeyJustified
  BY DEF IInv
<1> QED
  BY <1>1, Invariance, PTL

----------------------------------------------------------------------------
(* The throttle.                                                            *)

\* An attempt is only counted when the delay after the one before has passed
\* (throttleLocked, throttleDelay), whatever unlocked or expired in between.
THEOREM ThrottleHolds == Spec => TriesAreSpaced
<1> DEFINE Spaced == failures' > failures => now >= lastTry + Delay(failures)
<1>1. IInv /\ [Next]_vars => [Spaced]_vars
  <2> SUFFICES ASSUME IInv, [Next]_vars, failures' > failures
               PROVE  now >= lastTry + Delay(failures)
    OBVIOUS
  <2>0. /\ failures \in Nat /\ nextRetry \in Nat /\ lastTry \in Nat /\ now \in Nat
        /\ lastTry <= now
        /\ failures > 0 => nextRetry = lastTry + Delay(failures)
    BY TimesAreNat DEF IInv, TypeOK, ThrottleSet
  <2>1. WrongPassphrase
    <3>1. failures' # failures /\ failures' # 0
      BY <2>0
    <3>2. ~(failures' = failures) /\ ~(UNCHANGED throttle) /\ ~(UNCHANGED vars)
      BY <3>1 DEF throttle, vars
    <3>3. \A p \in Peers : ~Unlock(p)
      BY <3>1 DEF Unlock, Grant
    <3>4. /\ ~RefuseThrottled /\ ~KeyUnreadable /\ ~Lock /\ ~Look /\ ~Tick /\ ~Sweep
          /\ \A p \in Peers : ~LockPeer(p) /\ ~SignOwned(p) /\ ~Fire(p)
          /\ \A o \in Ops, p \in Peers : ~BeginOwned(o, p)
          /\ \A o \in Ops : ~Check(o) /\ ~End(o)
      BY <3>2 DEF RefuseThrottled, KeyUnreadable, Lock, Look, Tick, Sweep, LockPeer,
                  SignOwned, Fire, BeginOwned, Check, End
    <3> QED
      BY <3>2, <3>3, <3>4 DEF Next
  <2>2. failures < ThrottleAfter \/ now >= nextRetry
    BY <2>0, <2>1, TimesAreNat DEF WrongPassphrase, Throttled
  <2>3. CASE failures < ThrottleAfter
    <3>1. Delay(failures) = 0
      BY <2>3 DEF Delay
    <3> QED
      BY <3>1, <2>0
  <2>4. CASE ~(failures < ThrottleAfter)
    <3>1. failures > 0
      BY <2>4, <2>0, TimesAreNat
    <3> QED
      BY <2>2, <2>4, <3>1, <2>0
  <2> QED
    BY <2>3, <2>4
<1> QED
  BY <1>1, Invariance, PTL DEF Spec, TriesAreSpaced

----------------------------------------------------------------------------
(* Unlock implements OwnedAccess.                                           *)

\* Lapsed grants are already invisible, so dropping them changes nothing seen.
LEMMA ExpireIsInvisible ==
    ASSUME IInv, grants' = Kept, now' = now
    PROVE  Kept' = Kept
<1>1. \A p \in Peers : Kept[p] = IF Live(p) THEN grants[p] ELSE None
  BY DEF Kept
<1>2. \A p \in Peers : Live(p)' <=> Live(p)
  <2> SUFFICES ASSUME NEW p \in Peers PROVE Live(p)' <=> Live(p)
    OBVIOUS
  <2>1. grants'[p] = Kept[p]
    OBVIOUS
  <2> QED
    BY <1>1, <2>1 DEF Live
<1>3. \A p \in Peers : Kept'[p] = IF Live(p)' THEN grants'[p] ELSE None
  BY DEF Kept
<1>4. \A p \in Peers : Kept'[p] = Kept[p]
  BY <1>1, <1>2, <1>3
<1> QED
  BY <1>4 DEF Kept

\* An operation only ever looks at its own grant and its own Operation value.
LEMMA LimitStable == ASSUME ops' = ops PROVE Limit' = Limit
BY DEF Limit

\* Every operation on the unlock state is a step OwnedAccess allows, or none.
LEMMA StepPromised == IInv /\ [Next]_vars => [Promise!Next]_Promise!vars
<1> SUFFICES ASSUME IInv, [Next]_vars PROVE [Promise!Next]_Promise!vars
  OBVIOUS
<1>0. TypeOK
  BY DEF IInv
<1>a. ASSUME Expire, now' = now, ops' = ops, out' = None
      PROVE  Promise!Next
  <2>1. Kept' = Kept /\ Limit' = Limit
    BY <1>a, ExpireIsInvisible, LimitStable DEF Expire
  <2>2. Promise!Quiet
    BY <2>1, <1>a DEF Promise!Quiet
  <2> QED
    BY <2>2 DEF Promise!Next
<1>1. CASE RefuseThrottled
  BY <1>1, <1>a DEF RefuseThrottled
<1>2. CASE WrongPassphrase
  BY <1>2, <1>a DEF WrongPassphrase
<1>3. CASE KeyUnreadable
  BY <1>3, <1>a DEF KeyUnreadable
<1>4. ASSUME NEW p \in Peers, NEW u \in {Never} \cup {now + life : life \in Lifetimes},
             Grant(p, u)
      PROVE  Promise!Next
  <2>1. /\ grants' = [Kept EXCEPT ![p] = u] /\ now' = now /\ ops' = ops /\ out' = None
    BY <1>4 DEF Grant
  <2>2. u # None /\ (u # Never => now < u)
    <3>1. CASE u = Never
      BY <3>1, NoneIsNoTime
    <3>2. CASE u # Never
      <4>1. PICK life \in Lifetimes : u = now + life
        BY <3>2
      <4>2. now \in Nat /\ life \in Nat \ {0}
        BY <1>0, LifetimesPositive, TimesAreNat DEF TypeOK
      <4>3. u \in Int /\ now < u
        BY <4>1, <4>2
      <4> QED
        BY <4>3, NoneIsNoTime
    <3> QED
      BY <3>1, <3>2
  <2>3. \A q \in Peers : grants'[q] = IF q = p THEN u ELSE Kept[q]
    BY <2>1, ExpireKeeps
  <2>4. \A q \in Peers : Kept[q] = IF Live(q) THEN grants[q] ELSE None
    BY DEF Kept
  <2>5. \A q \in Peers : Kept'[q] = IF Live(q)' THEN grants'[q] ELSE None
    BY DEF Kept
  <2>6. \A q \in Peers : Kept'[q] = IF q = p THEN u ELSE Kept[q]
    <3> SUFFICES ASSUME NEW q \in Peers
                 PROVE  Kept'[q] = IF q = p THEN u ELSE Kept[q]
      OBVIOUS
    <3>1. CASE q = p
      <4>1. Live(q)'
        BY <3>1, <2>1, <2>2, <2>3 DEF Live
      <4> QED
        BY <3>1, <4>1, <2>3, <2>5
    <3>2. CASE q # p
      <4>1. grants'[q] = Kept[q]
        BY <3>2, <2>3
      <4>2. Live(q)' <=> Live(q)
        BY <4>1, <2>1, <2>4 DEF Live
      <4> QED
        BY <3>2, <4>1, <4>2, <2>4, <2>5
    <3> QED
      BY <3>1, <3>2
  <2>7. Kept' = [Kept EXCEPT ![p] = u]
    BY <2>6 DEF Kept
  <2>8. Promise!Grant(p)
    BY <2>1, <2>7, LimitStable DEF Promise!Grant
  <2> QED
    BY <2>8 DEF Promise!Next
<1>5. ASSUME NEW p \in Peers, Unlock(p)
      PROVE  Promise!Next
  BY <1>5, <1>4 DEF Unlock
<1>6. ASSUME NEW ps \in SUBSET Peers, now' = now, ops' = ops, out' = None,
             grants' = [p \in Peers |-> IF p \in ps THEN None ELSE grants[p]]
      PROVE  Promise!Next
  <2>1. \A p \in Peers : Kept'[p] = IF Live(p)' THEN grants'[p] ELSE None
    BY DEF Kept
  <2>2. \A p \in Peers : Kept[p] = IF Live(p) THEN grants[p] ELSE None
    BY DEF Kept
  <2>3. \A p \in Peers : grants'[p] = IF p \in ps THEN None ELSE grants[p]
    BY <1>6
  <2>4. \A p \in Peers : Live(p)' <=> (p \notin ps /\ Live(p))
    BY <2>3, <1>6 DEF Live
  <2>5. \A p \in Peers : Kept'[p] = IF p \in ps THEN None ELSE Kept[p]
    BY <2>1, <2>2, <2>3, <2>4
  <2>6. Kept' = [p \in Peers |-> IF p \in ps THEN None ELSE Kept[p]]
    BY <2>5 DEF Kept
  <2>7. Promise!Withdraw(ps)
    BY <2>6, <1>6, LimitStable DEF Promise!Withdraw
  <2> QED
    BY <2>7 DEF Promise!Next
<1>7. CASE Lock
  <2>1. /\ grants' = [p \in Peers |-> IF p \in Peers THEN None ELSE grants[p]]
        /\ now' = now /\ ops' = ops /\ out' = None
    BY <1>7 DEF Lock
  <2> QED
    BY <2>1, <1>6
<1>8. ASSUME NEW p \in Peers, LockPeer(p)
      PROVE  Promise!Next
  <2>1. /\ grants' = [q \in Peers |-> IF q \in {p} THEN None ELSE grants[q]]
        /\ now' = now /\ ops' = ops /\ out' = None
    BY <1>8, <1>0 DEF LockPeer, TypeOK
  <2> QED
    BY <2>1, <1>6
<1>9. ASSUME NEW p \in Peers, SignOwned(p)
      PROVE  Promise!Next
  <2>1. /\ Kept[p] # None /\ grants' = Kept /\ out' = Signature(p)
        /\ now' = now /\ ops' = ops
    BY <1>9 DEF SignOwned, Expire
  <2>2. Promise!Sign(p)
    BY <2>1, ExpireIsInvisible, LimitStable DEF Promise!Sign, Promise!Signature, Signature
  <2> QED
    BY <2>2 DEF Promise!Next
<1>10. CASE Look
  BY <1>10, <1>a DEF Look
<1>11. ASSUME NEW o \in Ops, NEW p \in Peers, BeginOwned(o, p)
       PROVE  Promise!Next
  <2> DEFINE d == IF grants[p] = Never THEN Never ELSE grants[p] + Grace
  <2> DEFINE op == [deadline |-> d, ended |-> FALSE]
  <2>1. /\ ops[o] = None /\ Kept[p] # None /\ grants' = Kept /\ now' = now /\ out' = None
        /\ ops' = [ops EXCEPT ![o] = op]
    BY <1>11 DEF BeginOwned, Expire
  <2>2. Kept[p] = grants[p] /\ grants[p] \in Expiry
    BY <2>1, <1>0 DEF Kept, TypeOK
  <2>3. d \in Expiry
    BY <2>2, TimesAreNat DEF Expiry
  <2>4. op # None /\ op.deadline = d /\ op.ended = FALSE
    <3> HIDE DEF d
    <3>1. op \in [deadline : Nat \cup {Never}, ended : BOOLEAN]
      BY <2>3 DEF Expiry
    <3>2. op.deadline = d /\ op.ended = FALSE
      OBVIOUS
    <3> HIDE DEF op
    <3>3. op # None
      BY <3>1, NoneIsNothing
    <3> QED
      BY <3>2, <3>3
  <2> HIDE DEF op
  <2>5. \A q \in Ops : ops'[q] = IF q = o THEN op ELSE ops[q]
    BY <2>1, <1>0 DEF TypeOK
  <2>6. \A q \in Ops : Limit'[q] = IF q = o THEN d ELSE Limit[q]
    BY <2>4, <2>5 DEF Limit
  <2>7. Limit' = [Limit EXCEPT ![o] = d]
    BY <2>6 DEF Limit
  <2>8. Limit[o] = None
    BY <2>1 DEF Limit
  <2>9. Kept' = Kept
    BY <2>1, ExpireIsInvisible
  <2>10. Promise!Begin(o, p)
    BY <2>1, <2>2, <2>7, <2>8, <2>9 DEF Promise!Begin
  <2> QED
    BY <2>10 DEF Promise!Next
<1>12. ASSUME NEW o \in Ops, Check(o)
       PROVE  Promise!Next
  <2>1. /\ ops[o] # None /\ ~ops[o].ended
        /\ ops[o].deadline # Never => now <= ops[o].deadline
        /\ now' = now /\ grants' = grants /\ ops' = ops /\ out' = Progress(o)
    BY <1>12 DEF Check
  <2>2. ops[o] \in Operation
    BY <2>1, <1>0 DEF TypeOK
  <2>3. Limit[o] = ops[o].deadline /\ Limit[o] # None
    BY <2>1, <2>2, NoneIsNoTime DEF Limit, Operation, Expiry
  <2>4. Kept' = Kept
    BY <2>1 DEF Kept, Live
  <2>5. Promise!Step(o)
    BY <2>1, <2>3, <2>4, LimitStable DEF Promise!Step, Promise!Progress, Progress
  <2> QED
    BY <2>5 DEF Promise!Next
<1>13. ASSUME NEW o \in Ops, End(o)
       PROVE  Promise!Next
  <2>1. /\ ops[o] # None /\ ops' = [ops EXCEPT ![o].ended = TRUE]
        /\ now' = now /\ grants' = grants /\ out' = None
    BY <1>13 DEF End
  <2>2. ops[o] \in Operation
    BY <2>1, <1>0 DEF TypeOK
  <2>3. \A q \in Ops : q # o => ops'[q] = ops[q]
    BY <2>1, <1>0 DEF TypeOK
  <2>4. ops'[o].ended
    BY <2>1, <2>2, <1>0 DEF TypeOK, Operation
  <2>5. \A q \in Ops : Limit'[q] = IF q = o THEN None ELSE Limit[q]
    BY <2>3, <2>4 DEF Limit
  <2>6. Limit' = [Limit EXCEPT ![o] = None]
    BY <2>5 DEF Limit
  <2>7. Kept' = Kept
    BY <2>1 DEF Kept, Live
  <2>8. Promise!End(o)
    BY <2>1, <2>6, <2>7 DEF Promise!End
  <2> QED
    BY <2>8 DEF Promise!Next
<1>14. CASE Tick
  <2>1. now' = now + 1 /\ grants' = grants /\ ops' = ops /\ out' = None
    BY <1>14 DEF Tick
  <2>2. \A p \in Peers : Kept[p] = IF Live(p) THEN grants[p] ELSE None
    BY DEF Kept
  <2>3. \A p \in Peers : Kept'[p] = IF Live(p)' THEN grants[p] ELSE None
    BY <2>1 DEF Kept
  <2>4. \A p \in Peers : Kept'[p] = IF Kept[p] = now + 1 THEN None ELSE Kept[p]
    <3> SUFFICES ASSUME NEW p \in Peers
                 PROVE  Kept'[p] = IF Kept[p] = now + 1 THEN None ELSE Kept[p]
      OBVIOUS
    <3>0. now \in Nat /\ grants[p] \in {None} \cup Expiry
      BY <1>0 DEF TypeOK
    <3>1. CASE grants[p] = None
      BY <3>1, <2>1, <2>2, <2>3 DEF Live
    <3>2. CASE grants[p] = Never
      <4>1. Live(p) /\ Live(p)' /\ Never # now + 1
        BY <3>0, <3>2, <2>1, NoneIsNoTime, NeverIsNoTime DEF Live
      <4> QED
        BY <4>1, <3>2, <2>2, <2>3
    <3>3. CASE grants[p] \in Nat
      <4>1. grants[p] # None /\ grants[p] # Never
        BY <3>3, NoneIsNoTime, NeverIsNoTime
      <4>2. /\ Live(p) <=> now < grants[p]
            /\ Live(p)' <=> now + 1 < grants[p]
        BY <4>1, <2>1 DEF Live
      <4>3. None # now + 1
        BY <3>0, NoneIsNoTime
      <4> QED
        BY <3>0, <3>3, <4>2, <4>3, <2>2, <2>3
    <3> QED
      BY <3>0, <3>1, <3>2, <3>3 DEF Expiry
  <2>5. Kept' = [p \in Peers |-> IF Kept[p] = now' THEN None ELSE Kept[p]]
    BY <2>1, <2>4 DEF Kept
  <2>6. Promise!Tick
    BY <2>1, <2>5, LimitStable DEF Promise!Tick
  <2> QED
    BY <2>6 DEF Promise!Next
<1>15. ASSUME NEW p \in Peers, Fire(p)
       PROVE  Promise!Next
  <2>1. Kept' = Kept /\ Limit' = Limit /\ now' = now /\ out' = None
    BY <1>15, LimitStable DEF Fire, Kept, Live
  <2>2. Promise!Quiet
    BY <2>1 DEF Promise!Quiet
  <2> QED
    BY <2>2 DEF Promise!Next
<1>16. CASE Sweep
  BY <1>16, <1>a DEF Sweep
<1>17. CASE UNCHANGED vars
  <2>1. UNCHANGED <<now, grants, ops, out>>
    BY <1>17 DEF vars
  <2>2. Kept' = Kept /\ Limit' = Limit
    BY <2>1, LimitStable DEF Kept, Live
  <2> QED
    BY <2>1, <2>2 DEF Promise!vars
<1> QED
  BY <1>1, <1>2, <1>3, <1>5, <1>7, <1>8, <1>9, <1>10, <1>11, <1>12, <1>13, <1>14,
     <1>15, <1>16, <1>17 DEF Next

\* The lazily expired grants, timers and replaced tokens keep the promise: no
\* signature after a token's expiry, no step after its grace.
THEOREM OwnedAccessHonoured == Spec => ImplementsOwnedAccess
<1>1. Init => Promise!Init
  <2> SUFFICES ASSUME Init PROVE Promise!Init
    OBVIOUS
  <2>1. /\ now = 0 /\ grants = [p \in Peers |-> None] /\ ops = [o \in Ops |-> None]
        /\ out = None
    BY DEF Init
  <2>2. Kept = [p \in Peers |-> None]
    BY <2>1 DEF Kept, Live
  <2>3. Limit = [o \in Ops |-> None]
    BY <2>1 DEF Limit
  <2> QED
    BY <2>1, <2>2, <2>3 DEF Promise!Init
<1> QED
  BY <1>1, StepPromised, Invariance, PTL DEF Spec, ImplementsOwnedAccess, Promise!Spec
================================================================================
