------------------------------ MODULE OwnedAccess ------------------------------
(****************************************************************************)
(* What an unlock promises (identity/unlock.go's opening comment), without  *)
(* keys, timers or throttling.  A peer may be signed for until the moment   *)
(* its token runs out, and not one moment longer; work begun before that    *)
(* may go on for Grace.  Unlock implements this.                            *)
(****************************************************************************)
EXTENDS Integers
CONSTANTS Peers, Ops, Lifetimes, Grace, Never, None
VARIABLES
    now,         \* the time
    until,       \* peer -> when its token ends, Never, or None without one
    limit,       \* operation -> the last moment it may take a step, Never, or None
    out          \* what the last step let happen: a signature, a step, or None

vars == <<now, until, limit, out>>
Signature(p) == [act |-> "sign", peer |-> p]
Progress(o) == [act |-> "step", op |-> o]

Init ==
    /\ now = 0
    /\ until = [p \in Peers |-> None]
    /\ limit = [o \in Ops |-> None]
    /\ out = None

Tick ==
    /\ now' = now + 1
    /\ until' = [p \in Peers |-> IF until[p] = now' THEN None ELSE until[p]]
    /\ out' = None
    /\ UNCHANGED limit

Grant(p) ==
    /\ \E u \in {Never} \cup {now + life : life \in Lifetimes} :
          until' = [until EXCEPT ![p] = u]
    /\ out' = None
    /\ UNCHANGED <<now, limit>>

Withdraw(ps) ==
    /\ until' = [p \in Peers |-> IF p \in ps THEN None ELSE until[p]]
    /\ out' = None
    /\ UNCHANGED <<now, limit>>

Sign(p) ==
    /\ until[p] # None
    /\ out' = Signature(p)
    /\ UNCHANGED <<now, until, limit>>

Begin(o, p) ==
    /\ limit[o] = None
    /\ until[p] # None
    /\ limit' = [limit EXCEPT ![o] = IF until[p] = Never THEN Never ELSE until[p] + Grace]
    /\ out' = None
    /\ UNCHANGED <<now, until>>

Step(o) ==
    /\ limit[o] # None
    /\ limit[o] # Never => now <= limit[o]
    /\ out' = Progress(o)
    /\ UNCHANGED <<now, until, limit>>

End(o) ==
    /\ limit' = [limit EXCEPT ![o] = None]
    /\ out' = None
    /\ UNCHANGED <<now, until>>

Quiet == out' = None /\ UNCHANGED <<now, until, limit>>

Next ==
    \/ Tick \/ Quiet
    \/ \E p \in Peers : Grant(p) \/ Sign(p)
    \/ \E ps \in SUBSET Peers : Withdraw(ps)
    \/ \E o \in Ops, p \in Peers : Begin(o, p)
    \/ \E o \in Ops : Step(o) \/ End(o)

Spec == Init /\ [][Next]_vars
================================================================================
