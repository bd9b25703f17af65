------------------------------ MODULE Path_proofs ------------------------------
(****************************************************************************)
(* For any timeouts, and any number of punches, dials, drops and moves: the *)
(* types, and that the first move of an end is noticed before QUIC gives    *)
(* the session up.  The silence an end hears is measured against the route  *)
(* its peer still sends over: it is hardly older than that route has been   *)
(* quiet, and the sweep ends the route when it has been quiet too long,     *)
(* unless the relay has failed meanwhile, which excuses the silence.        *)
(****************************************************************************)
EXTENDS Path, TLAPS

\* An attempt that has its answer, and one whose answer came from where the peer is no more.
Found(p, t) == Spraying(p, t) /\ punch[p][t].found # NoAddress
Outdated(p, t) == Found(p, t) /\ punch[p][t].found # home[Peer(p)]

\* A route to where the peer is no more.
Stale(p) == HasRoute(p) /\ ~OnRoute(p)

\* The relay has failed p in this tick, or nothing has yet failed to come from it.
Excused(p) == p \in resting \/ silence[Peer(p)] = 0

\* What a message names is an address.
Offered ==
    \A t \in Tokens : /\ exchange[t] = "asked" => offer[A][t] \in Addresses
                      /\ exchange[t] = "answered" => offer[B][t] \in Addresses

\* A peer that has not moved is where p sends to.
Still(p) ==
    home[Peer(p)] = 1 => /\ silence[Peer(p)] = 0 /\ ~Stale(p)
                         /\ \A t \in Tokens : ~Outdated(p, t)

\* An attempt ends before the second tick after its answer.
Fleeting(p) ==
    \A t \in Tokens : Outdated(p, t) =>
        silence[Peer(p)] <= IF punch[p][t].step = "late" THEN 1 ELSE 0

\* An end without the relay is waiting to dial, or has just stopped waiting.
Dialling(p) ==
    /\ attached[p] = NoDial => Excused(p)
    /\ p \in resting => attached[p] = NoDial

\* The silence is hardly older than the route it is noticed on.
Noticed(p) == Stale(p) => silence[Peer(p)] <= route[p].quiet + 1

\* The sweep's copy is no fresher than the route.
Copied(p) == review[p].step = "read" /\ HasRoute(p) => route[p].quiet <= review[p].of.quiet

\* A dead route is left standing only for want of the relay.
Abandoned(p) ==
    /\ Stale(p) /\ route[p].quiet > Timeout
    /\ review[p].step = "done" \/ (review[p].step = "read" /\ ~review[p].relay)
    => Excused(p)

Bounded(p) == silence[Peer(p)] <= Timeout + 2

Watched(p) ==
    /\ Still(p) /\ Fleeting(p) /\ Dialling(p) /\ Noticed(p)
    /\ Copied(p) /\ Abandoned(p) /\ Bounded(p)

PathTypeInv == TypeOK /\ Offered

\* An end whose peer has moved once at most.
Followed == {p \in Devices : home[Peer(p)] <= 2}

MoveInv == blocked = {} => \A p \in Followed : Watched(p)

\* An end that has moved once at most is not given up.
OutlivesFirstMove ==
    blocked = {} => \A d \in Devices : home[d] <= 2 => silence[d] < IdleTimeout

----------------------------------------------------------------------------
(* Path: types.                                                             *)

LEMMA Ends ==
    /\ A \in Devices /\ B \in Devices
    /\ \A d \in Devices : /\ d \in {A, B} /\ Peer(d) \in Devices
                          /\ Peer(d) # d /\ Peer(Peer(d)) = d
BY PathAssumption DEF Peer

LEMMA Bounds ==
    /\ Interval \in Nat /\ Timeout \in Nat /\ IdleTimeout \in Nat /\ Cooldown \in Nat
    /\ MaxMoves \in Nat /\ MaxPunches \in Nat /\ Interval < Timeout
    /\ MaxDials \in Nat \ {0} /\ MaxDrops \in Nat
BY PathAssumption, RelayAssumption

LEMMA LesserOf ==
    ASSUME NEW m \in Nat, NEW n \in Nat
    PROVE  Min({m, n}) = IF m <= n THEN m ELSE n
<1> DEFINE x == IF m <= n THEN m ELSE n
<1>1. x \in {m, n} /\ \A y \in {m, n} : x <= y
  OBVIOUS
<1>2. Min({m, n}) \in {m, n} /\ \A y \in {m, n} : Min({m, n}) <= y
  BY <1>1 DEF Min
<1> QED
  BY <1>2

LEMMA GreaterOf ==
    ASSUME NEW m \in Int, NEW n \in Int
    PROVE  Max({m, n}) = IF m >= n THEN m ELSE n
<1> DEFINE x == IF m >= n THEN m ELSE n
<1>1. x \in {m, n} /\ \A y \in {m, n} : x >= y
  OBVIOUS
<1>2. Max({m, n}) \in {m, n} /\ \A y \in {m, n} : Max({m, n}) >= y
  BY <1>1 DEF Max
<1> QED
  BY <1>2

LEMMA PathInitType == Init => PathTypeInv
<1> SUFFICES ASSUME Init PROVE PathTypeInv
  OBVIOUS
<1>1. 1 \in Dials /\ 1 \in 0..MaxDials /\ 0 \in 0..MaxDrops
  BY Bounds DEF Dials
<1>2. RelayTypeOK
  BY <1>1 DEF Init, RelayInit, RelayTypeOK, Handlers
<1>3. 1 \in Addresses /\ 0 \in 0..Cooldown /\ 0 \in 0..IdleTimeout /\ 0 \in 0..MaxPunches
  BY Bounds DEF Addresses
<1>4. NoAttempt \in Attempts /\ Due \in Reviews /\ NoRoute \in Routes
  BY DEF NoAttempt, Attempts, Due, Reviews, Routes
<1>5. TypeOK
  BY <1>2, <1>3, <1>4 DEF Init, TypeOK
<1> QED
  BY <1>5 DEF Init, Offered, PathTypeInv

LEMMA RestedType == RelayTypeOK /\ Rested => RelayTypeOK'
BY DEF RelayTypeOK, Rested

LEMMA RelayStandsType == RelayTypeOK /\ UNCHANGED relayVars => RelayTypeOK'
BY DEF RelayTypeOK, relayVars

LEMMA RelayNextType == RelayTypeOK /\ RelayNext => RelayTypeOK'
<1> SUFFICES ASSUME RelayTypeOK, RelayNext PROVE RelayTypeOK'
  OBVIOUS
<1> USE DEF RelayTypeOK, NoDial, Dials, Handlers
<1>1. ASSUME NEW d \in Devices, DialRelay(d) PROVE RelayTypeOK'
  <2>1. dialled[d] + 1 \in 1..MaxDials
    BY <1>1, Bounds DEF DialRelay
  <2> QED
    BY <1>1, <2>1 DEF DialRelay
<1>2. ASSUME NEW d \in Devices, RelayEnds(d) PROVE RelayTypeOK'
  BY <1>2, Bounds DEF RelayEnds
<1>3. ASSUME NEW d \in Devices, NEW g \in Dials, Register(d, g) PROVE RelayTypeOK'
  <2>1. {mailbox[d]} \ {NoDial} \subseteq Dials
    BY Bounds
  <2>2. shut' \in [Devices -> SUBSET Dials]
    BY <1>3, <2>1 DEF Register
  <2> QED
    BY <1>3, <2>2, Bounds DEF Register
<1>4. ASSUME NEW d \in Devices, NEW g \in Dials, Unregister(d, g) PROVE RelayTypeOK'
  BY <1>4, Bounds DEF Unregister
<1>5. ASSUME NEW d \in Devices, DropRelay(d) PROVE RelayTypeOK'
  BY <1>5, Bounds DEF DropRelay
<1> QED
  BY <1>1, <1>2, <1>3, <1>4, <1>5 DEF RelayNext, RelayRecovers

\* A probe changes candidates, what an attempt found, and how long routes were quiet.
LEMMA ProbeType ==
    ASSUME TypeOK, NEW d \in Devices, NEW t \in Tokens, NEW x, NEW answered \in BOOLEAN,
           Probe(d, t, x, answered)
    PROVE  route' \in [Devices -> Routes] /\ punch' \in [Devices -> [Tokens -> Attempts]]
<1>1. x \in Addresses /\ home[d] \in Addresses /\ Peer(d) \in Devices
  BY Ends DEF Probe, Lands, TypeOK
<1>2. ASSUME NEW ends, NEW rt, rt = Heard(route, ends) PROVE rt \in [Devices -> Routes]
  <2> SUFFICES ASSUME NEW e \in Devices, OnRoute(e) PROVE [route[e] EXCEPT !.quiet = 0] \in Routes
    BY <1>2 DEF Heard, TypeOK
  <2>1. route[e].addr # NoAddress
    BY Ends DEF OnRoute, TypeOK, Addresses, NoAddress
  <2>2. route[e] \in [addr : Addresses, token : Tokens, quiet : Quiet]
    BY <2>1 DEF TypeOK, Routes, NoRoute
  <2>3. 0 \in Quiet
    BY Bounds DEF Quiet
  <2> QED
    BY <2>2, <2>3 DEF Routes
<1>3. route' \in [Devices -> Routes]
  BY <1>2 DEF Probe
<1>4. ASSUME NEW f \in [Devices -> [Tokens -> Attempts]]
      PROVE  /\ [f EXCEPT ![Peer(d)][t].candidates = @ \cup {home[d]}]
                   \in [Devices -> [Tokens -> Attempts]]
             /\ [f EXCEPT ![d][t].found = x] \in [Devices -> [Tokens -> Attempts]]
  <2>1. \A e \in Devices : f[e][t] \in Attempts
    OBVIOUS
  <2>2. [f[Peer(d)][t] EXCEPT !.candidates = @ \cup {home[d]}] \in Attempts
    BY <1>1, <2>1 DEF Attempts
  <2>3. [f[d][t] EXCEPT !.found = x] \in Attempts
    BY <1>1, <2>1 DEF Attempts
  <2> QED
    BY <1>1, <2>2, <2>3
<1>5. punch \in [Devices -> [Tokens -> Attempts]]
  BY DEF TypeOK
<1>6. punch' \in [Devices -> [Tokens -> Attempts]]
  BY <1>4, <1>5 DEF Probe
<1> QED
  BY <1>3, <1>6

LEMMA AttemptType ==
    ASSUME TypeOK, NEW d \in Devices, NEW t \in Tokens, NEW a \in Attempts,
           punch' = [punch EXCEPT ![d][t] = a]
    PROVE  punch' \in [Devices -> [Tokens -> Attempts]]
BY DEF TypeOK

LEMMA SomeAttempts ==
    /\ Lingering \in Attempts /\ NoAttempt \in Attempts
    /\ \A x \in Addresses :
          [step |-> "spraying", candidates |-> {x}, found |-> NoAddress] \in Attempts
BY DEF Lingering, NoAttempt, Attempts

\* A message that comes to be on its way names where its sender is.
LEMMA PathNextType == PathTypeInv /\ [Next]_vars => PathTypeInv'
<1> SUFFICES ASSUME PathTypeInv, [Next]_vars PROVE PathTypeInv'
  OBVIOUS
<1>0. /\ TypeOK /\ Offered /\ RelayTypeOK
      /\ home \in [Devices -> Addresses]
      /\ exchange \in [Tokens -> {"unused", "asked", "answered", "read"}]
      /\ offer \in [Devices -> [Tokens -> Addresses \cup {NoAddress}]]
  BY DEF PathTypeInv, TypeOK
<1>r. UNCHANGED relayVars => RelayTypeOK'
  BY <1>0, RelayStandsType
<1>o. UNCHANGED <<exchange, offer>> => Offered'
  BY <1>0 DEF Offered
<1>1. ASSUME NEW t \in Tokens, Upgrade(t) PROVE PathTypeInv'
  <2>1. t \in 0..MaxPunches
    BY Bounds DEF Tokens
  <2>2. TypeOK'
    BY <1>0, <1>1, <1>r, <2>1, Ends DEF Upgrade, TypeOK
  <2>3. Offered'
    BY <1>0, <1>1, Ends DEF Upgrade, Offered
  <2> QED
    BY <2>2, <2>3 DEF PathTypeInv
<1>2. ASSUME NEW t \in Tokens, AnswerPunch(t) PROVE PathTypeInv'
  <2>1. offer[A][t] \in Addresses
    BY <1>0, <1>2 DEF AnswerPunch, Offered
  <2>2. punch' \in [Devices -> [Tokens -> Attempts]]
    BY <1>0, <1>2, <2>1, AttemptType, SomeAttempts, Ends DEF AnswerPunch, Spray
  <2>3. TypeOK'
    BY <1>0, <1>2, <1>r, <2>2, Ends DEF AnswerPunch, TypeOK
  <2>4. /\ offer'[B][t] = home[B]
        /\ \A u \in Tokens \ {t} : offer'[A][u] = offer[A][u] /\ offer'[B][u] = offer[B][u]
    BY <1>0, <1>2, Ends DEF AnswerPunch
  <2>5. Offered'
    BY <1>0, <1>2, <2>4, Ends DEF AnswerPunch, Offered
  <2> QED
    BY <2>3, <2>5 DEF PathTypeInv
<1>3. ASSUME NEW t \in Tokens, PunchReady(t) PROVE PathTypeInv'
  <2>1. offer[B][t] \in Addresses
    BY <1>0, <1>3 DEF PunchReady, Offered
  <2>2. punch' = punch \/ punch' = [punch EXCEPT ![A][t] =
                  [step |-> "spraying", candidates |-> {offer[B][t]}, found |-> NoAddress]]
    BY <1>3 DEF PunchReady, Spray
  <2>3. punch' \in [Devices -> [Tokens -> Attempts]]
    <3>1. CASE punch' = punch
      BY <1>0, <3>1 DEF TypeOK
    <3>2. CASE punch' # punch
      BY <1>0, <2>1, <2>2, <3>2, AttemptType, SomeAttempts, Ends
    <3> QED
      BY <3>1, <3>2
  <2>4. waiting' \in 0..MaxPunches
    BY <1>0, <1>3, Bounds DEF PunchReady, TypeOK
  <2>5. TypeOK'
    BY <1>0, <1>3, <1>r, <2>3, <2>4, Ends DEF PunchReady, TypeOK
  <2>6. Offered'
    BY <1>0, <1>3, Ends DEF PunchReady, Offered
  <2> QED
    BY <2>5, <2>6 DEF PathTypeInv
<1>4. CASE ReadyTimesOut
  <2>1. 0 \in 0..MaxPunches
    BY Bounds
  <2>2. TypeOK' /\ Offered'
    BY <1>0, <1>4, <1>r, <1>o, <2>1 DEF ReadyTimesOut, TypeOK
  <2> QED
    BY <2>2 DEF PathTypeInv
<1>5. ASSUME NEW d \in Devices, NEW t \in Tokens, ProbeCandidate(d, t) PROVE PathTypeInv'
  <2>1. route' \in [Devices -> Routes] /\ punch' \in [Devices -> [Tokens -> Attempts]]
    BY <1>0, <1>5, ProbeType DEF ProbeCandidate
  <2>2. TypeOK' /\ Offered'
    BY <1>0, <1>5, <1>r, <1>o, <2>1 DEF ProbeCandidate, TypeOK
  <2> QED
    BY <2>2 DEF PathTypeInv
<1>6. ASSUME NEW d \in Devices, NEW t \in Tokens, Promote(d, t) PROVE PathTypeInv'
  <2>1. punch' \in [Devices -> [Tokens -> Attempts]]
    BY <1>0, <1>6, AttemptType, SomeAttempts DEF Promote
  <2>2. punch[d][t] \in Attempts
    BY <1>0 DEF TypeOK
  <2>3. punch[d][t].found \in Addresses /\ 0 \in Quiet
    BY <1>6, <2>2, Bounds DEF Promote, Attempts, Quiet
  <2>4. [addr |-> punch[d][t].found, token |-> t, quiet |-> 0] \in Routes
    BY <2>3 DEF Routes
  <2>5. route' \in [Devices -> Routes]
    BY <1>0, <1>6, <2>4 DEF Promote, TypeOK
  <2>6. TypeOK' /\ Offered'
    BY <1>0, <1>6, <1>r, <1>o, <2>1, <2>5 DEF Promote, TypeOK
  <2> QED
    BY <2>6 DEF PathTypeInv
<1>7. ASSUME NEW d \in Devices, NEW t \in Tokens, PunchFails(d, t) \/ LingerEnds(d, t)
      PROVE  PathTypeInv'
  <2>1. punch' \in [Devices -> [Tokens -> Attempts]]
    BY <1>0, <1>7, AttemptType, SomeAttempts DEF PunchFails, LingerEnds
  <2>2. TypeOK' /\ Offered'
    BY <1>0, <1>7, <1>r, <1>o, <2>1 DEF PunchFails, LingerEnds, TypeOK
  <2> QED
    BY <2>2 DEF PathTypeInv
<1>8. ASSUME NEW d \in Devices, SweepReads(d) PROVE PathTypeInv'
  <2>1. route[d] \in Routes /\ Done \in Reviews
    BY <1>0 DEF TypeOK, Reviews, Done, Due
  <2>2. [step |-> "read", relay |-> attached[d] # NoDial, of |-> route[d]] \in Reviews
    BY <2>1 DEF Reviews
  <2>3. review' \in [Devices -> Reviews]
    BY <1>0, <1>8, <2>1, <2>2 DEF SweepReads, TypeOK
  <2>4. TypeOK' /\ Offered'
    BY <1>0, <1>8, <1>r, <1>o, <2>3 DEF SweepReads, TypeOK
  <2> QED
    BY <2>4 DEF PathTypeInv
<1>9. ASSUME NEW d \in Devices, SweepActs(d) PROVE PathTypeInv'
  <2>1. Done \in Reviews /\ NoRoute \in Routes /\ Cooldown \in 0..Cooldown
    <3>1. Done \in Reviews /\ NoRoute \in Routes
      BY DEF Reviews, Done, Due, Routes
    <3> QED
      BY <3>1, Bounds
  <2>2. review' \in [Devices -> Reviews]
    BY <1>0, <1>9, <2>1 DEF SweepActs, TypeOK
  <2>3. /\ route' \in [Devices -> Routes] /\ cooldown' \in [Devices -> 0..Cooldown]
        /\ punch' \in [Devices -> [Tokens -> Attempts]]
    <3>1. CASE Demote(d) /\ UNCHANGED punch
      BY <1>0, <2>1, <3>1 DEF Demote, TypeOK
    <3>2. CASE UNCHANGED <<route, cooldown, punch>>
      BY <1>0, <3>2 DEF TypeOK
    <3>3. CASE /\ review[d].of.quiet > Interval /\ UNCHANGED cooldown
               /\ \E answered \in BOOLEAN :
                     Probe(d, review[d].of.token, review[d].of.addr, answered)
      <4>1. review[d] \in Reviews /\ review[d].step = "read"
        BY <1>0, <1>9 DEF SweepActs, TypeOK
      <4>2. review[d].of \in Routes
        BY <4>1 DEF Reviews
      <4>3. review[d].of.token \in Tokens
        BY <3>3, <4>2, Bounds DEF Routes, NoRoute
      <4>4. route' \in [Devices -> Routes] /\ punch' \in [Devices -> [Tokens -> Attempts]]
        BY <1>0, <3>3, <4>3, ProbeType
      <4> QED
        BY <1>0, <3>3, <4>4 DEF TypeOK
    <3> QED
      BY <1>9, <3>1, <3>2, <3>3 DEF SweepActs
  <2>4. TypeOK' /\ Offered'
    BY <1>0, <1>9, <1>r, <1>o, <2>2, <2>3 DEF SweepActs, TypeOK
  <2> QED
    BY <2>4 DEF PathTypeInv
<1>10. CASE Tick
  <2>1. RelayTypeOK'
    BY <1>0, <1>10, RestedType DEF Tick
  <2>2. route' \in [Devices -> Routes]
    <3> SUFFICES ASSUME NEW d \in Devices, HasRoute(d),
                        NEW n \in {0, Min({route[d].quiet + 1, Timeout + 1})}
                 PROVE  [route[d] EXCEPT !.quiet = n] \in Routes
      BY <1>10 DEF Tick, Routes
    <3>1. route[d] \in [addr : Addresses, token : Tokens, quiet : Quiet]
      BY <1>0 DEF HasRoute, TypeOK, Routes, NoRoute
    <3>2. route[d].quiet + 1 \in Nat /\ Timeout + 1 \in Nat
      BY <3>1, Bounds DEF Quiet
    <3>3. n \in Quiet
      BY <3>2, LesserOf, Bounds DEF Quiet
    <3> QED
      BY <3>1, <3>3 DEF Routes
  <2>3. silence' \in [Devices -> 0..IdleTimeout]
    <3> SUFFICES ASSUME NEW d \in Devices
                 PROVE  /\ 0 \in 0..IdleTimeout
                        /\ Min({silence[d] + 1, IdleTimeout}) \in 0..IdleTimeout
      BY <1>10 DEF Tick
    <3>1. silence[d] + 1 \in Nat
      BY <1>0, Bounds DEF TypeOK
    <3> QED
      BY <3>1, LesserOf, Bounds
  <2>4. cooldown' \in [Devices -> 0..Cooldown]
    <3> SUFFICES ASSUME NEW d \in Devices PROVE Max({cooldown[d] - 1, 0}) \in 0..Cooldown
      BY <1>10 DEF Tick
    <3>1. cooldown[d] \in 0..Cooldown
      BY <1>0 DEF TypeOK
    <3> QED
      BY <3>1, GreaterOf, Bounds
  <2>5. review' \in [Devices -> Reviews]
    BY <1>10 DEF Tick, Reviews, Due
  <2>6. punch' \in [Devices -> [Tokens -> Attempts]]
    <3> SUFFICES ASSUME NEW d \in Devices, NEW t \in Tokens
                 PROVE  /\ [punch[d][t] EXCEPT !.step = "late"] \in Attempts
                        /\ punch[d][t] \in Attempts
      BY <1>10 DEF Tick
    <3>1. punch[d][t] \in Attempts
      BY <1>0 DEF TypeOK
    <3> QED
      BY <3>1 DEF Attempts
  <2>7. TypeOK' /\ Offered'
    BY <1>0, <1>10, <1>o, <2>1, <2>2, <2>3, <2>4, <2>5, <2>6 DEF Tick, TypeOK
  <2> QED
    BY <2>7 DEF PathTypeInv
<1>11. ASSUME NEW d \in Devices, Move(d) PROVE PathTypeInv'
  <2>1. home[A] \in 1..(MaxMoves + 1) /\ home[B] \in 1..(MaxMoves + 1) /\ d \in {A, B}
    BY <1>0, Ends DEF Addresses
  <2>2. home[d] + 1 \in Addresses
    BY <1>11, <2>1, Bounds DEF Move, Addresses
  <2>3. TypeOK' /\ Offered'
    BY <1>0, <1>11, <1>r, <1>o, <2>2 DEF Move, TypeOK
  <2> QED
    BY <2>3 DEF PathTypeInv
<1>12. ASSUME NEW d \in Devices, Block(d) PROVE PathTypeInv'
  <2>1. TypeOK' /\ Offered'
    BY <1>0, <1>12, <1>r, <1>o DEF Block, TypeOK
  <2> QED
    BY <2>1 DEF PathTypeInv
<1>13. CASE RelayNext /\ UNCHANGED pathVars
  <2>1. TypeOK' /\ Offered'
    BY <1>0, <1>13, <1>o, RelayNextType DEF pathVars, TypeOK
  <2> QED
    BY <2>1 DEF PathTypeInv
<1>14. CASE UNCHANGED vars
  <2>1. TypeOK' /\ Offered'
    BY <1>0, <1>14, <1>r, <1>o DEF vars, pathVars, TypeOK
  <2> QED
    BY <2>1 DEF PathTypeInv
<1> QED
  BY <1>1, <1>2, <1>3, <1>4, <1>5, <1>6, <1>7, <1>8, <1>9, <1>10, <1>11, <1>12, <1>13, <1>14
     DEF Next, Signalling, Punching, Sweeping, Network

\* The routes, copies, messages and attempts of both ends, and the relay's connections,
\* have their types, whatever moves, is lost or is blocked.
THEOREM PathTypeCorrect == Spec => []TypeOK
<1>1. PathTypeInv => TypeOK
  BY DEF PathTypeInv
<1> QED
  BY <1>1, PathInitType, PathNextType, PTL DEF Spec

----------------------------------------------------------------------------
(* Path: one move.                                                          *)

LEMMA Numerals ==
    ASSUME TypeOK, NEW p \in Devices
    PROVE  /\ home[p] \in Nat \ {0} /\ silence[p] \in Nat /\ silence[p] <= IdleTimeout
           /\ route[p].quiet \in Nat /\ route[p].quiet <= Timeout + 1
           /\ review[p].step = "read" => review[p].of.quiet \in Nat
<1>1. home[p] \in Addresses /\ silence[p] \in 0..IdleTimeout
      /\ route[p] \in Routes /\ review[p] \in Reviews
  BY DEF TypeOK
<1>2. \A r \in Routes : r.quiet \in Nat /\ r.quiet <= Timeout + 1
  BY Bounds DEF Routes, NoRoute, Quiet
<1>3. review[p].step = "read" => review[p].of \in Routes
  BY <1>1 DEF Reviews
<1> QED
  BY <1>1, <1>2, <1>3, Bounds DEF Addresses

\* What an end may see done to its route and its attempts without noticing: traffic on
\* a route that works, and an answer from where the peer is.
Unnoticed(p) ==
    /\ UNCHANGED <<home, silence>> /\ review'[p] = review[p]
    /\ \/ route'[p] = route[p]
       \/ OnRoute(p) /\ route'[p] = [route[p] EXCEPT !.quiet = 0]
    /\ \A t \in Tokens :
          Outdated(p, t)' => Outdated(p, t) /\ punch'[p][t].step = punch[p][t].step

LEMMA UnnoticedKeeps ==
    ASSUME TypeOK, NEW p \in Devices, Watched(p), Unnoticed(p),
           UNCHANGED <<attached, resting>>
    PROVE  Watched(p)'
<1>0. Peer(p) \in Devices
  BY Ends
<1>1. UNCHANGED <<home, silence, attached, resting>> /\ review'[p] = review[p]
  BY DEF Unnoticed
<1>2. /\ Stale(p)' => Stale(p) /\ route'[p] = route[p]
      /\ HasRoute(p)' => HasRoute(p) /\ route'[p].quiet <= route[p].quiet
  <2>1. route[p].quiet \in Nat /\ home[Peer(p)] # NoAddress
    BY <1>0, Numerals DEF NoAddress
  <2>2. CASE route'[p] = route[p]
    BY <1>1, <2>1, <2>2 DEF Stale, HasRoute, OnRoute
  <2>3. CASE OnRoute(p) /\ route'[p] = [route[p] EXCEPT !.quiet = 0]
    <3>1. route[p] \in Routes
      BY DEF TypeOK
    <3>2. route'[p].addr = route[p].addr /\ route'[p].quiet = 0
      BY <2>3, <3>1 DEF Routes, NoRoute
    <3> QED
      BY <1>1, <2>1, <2>3, <3>2 DEF Stale, HasRoute, OnRoute
  <2> QED
    BY <2>2, <2>3 DEF Unnoticed
<1>3. Still(p)' /\ Fleeting(p)'
  BY <1>1, <1>2 DEF Watched, Still, Fleeting, Unnoticed
<1>4. Dialling(p)' /\ Bounded(p)' /\ (Excused(p)' <=> Excused(p))
  BY <1>1 DEF Watched, Dialling, Bounded, Excused
<1>5. Noticed(p)' /\ Abandoned(p)'
  BY <1>1, <1>2, <1>4 DEF Watched, Noticed, Abandoned
<1>6. Copied(p)'
  <2> SUFFICES ASSUME review[p].step = "read", HasRoute(p)'
               PROVE  route'[p].quiet <= review[p].of.quiet
    BY <1>1 DEF Copied
  <2>1. route'[p].quiet <= route[p].quiet /\ route[p].quiet <= review[p].of.quiet
    BY <1>2 DEF Watched, Copied
  <2>2. route[p].quiet \in Nat /\ review[p].of.quiet \in Nat
    BY Numerals
  <2>3. route'[p].quiet \in Nat
    BY <2>2 DEF Unnoticed, TypeOK, Routes, NoRoute
  <2> QED
    BY <2>1, <2>2, <2>3
<1> QED
  BY <1>3, <1>4, <1>5, <1>6 DEF Watched

LEMMA ProbeLeaves ==
    ASSUME TypeOK, NEW d \in Devices, NEW t \in Tokens, NEW x, NEW answered \in BOOLEAN,
           Probe(d, t, x, answered), NEW p \in Devices, UNCHANGED home
    PROVE  /\ \/ route'[p] = route[p]
              \/ OnRoute(p) /\ route'[p] = [route[p] EXCEPT !.quiet = 0]
           /\ \A u \in Tokens :
                 Outdated(p, u)' => Outdated(p, u) /\ punch'[p][u].step = punch[p][u].step
<1>0. Peer(d) \in Devices /\ Peer(d) # d
  BY Ends
<1>1. \/ route'[p] = route[p]
      \/ OnRoute(p) /\ route'[p] = [route[p] EXCEPT !.quiet = 0]
  BY DEF Probe, Heard
<1>2. ASSUME NEW u \in Tokens
      PROVE  /\ punch'[p][u].step = punch[p][u].step
             /\ punch'[p][u].found \in {punch[p][u].found, home[Peer(p)]}
  <2> DEFINE learnt == IF Spraying(Peer(d), t)
                         THEN [punch EXCEPT ![Peer(d)][t].candidates = @ \cup {home[d]}]
                         ELSE punch
  <2>1. punch \in [Devices -> [Tokens -> Attempts]]
    BY DEF TypeOK
  <2>2. /\ learnt \in [Devices -> [Tokens -> Attempts]]
        /\ learnt[p][u].step = punch[p][u].step /\ learnt[p][u].found = punch[p][u].found
    <3>1. home[d] \in Addresses
      BY DEF TypeOK
    <3>2. punch[Peer(d)][t] \in Attempts /\ punch[p][u] \in Attempts
      BY <1>0, <2>1
    <3>3. [punch[Peer(d)][t] EXCEPT !.candidates = @ \cup {home[d]}] \in Attempts
      BY <3>1, <3>2 DEF Attempts
    <3>4. learnt \in [Devices -> [Tokens -> Attempts]]
      BY <1>0, <2>1, <3>3
    <3>5. \/ learnt[p][u] = punch[p][u]
          \/ learnt[p][u] = [punch[p][u] EXCEPT !.candidates = @ \cup {home[d]}]
      BY <1>0, <2>1
    <3> QED
      BY <3>2, <3>4, <3>5 DEF Attempts
  <2>3. punch' = learnt \/ punch' = [learnt EXCEPT ![d][t].found = x]
    BY DEF Probe
  <2>4. x = home[Peer(d)]
    BY DEF Probe, Lands
  <2> HIDE DEF learnt
  <2>5. CASE punch' = learnt
    BY <2>2, <2>5
  <2>6. CASE punch' = [learnt EXCEPT ![d][t].found = x]
    <3>1. \/ punch'[p][u] = learnt[p][u]
          \/ p = d /\ punch'[p][u] = [learnt[p][u] EXCEPT !.found = x]
      BY <2>2, <2>6
    <3>2. learnt[p][u] \in Attempts
      BY <2>2
    <3> QED
      BY <2>2, <2>4, <3>1, <3>2 DEF Attempts
  <2> QED
    BY <2>3, <2>5, <2>6
<1>3. \A u \in Tokens :
         Outdated(p, u)' => Outdated(p, u) /\ punch'[p][u].step = punch[p][u].step
  BY <1>2 DEF Outdated, Found, Spraying
<1> QED
  BY <1>1, <1>3

\* An attempt that ends, and one that begins, has found nothing.
LEMMA AttemptIsUnnoticed ==
    ASSUME TypeOK, NEW d \in Devices, NEW t \in Tokens, NEW a, NEW p \in Devices,
           a.found = NoAddress, punch' = [punch EXCEPT ![d][t] = a],
           UNCHANGED <<home, silence>>, review'[p] = review[p], route'[p] = route[p]
    PROVE  Unnoticed(p)
<1>1. ASSUME NEW u \in Tokens
      PROVE  punch'[p][u] = punch[p][u] \/ punch'[p][u].found = NoAddress
  BY DEF TypeOK
<1>2. \A u \in Tokens :
         Outdated(p, u)' => Outdated(p, u) /\ punch'[p][u].step = punch[p][u].step
  BY <1>1 DEF Outdated, Found, Spraying
<1> QED
  BY <1>2 DEF Unnoticed

LEMMA NothingIsUnnoticed ==
    ASSUME NEW p, UNCHANGED <<home, silence, punch>>,
           review'[p] = review[p], route'[p] = route[p]
    PROVE  Unnoticed(p)
BY DEF Unnoticed, Outdated, Found, Spraying

LEMMA PathInitMove == Init => MoveInv
<1> SUFFICES ASSUME Init, NEW p \in Devices PROVE Watched(p)
  BY DEF MoveInv, Followed
<1>1. /\ Peer(p) \in Devices /\ home[p] = 1 /\ home[Peer(p)] = 1 /\ silence[Peer(p)] = 0
      /\ route[p] = NoRoute /\ review[p] = Due /\ attached[p] = 1 /\ resting = {}
      /\ \A t \in Tokens : punch[p][t] = NoAttempt
  BY Ends DEF Init, RelayInit
<1>2. ~HasRoute(p) /\ \A t \in Tokens : ~Outdated(p, t)
  BY <1>1 DEF HasRoute, NoRoute, NoAddress, Outdated, Found, Spraying, NoAttempt
<1>3. Still(p) /\ Fleeting(p) /\ Noticed(p) /\ Copied(p) /\ Abandoned(p)
  BY <1>1, <1>2 DEF Still, Fleeting, Noticed, Copied, Abandoned, Stale
<1>4. Dialling(p) /\ Bounded(p)
  BY <1>1, Bounds DEF Dialling, Bounded, NoDial
<1> QED
  BY <1>3, <1>4 DEF Watched

\* The end that promotes, sweeps or reads its route.
LEMMA PromoteKeeps ==
    ASSUME TypeOK, NEW p \in Devices, NEW t \in Tokens, Watched(p), Promote(p, t)
    PROVE  Watched(p)'
<1>1. /\ UNCHANGED <<home, silence, review, attached, resting>>
      /\ Spraying(p, t) /\ punch[p][t].found # NoAddress
      /\ route'[p] = [addr |-> punch[p][t].found, token |-> t, quiet |-> 0]
  BY DEF Promote, relayVars, TypeOK
<1>2. punch' = [punch EXCEPT ![p][t] = Lingering] /\ punch \in [Devices -> [Tokens -> Attempts]]
  BY DEF Promote, TypeOK
<1>3. \A u \in Tokens : punch'[p][u] = punch[p][u] \/ punch'[p][u].step = "lingering"
  BY <1>2 DEF Lingering, NoAttempt
<1>4. \A u \in Tokens :
         Outdated(p, u)' => Outdated(p, u) /\ punch'[p][u].step = punch[p][u].step
  BY <1>1, <1>3 DEF Outdated, Found, Spraying
<1>5. route'[p].quiet = 0 /\ (Stale(p)' => Outdated(p, t))
  BY <1>1 DEF Stale, HasRoute, OnRoute, Outdated, Found
<1>6. Still(p)' /\ Fleeting(p)' /\ Dialling(p)' /\ Bounded(p)'
  BY <1>1, <1>4, <1>5 DEF Watched, Still, Fleeting, Dialling, Bounded, Excused
<1>7. Noticed(p)'
  <2>1. silence[Peer(p)] \in Nat
    BY Numerals, Ends
  <2>2. Stale(p)' => silence[Peer(p)] <= 1
    BY <1>5, <2>1 DEF Watched, Fleeting
  <2> QED
    BY <1>1, <1>5, <2>2 DEF Noticed
<1>8. Copied(p)' /\ Abandoned(p)'
  <2>1. review[p].step = "read" => review[p].of.quiet \in Nat
    BY Numerals
  <2> QED
    BY <1>1, <1>5, <2>1, Bounds DEF Copied, Abandoned
<1> QED
  BY <1>6, <1>7, <1>8 DEF Watched

LEMMA ReadKeeps ==
    ASSUME TypeOK, NEW p \in Devices, Watched(p), SweepReads(p)
    PROVE  Watched(p)'
<1>1. /\ UNCHANGED <<home, silence, punch, route, attached, resting>>
      /\ review'[p] = IF HasRoute(p)
                        THEN [step |-> "read", relay |-> attached[p] # NoDial, of |-> route[p]]
                        ELSE Done
  BY DEF SweepReads, relayVars, TypeOK
<1>2. /\ \A t \in Tokens : /\ Outdated(p, t)' <=> Outdated(p, t)
                           /\ punch'[p][t].step = punch[p][t].step
      /\ (Stale(p)' <=> Stale(p)) /\ (HasRoute(p)' <=> HasRoute(p))
      /\ (Excused(p)' <=> Excused(p)) /\ (Stale(p) => HasRoute(p))
  BY <1>1 DEF Outdated, Found, Spraying, Stale, HasRoute, OnRoute, Excused
<1>3. Still(p)' /\ Fleeting(p)' /\ Dialling(p)' /\ Bounded(p)' /\ Noticed(p)'
  BY <1>1, <1>2 DEF Watched, Still, Fleeting, Dialling, Bounded, Noticed
<1>4. route[p].quiet \in Nat
  BY Numerals
<1>5. Copied(p)'
  BY <1>1, <1>2, <1>4 DEF Copied, Done, Due
<1>6. Abandoned(p)'
  <2> SUFFICES ASSUME HasRoute(p), ~review'[p].relay PROVE Excused(p)
    BY <1>1, <1>2 DEF Abandoned, Done, Due
  <2>1. review'[p] = [step |-> "read", relay |-> attached[p] # NoDial, of |-> route[p]]
    BY <1>1
  <2>2. CASE attached[p] # NoDial
    <3>1. review'[p].relay = (attached[p] # NoDial)
      BY <2>1
    <3> QED
      BY <2>2, <3>1
  <2>3. CASE attached[p] = NoDial
    BY <2>3 DEF Watched, Dialling
  <2> QED
    BY <2>2, <2>3
<1> QED
  BY <1>3, <1>5, <1>6 DEF Watched

LEMMA ActKeeps ==
    ASSUME TypeOK, NEW p \in Devices, Watched(p), SweepActs(p)
    PROVE  Watched(p)'
<1>1. /\ UNCHANGED <<home, silence, attached, resting>>
      /\ review[p].step = "read" /\ review'[p] = Done
  BY DEF SweepActs, relayVars, TypeOK
<1>2. Excused(p)' <=> Excused(p)
  BY <1>1 DEF Excused
<1>3. Dialling(p)' /\ Bounded(p)' /\ Copied(p)'
  BY <1>1, <1>2 DEF Watched, Dialling, Bounded, Copied, Done, Due
<1>4. CASE Demote(p) /\ UNCHANGED punch
  <2>1. ~HasRoute(p)'
    BY <1>4 DEF Demote, HasRoute, NoRoute, TypeOK
  <2>2. \A t \in Tokens : /\ Outdated(p, t)' <=> Outdated(p, t)
                          /\ punch'[p][t].step = punch[p][t].step
    BY <1>1, <1>4 DEF Outdated, Found, Spraying
  <2>3. Still(p)' /\ Fleeting(p)' /\ Noticed(p)' /\ Abandoned(p)'
    BY <1>1, <2>1, <2>2 DEF Watched, Still, Fleeting, Noticed, Abandoned, Stale
  <2> QED
    BY <1>3, <2>3 DEF Watched
<1>5. ASSUME ~Dead(review[p]),
             \/ route'[p] = route[p]
             \/ OnRoute(p) /\ route'[p] = [route[p] EXCEPT !.quiet = 0],
             \A t \in Tokens :
                Outdated(p, t)' => Outdated(p, t) /\ punch'[p][t].step = punch[p][t].step
      PROVE  Watched(p)'
  <2>1. Stale(p)' => Stale(p) /\ route'[p] = route[p] /\ HasRoute(p)
    <3>1. CASE route'[p] = route[p]
      BY <1>1, <3>1 DEF Stale, HasRoute, OnRoute
    <3>2. CASE OnRoute(p) /\ route'[p] = [route[p] EXCEPT !.quiet = 0]
      <4>1. route[p] \in Routes
        BY DEF TypeOK
      <4>2. route'[p].addr = route[p].addr
        BY <3>2, <4>1 DEF Routes, NoRoute
      <4> QED
        BY <1>1, <3>2, <4>2 DEF Stale, OnRoute
    <3> QED
      BY <1>5, <3>1, <3>2
  <2>2. Still(p)' /\ Fleeting(p)' /\ Noticed(p)'
    BY <1>1, <1>5, <2>1 DEF Watched, Still, Fleeting, Noticed
  <2>3. ASSUME Stale(p)', route'[p].quiet > Timeout PROVE Excused(p)
    <3>1. Stale(p) /\ HasRoute(p) /\ route[p].quiet > Timeout
      BY <2>1, <2>3
    <3>2. route[p].quiet <= review[p].of.quiet
      BY <1>1, <3>1 DEF Watched, Copied
    <3>3. review[p].of.quiet > Timeout
      BY <1>1, <3>1, <3>2, Numerals, Bounds
    <3>4. ~review[p].relay
      BY <1>5, <3>3 DEF Dead
    <3> QED
      BY <1>1, <3>1, <3>4 DEF Watched, Abandoned
  <2>4. Abandoned(p)'
    BY <1>2, <2>3 DEF Abandoned
  <2> QED
    BY <1>3, <2>2, <2>4 DEF Watched
<1>6. CASE ~Dead(review[p]) /\ UNCHANGED <<route, cooldown, punch>>
  <2>1. \A t \in Tokens :
           Outdated(p, t)' => Outdated(p, t) /\ punch'[p][t].step = punch[p][t].step
    BY <1>1, <1>6 DEF Outdated, Found, Spraying
  <2> QED
    BY <1>5, <1>6, <2>1
<1>7. ASSUME ~Dead(review[p]), review[p].of.quiet > Interval, NEW answered \in BOOLEAN,
             Probe(p, review[p].of.token, review[p].of.addr, answered)
      PROVE  Watched(p)'
  <2>1. review[p].of.token \in Tokens
    <3>1. review[p] \in Reviews
      BY DEF TypeOK
    <3>2. review[p].of \in Routes
      BY <1>1, <3>1 DEF Reviews
    <3> QED
      BY <1>7, <3>2, Bounds DEF Routes, NoRoute
  <2>2. /\ \/ route'[p] = route[p]
           \/ OnRoute(p) /\ route'[p] = [route[p] EXCEPT !.quiet = 0]
        /\ \A t \in Tokens :
              Outdated(p, t)' => Outdated(p, t) /\ punch'[p][t].step = punch[p][t].step
    BY <1>1, <1>7, <2>1, ProbeLeaves
  <2> QED
    BY <1>5, <1>7, <2>2
<1> QED
  BY <1>1, <1>4, <1>6, <1>7 DEF SweepActs

\* A tick over a route that reaches the peer, or over the relay, is not silent; over a
\* route that does not, both the route and the silence grow older.
LEMMA TickKeeps ==
    ASSUME TypeOK, NEW p \in Devices, Watched(p), Tick, blocked = {}
    PROVE  Watched(p)'
<1>0. Peer(p) \in Devices /\ Peer(Peer(p)) = p
  BY Ends
<1>n. /\ silence[Peer(p)] \in Nat /\ route[p].quiet \in Nat /\ home[Peer(p)] \in Nat \ {0}
      /\ route[p].quiet <= Timeout + 1
  BY <1>0, Numerals
<1>1. /\ UNCHANGED <<home, attached>> /\ resting' = {}
      /\ review[p].step = "done" /\ review'[p].step = "due"
  BY DEF Tick, Rested, Due
<1>2. /\ silence'[Peer(p)] = IF Reaches(p) \/ ~RelayWorks
                               THEN 0 ELSE Min({silence[Peer(p)] + 1, IdleTimeout})
      /\ silence'[Peer(p)] \in Nat /\ silence'[Peer(p)] <= silence[Peer(p)] + 1
  <2>1. silence'[Peer(p)] = IF Reaches(p) \/ ~RelayWorks
                              THEN 0 ELSE Min({silence[Peer(p)] + 1, IdleTimeout})
    BY <1>0 DEF Tick
  <2>2. Min({silence[Peer(p)] + 1, IdleTimeout}) \in Nat
        /\ Min({silence[Peer(p)] + 1, IdleTimeout}) <= silence[Peer(p)] + 1
    BY <1>n, LesserOf, Bounds
  <2> QED
    BY <1>n, <2>1, <2>2
<1>3. ~RelayWorks => silence'[Peer(p)] = 0
  BY <1>2
<1>4. attached[p] = NoDial => ~RelayWorks
  BY DEF RelayWorks, RelayCarries
<1>5. route'[p] = IF ~HasRoute(p) THEN NoRoute
                  ELSE [route[p] EXCEPT !.quiet = IF Fed(p) THEN 0
                                                  ELSE Min({@ + 1, Timeout + 1})]
  BY DEF Tick
<1>6. ~Stale(p) => silence'[Peer(p)] = 0
  <2> SUFFICES ASSUME ~Stale(p) PROVE Reaches(p) \/ ~RelayWorks
    BY <1>2
  <2>1. CASE ~HasRoute(p)
    BY <2>1 DEF Reaches, RelayWorks
  <2>2. CASE HasRoute(p)
    BY <2>2 DEF Stale, OnRoute, Reaches, Lands
  <2> QED
    BY <2>1, <2>2
<1>7. Stale(p)' => Stale(p)
  <2>1. CASE ~HasRoute(p)
    BY <1>5, <2>1 DEF Stale, HasRoute, NoRoute
  <2>2. CASE HasRoute(p)
    <3>1. route[p] \in Routes
      BY DEF TypeOK
    <3>2. route'[p].addr = route[p].addr
      BY <1>5, <2>2, <3>1 DEF Routes, NoRoute
    <3> QED
      BY <1>1, <2>2, <3>2 DEF Stale, OnRoute
  <2> QED
    BY <2>1, <2>2
<1>8. Stale(p) => /\ silence'[Peer(p)] <= route'[p].quiet + 1
                  /\ silence'[Peer(p)] <= Timeout + 2
  <2> SUFFICES ASSUME Stale(p) PROVE /\ silence'[Peer(p)] <= route'[p].quiet + 1
                                     /\ silence'[Peer(p)] <= Timeout + 2
    OBVIOUS
  <2>1. route'[p] = [route[p] EXCEPT !.quiet = Min({@ + 1, Timeout + 1})]
    BY <1>5 DEF Stale, Fed
  <2>2. route'[p].quiet = Min({route[p].quiet + 1, Timeout + 1})
    <3>1. route[p] \in Routes
      BY DEF TypeOK
    <3> QED
      BY <2>1, <3>1 DEF Routes, NoRoute
  <2>3. CASE route[p].quiet <= Timeout
    <3>0. route[p].quiet + 1 \in Nat /\ Timeout + 1 \in Nat
          /\ route[p].quiet + 1 <= Timeout + 1
      BY <1>n, <2>3, Bounds
    <3>1. route'[p].quiet = route[p].quiet + 1
      BY <2>2, <3>0, LesserOf
    <3>2. silence[Peer(p)] <= route[p].quiet + 1
      BY DEF Watched, Noticed
    <3>3. silence'[Peer(p)] <= route[p].quiet + 2
      BY <1>n, <1>2, <3>2
    <3> QED
      BY <1>n, <1>2, <2>3, <3>1, <3>3, Bounds
  <2>4. CASE route[p].quiet > Timeout
    <3>0. route[p].quiet + 1 \in Nat /\ Timeout + 1 \in Nat
          /\ ~(route[p].quiet + 1 <= Timeout + 1)
      BY <1>n, <2>4, Bounds
    <3>1. route'[p].quiet \in Nat
      BY <2>2, <3>0, LesserOf
    <3>2. Excused(p)
      BY <1>1, <2>4 DEF Watched, Abandoned
    <3>3. CASE p \in resting
      BY <1>3, <1>4, <3>1, <3>3, Bounds DEF Watched, Dialling
    <3>4. CASE silence[Peer(p)] = 0
      BY <1>2, <3>1, <3>4, Bounds
    <3> QED
      BY <3>2, <3>3, <3>4 DEF Excused
  <2> QED
    BY <1>n, <2>3, <2>4, Bounds
<1>9. ASSUME NEW t \in Tokens, Outdated(p, t)'
      PROVE  Outdated(p, t) /\ punch[p][t].step = "spraying" /\ punch'[p][t].step = "late"
  <2>1. punch[p][t] \in Attempts /\ punch[p][t].step # "late"
    BY DEF Tick, TypeOK
  <2>2. punch'[p][t] = IF punch[p][t].step = "spraying"
                         THEN [punch[p][t] EXCEPT !.step = "late"] ELSE punch[p][t]
    BY DEF Tick
  <2>3. punch[p][t].step = "spraying"
    BY <1>9, <2>1, <2>2 DEF Outdated, Found, Spraying
  <2>4. punch'[p][t].step = "late" /\ punch'[p][t].found = punch[p][t].found
    BY <2>1, <2>2, <2>3 DEF Attempts
  <2> QED
    BY <1>1, <1>9, <2>3, <2>4 DEF Outdated, Found, Spraying
<1>10. Still(p)'
  BY <1>1, <1>6, <1>7, <1>9 DEF Watched, Still
<1>11. Fleeting(p)'
  <2> SUFFICES ASSUME NEW t \in Tokens, Outdated(p, t)'
               PROVE  punch'[p][t].step = "late" /\ silence'[Peer(p)] <= 1
    BY DEF Fleeting
  <2>1. silence[Peer(p)] <= 0
    BY <1>9 DEF Watched, Fleeting
  <2> QED
    BY <1>n, <1>2, <1>9, <2>1
<1>12. Dialling(p)' /\ Copied(p)' /\ Abandoned(p)'
  BY <1>1, <1>3, <1>4 DEF Dialling, Excused, Copied, Abandoned
<1>13. Noticed(p)' /\ Bounded(p)'
  BY <1>6, <1>7, <1>8, Bounds DEF Noticed, Bounded
<1> QED
  BY <1>10, <1>11, <1>12, <1>13 DEF Watched

\* The first move of the peer finds nothing silent and nothing stale.
LEMMA MoveKeeps ==
    ASSUME TypeOK, NEW p \in Devices, Watched(p), NEW d \in Devices, Move(d),
           home'[Peer(p)] <= 2
    PROVE  Watched(p)'
<1>0. Peer(p) \in Devices
  BY Ends
<1>1. UNCHANGED <<silence, punch, route, review, attached, resting>>
  BY DEF Move, relayVars
<1>2. CASE d = Peer(p)
  <2>1. home[A] \in Nat \ {0} /\ home[B] \in Nat \ {0} /\ d \in {A, B}
    BY Numerals, Ends
  <2>2. home[d] = 1 /\ home'[d] = 2
    <3>1. home'[d] = home[d] + 1 /\ home'[d] <= 2
      BY <1>2 DEF Move, TypeOK
    <3>2. home[d] \in Nat /\ home[d] # 0
      BY <2>1
    <3> QED
      BY <3>1, <3>2
  <2>3. silence[Peer(p)] = 0
    BY <1>2, <2>2 DEF Watched, Still
  <2>4. Still(p)' /\ Fleeting(p)' /\ Dialling(p)' /\ Bounded(p)' /\ Abandoned(p)'
    BY <1>1, <1>2, <2>2, <2>3, Bounds
       DEF Watched, Still, Fleeting, Dialling, Bounded, Abandoned, Excused
  <2>5. Noticed(p)' /\ Copied(p)'
    <3>1. route[p].quiet \in Nat
      BY Numerals
    <3> QED
      BY <1>1, <2>3, <3>1 DEF Watched, Noticed, Copied, HasRoute
  <2> QED
    BY <2>4, <2>5 DEF Watched
<1>3. CASE d # Peer(p)
  <2>1. home'[Peer(p)] = home[Peer(p)]
    BY <1>0, <1>3 DEF Move, TypeOK
  <2>2. /\ (Stale(p)' <=> Stale(p)) /\ (HasRoute(p)' <=> HasRoute(p))
        /\ (Excused(p)' <=> Excused(p)) /\ \A t \in Tokens : Outdated(p, t)' <=> Outdated(p, t)
    BY <1>1, <2>1 DEF Stale, HasRoute, OnRoute, Excused, Outdated, Found, Spraying
  <2> QED
    BY <1>1, <2>1, <2>2
       DEF Watched, Still, Fleeting, Dialling, Noticed, Copied, Abandoned, Bounded
<1> QED
  BY <1>2, <1>3

\* A connection that is lost makes its device wait; one that is made is not excused.
LEMMA RelayKeeps ==
    ASSUME TypeOK, NEW p \in Devices, Watched(p), RelayNext, UNCHANGED pathVars
    PROVE  Watched(p)'
<1>1. UNCHANGED <<home, silence, punch, route, review>>
  BY DEF pathVars
<1>2. attached \in [Devices -> 0..MaxDials] /\ resting \in SUBSET Devices
      /\ dialled \in [Devices -> 0..MaxDials]
  BY DEF TypeOK, RelayTypeOK
<1>3. resting \subseteq resting' /\ Dialling(p)'
  <2>1. ASSUME NEW d \in Devices, DialRelay(d) PROVE resting \subseteq resting' /\ Dialling(p)'
    <3>1. resting' = resting /\ d \notin resting
          /\ attached' = [attached EXCEPT ![d] = dialled[d] + 1] /\ dialled[d] + 1 # NoDial
      BY <1>2, <2>1, Bounds DEF DialRelay, NoDial
    <3>2. CASE p = d
      BY <1>1, <1>2, <3>1, <3>2 DEF Dialling, Excused
    <3>3. CASE p # d
      BY <1>1, <1>2, <3>1, <3>3 DEF Watched, Dialling, Excused
    <3> QED
      BY <3>1, <3>2, <3>3
  <2>2. ASSUME NEW d \in Devices, RelayEnds(d) \/ DropRelay(d)
        PROVE  resting \subseteq resting' /\ Dialling(p)'
    <3>1. resting' = resting \cup {d} /\ attached' = [attached EXCEPT ![d] = NoDial]
      BY <2>2 DEF RelayEnds, DropRelay
    <3> QED
      BY <1>1, <1>2, <3>1 DEF Watched, Dialling, Excused
  <2>3. ASSUME NEW d \in Devices, NEW g \in Dials, Register(d, g) \/ Unregister(d, g)
        PROVE  resting \subseteq resting' /\ Dialling(p)'
    <3>1. UNCHANGED <<resting, attached>>
      BY <2>3 DEF Register, Unregister
    <3> QED
      BY <1>1, <3>1 DEF Watched, Dialling, Excused
  <2> QED
    BY <2>1, <2>2, <2>3 DEF RelayNext, RelayRecovers
<1>4. /\ (Stale(p)' <=> Stale(p)) /\ (HasRoute(p)' <=> HasRoute(p)) /\ (Excused(p) => Excused(p)')
      /\ \A t \in Tokens : Outdated(p, t)' <=> Outdated(p, t)
  BY <1>1, <1>3 DEF Stale, HasRoute, OnRoute, Excused, Outdated, Found, Spraying
<1> QED
  BY <1>1, <1>3, <1>4 DEF Watched, Still, Fleeting, Noticed, Copied, Abandoned, Bounded

LEMMA PathNextMove == TypeOK /\ MoveInv /\ [Next]_vars => MoveInv'
<1> SUFFICES ASSUME TypeOK, MoveInv, [Next]_vars, blocked' = {},
                    NEW p \in Devices, home'[Peer(p)] <= 2
             PROVE  Watched(p)'
  BY DEF MoveInv, Followed
<1>0. Peer(p) \in Devices
  BY Ends
<1>w. blocked = {} /\ home[Peer(p)] <= 2 => Watched(p)
  BY DEF MoveInv, Followed
<1>u. ASSUME Unnoticed(p), UNCHANGED <<blocked, relayVars>> PROVE Watched(p)'
  BY <1>u, <1>w, UnnoticedKeeps DEF relayVars, Unnoticed
<1>1. ASSUME NEW t \in Tokens, Upgrade(t) PROVE Watched(p)'
  <2>1. Unnoticed(p)
    BY <1>1, NothingIsUnnoticed DEF Upgrade
  <2> QED
    BY <1>1, <1>u, <2>1 DEF Upgrade
<1>2. ASSUME NEW t \in Tokens, AnswerPunch(t) PROVE Watched(p)'
  <2> DEFINE a == [step |-> "spraying", candidates |-> {offer[A][t]}, found |-> NoAddress]
  <2>1. /\ a.found = NoAddress /\ punch' = [punch EXCEPT ![B][t] = a]
        /\ UNCHANGED <<home, silence, review, route>>
    BY <1>2 DEF AnswerPunch, Spray
  <2> HIDE DEF a
  <2>2. Unnoticed(p)
    BY <2>1, AttemptIsUnnoticed, Ends
  <2> QED
    BY <1>2, <1>u, <2>2 DEF AnswerPunch
<1>3. ASSUME NEW t \in Tokens, PunchReady(t) PROVE Watched(p)'
  <2> DEFINE a == [step |-> "spraying", candidates |-> {offer[B][t]}, found |-> NoAddress]
  <2>1. /\ a.found = NoAddress /\ (punch' = punch \/ punch' = [punch EXCEPT ![A][t] = a])
        /\ UNCHANGED <<home, silence, review, route>>
    BY <1>3 DEF PunchReady, Spray
  <2> HIDE DEF a
  <2>2. CASE punch' = punch
    <3>1. Unnoticed(p)
      BY <2>1, <2>2, NothingIsUnnoticed
    <3> QED
      BY <1>3, <1>u, <3>1 DEF PunchReady
  <2>3. CASE punch' = [punch EXCEPT ![A][t] = a]
    <3>1. Unnoticed(p)
      BY <2>1, <2>3, AttemptIsUnnoticed, Ends
    <3> QED
      BY <1>3, <1>u, <3>1 DEF PunchReady
  <2> QED
    BY <2>1, <2>2, <2>3
<1>4. CASE ReadyTimesOut
  <2>1. Unnoticed(p)
    BY <1>4, NothingIsUnnoticed DEF ReadyTimesOut
  <2> QED
    BY <1>4, <1>u, <2>1 DEF ReadyTimesOut
<1>5. ASSUME NEW d \in Devices, NEW t \in Tokens, ProbeCandidate(d, t) PROVE Watched(p)'
  <2>1. UNCHANGED <<home, silence, review, blocked, relayVars>>
    BY <1>5 DEF ProbeCandidate
  <2>2. PICK x \in punch[d][t].candidates, answered \in BOOLEAN : Probe(d, t, x, answered)
    BY <1>5 DEF ProbeCandidate
  <2>3. Unnoticed(p)
    BY <2>1, <2>2, ProbeLeaves DEF Unnoticed
  <2> QED
    BY <1>u, <2>1, <2>3
<1>6. ASSUME NEW d \in Devices, NEW t \in Tokens, Promote(d, t) PROVE Watched(p)'
  <2>1. CASE d = p
    BY <1>6, <1>w, <2>1, PromoteKeeps DEF Promote
  <2>2. CASE d # p
    <3>1. /\ Lingering.found = NoAddress /\ punch' = [punch EXCEPT ![d][t] = Lingering]
          /\ UNCHANGED <<home, silence, review>> /\ route'[p] = route[p]
      BY <1>6, <2>2 DEF Promote, Lingering, NoAttempt, TypeOK
    <3>2. Unnoticed(p)
      BY <3>1, AttemptIsUnnoticed
    <3> QED
      BY <1>6, <1>u, <3>2 DEF Promote
  <2> QED
    BY <2>1, <2>2
<1>7. ASSUME NEW d \in Devices, NEW t \in Tokens, PunchFails(d, t) \/ LingerEnds(d, t)
      PROVE  Watched(p)'
  <2>1. PICK a \in {Lingering, NoAttempt} : punch' = [punch EXCEPT ![d][t] = a]
    BY <1>7 DEF PunchFails, LingerEnds
  <2>2. a.found = NoAddress /\ UNCHANGED <<home, silence, review, route, blocked, relayVars>>
    BY <1>7, <2>1 DEF PunchFails, LingerEnds, Lingering, NoAttempt
  <2>3. Unnoticed(p)
    BY <2>1, <2>2, AttemptIsUnnoticed
  <2> QED
    BY <1>u, <2>2, <2>3
<1>8. ASSUME NEW d \in Devices, SweepReads(d) PROVE Watched(p)'
  <2>1. CASE d = p
    BY <1>8, <1>w, <2>1, ReadKeeps DEF SweepReads
  <2>2. CASE d # p
    <3>1. UNCHANGED <<home, silence, punch, route>> /\ review'[p] = review[p]
      BY <1>8, <2>2 DEF SweepReads, TypeOK
    <3>2. Unnoticed(p)
      BY <3>1, NothingIsUnnoticed
    <3> QED
      BY <1>8, <1>u, <3>2 DEF SweepReads
  <2> QED
    BY <2>1, <2>2
<1>9. ASSUME NEW d \in Devices, SweepActs(d) PROVE Watched(p)'
  <2>1. CASE d = p
    BY <1>9, <1>w, <2>1, ActKeeps DEF SweepActs
  <2>2. CASE d # p
    <3>1. UNCHANGED <<home, silence, blocked, relayVars>> /\ review'[p] = review[p]
      BY <1>9, <2>2 DEF SweepActs, TypeOK
    <3>2. CASE Demote(d) /\ UNCHANGED punch
      <4>1. route'[p] = route[p]
        BY <2>2, <3>2 DEF Demote, TypeOK
      <4> QED
        BY <1>u, <3>1, <3>2, <4>1, NothingIsUnnoticed
    <3>3. CASE UNCHANGED <<route, cooldown, punch>>
      BY <1>u, <3>1, <3>3, NothingIsUnnoticed
    <3>4. CASE /\ review[d].of.quiet > Interval
               /\ \E answered \in BOOLEAN :
                     Probe(d, review[d].of.token, review[d].of.addr, answered)
      <4>1. review[d] \in Reviews /\ review[d].step = "read"
        BY <1>9 DEF SweepActs, TypeOK
      <4>2. review[d].of \in Routes
        BY <4>1 DEF Reviews
      <4>3. review[d].of.token \in Tokens
        BY <3>4, <4>2, Bounds DEF Routes, NoRoute
      <4>4. Unnoticed(p)
        BY <3>1, <3>4, <4>3, ProbeLeaves DEF Unnoticed
      <4> QED
        BY <1>u, <3>1, <4>4
    <3> QED
      BY <1>9, <3>2, <3>3, <3>4 DEF SweepActs
  <2> QED
    BY <2>1, <2>2
<1>10. CASE Tick
  BY <1>10, <1>w, TickKeeps DEF Tick
<1>11. ASSUME NEW d \in Devices, Move(d) PROVE Watched(p)'
  <2>1. home[Peer(p)] \in Nat /\ home'[Peer(p)] \in {home[Peer(p)], home[Peer(p)] + 1}
    BY <1>0, <1>11, Numerals DEF Move, TypeOK
  <2>2. home[Peer(p)] <= 2
    BY <2>1
  <2> QED
    BY <1>11, <1>w, <2>2, MoveKeeps DEF Move
<1>12. ASSUME NEW d \in Devices, Block(d) PROVE Watched(p)'
  BY <1>12 DEF Block
<1>13. CASE RelayNext /\ UNCHANGED pathVars
  BY <1>13, <1>w, RelayKeeps DEF pathVars
<1>14. CASE UNCHANGED vars
  <2>1. UNCHANGED <<home, silence, punch, route, review, blocked, relayVars>>
    BY <1>14 DEF vars, pathVars
  <2> QED
    BY <1>u, <2>1, NothingIsUnnoticed
<1> QED
  BY <1>1, <1>2, <1>3, <1>4, <1>5, <1>6, <1>7, <1>8, <1>9, <1>10, <1>11, <1>12, <1>13, <1>14
     DEF Next, Signalling, Punching, Sweeping, Network

\* With three ticks between the timeout of a route and that of QUIC, an end that moves
\* once is not given up, whatever is punched, promoted and probed around the move and
\* however often the relay's connections die.
THEOREM FirstMoveIsOutlived ==
    ASSUME Timeout + 3 <= IdleTimeout
    PROVE  Spec => []OutlivesFirstMove
<1>1. Init => PathTypeInv /\ MoveInv
  BY PathInitType, PathInitMove
<1>2. PathTypeInv /\ MoveInv /\ [Next]_vars => (PathTypeInv /\ MoveInv)'
  BY PathNextType, PathNextMove DEF PathTypeInv
<1>3. PathTypeInv /\ MoveInv => OutlivesFirstMove
  <2> SUFFICES ASSUME PathTypeInv, MoveInv, blocked = {}, NEW d \in Devices, home[d] <= 2
               PROVE  silence[d] < IdleTimeout
    BY DEF OutlivesFirstMove
  <2>1. Watched(Peer(d)) /\ Peer(Peer(d)) = d
    BY Ends DEF MoveInv, Followed
  <2>2. silence[d] \in Nat /\ silence[d] <= Timeout + 2
    BY <2>1, Numerals DEF PathTypeInv, Watched, Bounded
  <2> QED
    BY <2>2, Bounds
<1> QED
  BY <1>1, <1>2, <1>3, PTL DEF Spec

\* So one move of one end costs no session.
THEOREM AMoveIsOutlived ==
    ASSUME Timeout + 3 <= IdleTimeout, MaxMoves <= 1
    PROVE  Spec => []OutlivesAMove
<1>1. TypeOK /\ OutlivesFirstMove => OutlivesAMove
  <2> SUFFICES ASSUME TypeOK, NEW d \in Devices PROVE home[d] <= 2
    BY DEF OutlivesFirstMove, OutlivesAMove
  <2>1. home[d] \in 1..(MaxMoves + 1)
    BY DEF TypeOK, Addresses
  <2> QED
    BY <2>1, Bounds
<1> QED
  BY <1>1, PathTypeCorrect, FirstMoveIsOutlived, PTL

=============================================================================
