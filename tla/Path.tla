-------------------------------- MODULE Path --------------------------------
(***************************************************************************)
(* The two ends of one relayed session getting off the relay and back:     *)
(* hole punching (internal/path/punch.go), its signalling over the session *)
(* (internal/daemon/punch.go), and the routes of the shared socket         *)
(* (internal/path/conn.go), over the relay link of RelayLink.              *)
(*                                                                         *)
(* Time runs in ticks of one sweep (keepaliveInterval / 3).  In each tick  *)
(* QUIC sends at least one packet from either end, its keepalive, and each *)
(* conn sweeps its route once, at any point.  An address is the number of  *)
(* moves its device had made when it got it; packets to an older one are   *)
(* lost.  A probe and its answer are one step; one that is lost, or whose  *)
(* answer is, is a step not taken or taken with answered = FALSE.          *)
(***************************************************************************)
EXTENDS RelayLink, FiniteSetsExt

CONSTANTS A,           \* the end with the lower DeviceID, which signals
          B,           \* the other end
          Interval,    \* ticks a route may be quiet before it is probed
          Timeout,     \* ticks it may be quiet before it is abandoned
          IdleTimeout, \* ticks after which QUIC gives the session up
          Cooldown,    \* ticks an abandoned path is left alone
          MaxMoves,    \* bound: address changes, of both ends together
          MaxPunches   \* bound: punch exchanges

ASSUME PathAssumption ==
    /\ Devices = {A, B} /\ A # B
    /\ Interval \in Nat /\ Timeout \in Nat /\ IdleTimeout \in Nat
    /\ Cooldown \in Nat /\ MaxMoves \in Nat /\ MaxPunches \in Nat
    /\ Interval < Timeout

Addresses == 1..(MaxMoves + 1)
NoAddress == 0
Tokens == 1..MaxPunches
Quiet == 0..(Timeout + 1)

VARIABLES
    home,     \* home[d]: the address d's socket is seen at
    blocked,  \* the ends whose direct datagrams no longer get through
    route,    \* route[d]: the validated direct address of the peer, the token
              \* it was punched under, and how many ticks it has been quiet
    cooldown, \* cooldown[d]: ticks left before CanUpgrade says yes again
    review,   \* review[d]: where this tick's sweep of d is
    exchange, \* exchange[t]: how far the signalling of token t has got
    offer,    \* offer[d][t]: the candidate named in d's message on its way
    waiting,  \* the token whose answer A's upgrade waits for, or 0
    napping,  \* A's upgradeLoop is in its wait (upgradeRetry)
    punch,    \* punch[d][t]: d's attempt under token t
    silence   \* silence[d]: ticks d has received no packet of the session
              \* although the relay could have carried one both ways

pathVars == <<home, blocked, route, cooldown, review, exchange, offer, waiting,
              napping, punch, silence>>
vars == <<relayVars, pathVars>>

NoRoute == [addr |-> NoAddress, token |-> 0, quiet |-> 0]
Routes == {NoRoute} \cup [addr : Addresses, token : Tokens, quiet : Quiet]
Reviews == [step : {"due", "done"}, relay : {FALSE}, of : {NoRoute}]
    \cup [step : {"read"}, relay : BOOLEAN, of : Routes]
Attempts == [step : {"none", "spraying", "late", "lingering"},
             candidates : SUBSET Addresses, found : Addresses \cup {NoAddress}]

TypeOK ==
    /\ RelayTypeOK
    /\ home \in [Devices -> Addresses]
    /\ blocked \in SUBSET Devices
    /\ route \in [Devices -> Routes]
    /\ cooldown \in [Devices -> 0..Cooldown]
    /\ review \in [Devices -> Reviews]
    /\ exchange \in [Tokens -> {"unused", "asked", "answered", "read"}]
    /\ offer \in [Devices -> [Tokens -> Addresses \cup {NoAddress}]]
    /\ waiting \in 0..MaxPunches
    /\ napping \in BOOLEAN
    /\ punch \in [Devices -> [Tokens -> Attempts]]
    /\ silence \in [Devices -> 0..IdleTimeout]

Due == [step |-> "due", relay |-> FALSE, of |-> NoRoute]
Done == [Due EXCEPT !.step = "done"]
NoAttempt == [step |-> "none", candidates |-> {}, found |-> NoAddress]
Lingering == [NoAttempt EXCEPT !.step = "lingering"]

Init ==
    /\ RelayInit
    /\ home = [d \in Devices |-> 1]
    /\ blocked = {}
    /\ route = [d \in Devices |-> NoRoute]
    /\ cooldown = [d \in Devices |-> 0]
    /\ review = [d \in Devices |-> Due]
    /\ exchange = [t \in Tokens |-> "unused"]
    /\ offer = [d \in Devices |-> [t \in Tokens |-> NoAddress]]
    /\ waiting = 0
    /\ napping = FALSE
    /\ punch = [d \in Devices |-> [t \in Tokens |-> NoAttempt]]
    /\ silence = [d \in Devices |-> 0]

Peer(d) == IF d = A THEN B ELSE A
HasRoute(d) == route[d].addr # NoAddress
Spraying(d, t) == punch[d][t].step \in {"spraying", "late"}
InPunch(d, t) == punch[d][t].step \in {"spraying", "late", "lingering"}

\* byAddr: what arrives from the address of d's route belongs to that route.
OnRoute(d) == route[d].addr = home[Peer(d)]

\* A datagram d sends to address x of the peer gets there.
Lands(d, x) == x = home[Peer(d)] /\ d \notin blocked

\* A packet of the session from d gets to its peer: over the route where d has
\* one, over the relay otherwise.
Reaches(d) ==
    IF HasRoute(d) THEN Lands(d, route[d].addr) ELSE RelayCarries(d, Peer(d))

\* CanUpgrade, for a session that upgradeLoop found relayed.
CanUpgrade(d) == ~HasRoute(d) /\ cooldown[d] = 0

\* lastRx of the routes that a round trip between d and its peer used.
Heard(rt, ends) ==
    [d \in Devices |-> IF d \in ends /\ OnRoute(d) THEN [rt[d] EXCEPT !.quiet = 0]
                                                   ELSE rt[d]]

(***************************************************************************)
(* Signalling.                                                             *)
(***************************************************************************)

\* upgradeLoop is one goroutine per session: an upgrade ends before the next.
Upgrading == waiting # 0 \/ \E t \in Tokens : Spraying(A, t)

Upgrade(t) ==
    /\ CanUpgrade(A)
    /\ ~Upgrading
    /\ ~napping
    /\ exchange[t] = "unused"
    /\ \A u \in Tokens : u < t => exchange[u] # "unused"
    /\ exchange' = [exchange EXCEPT ![t] = "asked"]
    /\ offer' = [offer EXCEPT ![A][t] = home[A]]
    /\ waiting' = t
    /\ napping' = TRUE
    /\ UNCHANGED <<relayVars, home, blocked, route, cooldown, review, punch, silence>>

Spray(d, t, x) ==
    punch' = [punch EXCEPT ![d][t] =
                [step |-> "spraying", candidates |-> {x}, found |-> NoAddress]]

\* onPunchRequest and answerPunch: the reply goes out and the spray begins.
\* Neither asks CanUpgrade.
AnswerPunch(t) ==
    /\ exchange[t] = "asked"
    /\ exchange' = [exchange EXCEPT ![t] = "answered"]
    /\ offer' = [offer EXCEPT ![A][t] = NoAddress, ![B][t] = home[B]]
    /\ Spray(B, t, offer[A][t])
    /\ UNCHANGED <<relayVars, home, blocked, route, cooldown, review, waiting, silence, napping>>

\* onPunchReady finds the waiter of that token; an answer that comes too late
\* finds none.
PunchReady(t) ==
    /\ exchange[t] = "answered"
    /\ exchange' = [exchange EXCEPT ![t] = "read"]
    /\ offer' = [offer EXCEPT ![B][t] = NoAddress]
    /\ IF waiting = t
         THEN waiting' = 0 /\ Spray(A, t, offer[B][t])
         ELSE UNCHANGED <<waiting, punch>>
    /\ UNCHANGED <<relayVars, home, blocked, route, cooldown, review, silence, napping>>

\* readyWait runs out.
ReadyTimesOut ==
    /\ waiting # 0
    /\ waiting' = 0
    /\ UNCHANGED <<relayVars, home, blocked, route, cooldown, review, exchange, offer,
                   punch, silence, napping>>

(***************************************************************************)
(* Punching.                                                               *)
(***************************************************************************)

\* A ping is answered whether or not it is punched or routed to.
AnswersSlip(d, t) == t \in Tokens

\* handleProbe, for a ping of token t that arrived at d.
Answers(d, t) == InPunch(d, t) \/ OnRoute(d)

\* d's ping under token t lands at address x.  The peer, if it is spraying
\* under that token, adds the address the ping came from to its own candidates;
\* it answers a peer it is punching or routing to; the answer to an attempt
\* still running ends its race.
Probe(d, t, x, answered) ==
    LET p == Peer(d)
        pong == answered /\ Answers(p, t) /\ p \notin blocked
        learnt == IF Spraying(p, t)
                    THEN [punch EXCEPT ![p][t].candidates = @ \cup {home[d]}]
                    ELSE punch
        won == pong /\ Spraying(d, t) /\ punch[d][t].found = NoAddress
    IN  /\ Lands(d, x)
        /\ punch' = IF won THEN [learnt EXCEPT ![d][t].found = x] ELSE learnt
        /\ route' = Heard(route, IF pong THEN {d, p} ELSE {p})

ProbeCandidate(d, t) ==
    /\ Spraying(d, t)
    /\ \E x \in punch[d][t].candidates, answered \in BOOLEAN : Probe(d, t, x, answered)
    /\ UNCHANGED <<relayVars, home, blocked, cooldown, review, exchange, offer, waiting,
                   silence, napping>>

\* Punch returns the address, and punchAndPromote makes it the route, whatever
\* route there was; the attempt goes on answering for punchLinger.
Promote(d, t) ==
    /\ Spraying(d, t)
    /\ punch[d][t].found # NoAddress
    /\ route' = [route EXCEPT ![d] = [addr |-> punch[d][t].found, token |-> t, quiet |-> 0]]
    /\ punch' = [punch EXCEPT ![d][t] = Lingering]
    /\ UNCHANGED <<relayVars, home, blocked, cooldown, review, exchange, offer, waiting,
                   silence, napping>>

\* PunchWindow runs out.
PunchFails(d, t) ==
    /\ Spraying(d, t)
    /\ punch' = [punch EXCEPT ![d][t] = Lingering]
    /\ UNCHANGED <<relayVars, home, blocked, route, cooldown, review, exchange, offer,
                   waiting, silence, napping>>

LingerEnds(d, t) ==
    /\ punch[d][t].step = "lingering"
    /\ punch' = [punch EXCEPT ![d][t] = NoAttempt]
    /\ UNCHANGED <<relayVars, home, blocked, route, cooldown, review, exchange, offer,
                   waiting, silence, napping>>

(***************************************************************************)
(* Keeping routes honest.                                                  *)
(***************************************************************************)

\* sweep takes its copy of the route under the lock ...
SweepReads(d) ==
    /\ review[d].step = "due"
    /\ review' = [review EXCEPT ![d] =
         IF HasRoute(d)
           THEN [step |-> "read", relay |-> attached[d] # NoDial, of |-> route[d]]
           ELSE Done]
    /\ UNCHANGED <<relayVars, home, blocked, route, cooldown, exchange, offer, waiting,
                   punch, silence, napping>>

\* The address is forgotten and the rest of the route kept.
DemoteSlip(d) ==
    /\ route' = [route EXCEPT ![d].addr = NoAddress]
    /\ cooldown' = [cooldown EXCEPT ![d] = Cooldown]

\* Demote takes whatever route there is.
Demote(d) ==
    IF HasRoute(d)
      THEN /\ route' = [route EXCEPT ![d] = NoRoute]
           /\ cooldown' = [cooldown EXCEPT ![d] = Cooldown]
      ELSE UNCHANGED <<route, cooldown>>

\* A route is abandoned only when there was a relay to fall back to.
Dead(copy) == copy.of.quiet > Timeout /\ copy.relay

\* ... and acts on the copy after it: on a route promoted or heard from since
\* as well.  The probe goes to the address and under the token copied.
SweepActs(d) ==
    /\ review[d].step = "read"
    /\ review' = [review EXCEPT ![d] = Done]
    /\ \/ Dead(review[d]) /\ Demote(d) /\ UNCHANGED punch
       \/ /\ ~Dead(review[d])
          /\ review[d].of.quiet > Interval
          /\ \E answered \in BOOLEAN :
                Probe(d, review[d].of.token, review[d].of.addr, answered)
          /\ UNCHANGED cooldown
       \/ ~Dead(review[d]) /\ UNCHANGED <<route, cooldown, punch>>
    /\ UNCHANGED <<relayVars, home, blocked, exchange, offer, waiting, silence, napping>>

(***************************************************************************)
(* Time, and what the network does.                                        *)
(***************************************************************************)

\* What is sent over the route counts as heard from it.
FedSlip(d) == HasRoute(d)

\* The packets of the tick have come over d's route.
Fed(d) == HasRoute(Peer(d)) /\ Reaches(Peer(d)) /\ OnRoute(d)

RelayWorks == \A d \in Devices : RelayCarries(d, Peer(d))

\* A tick ends when both ends have swept.  PunchWindow is shorter than a tick:
\* an attempt that saw one end is over before the next does.  upgradeRetry and
\* relayRetry are longer: each holds its loop for one tick at least.
Tick ==
    /\ \A d \in Devices : review[d].step = "done"
    /\ \A d \in Devices, t \in Tokens : punch[d][t].step # "late"
    /\ route' = [d \in Devices |->
         IF ~HasRoute(d) THEN NoRoute
         ELSE [route[d] EXCEPT !.quiet = IF Fed(d) THEN 0 ELSE Min({@ + 1, Timeout + 1})]]
    /\ silence' = [d \in Devices |->
         IF Reaches(Peer(d)) \/ ~RelayWorks THEN 0 ELSE Min({silence[d] + 1, IdleTimeout})]
    /\ cooldown' = [d \in Devices |-> Max({cooldown[d] - 1, 0})]
    /\ review' = [d \in Devices |-> Due]
    /\ punch' = [d \in Devices |-> [t \in Tokens |->
         IF punch[d][t].step = "spraying" THEN [punch[d][t] EXCEPT !.step = "late"]
                                          ELSE punch[d][t]]]
    /\ napping' = FALSE
    /\ Rested
    /\ UNCHANGED <<home, blocked, exchange, offer, waiting>>

\* d's socket is seen at another address: another network, or a NAT that gave
\* it a new mapping.
Move(d) ==
    /\ home[A] + home[B] < MaxMoves + 2
    /\ home' = [home EXCEPT ![d] = @ + 1]
    /\ UNCHANGED <<relayVars, blocked, route, cooldown, review, exchange, offer, waiting,
                   punch, silence, napping>>

\* One direction of the direct path stops working.
Block(d) ==
    /\ blocked = {}
    /\ blocked' = {d}
    /\ UNCHANGED <<relayVars, home, route, cooldown, review, exchange, offer, waiting,
                   punch, silence, napping>>

Signalling ==
    \/ \E t \in Tokens : Upgrade(t) \/ AnswerPunch(t) \/ PunchReady(t)
    \/ ReadyTimesOut

Punching ==
    \E d \in Devices, t \in Tokens :
        ProbeCandidate(d, t) \/ Promote(d, t) \/ PunchFails(d, t) \/ LingerEnds(d, t)

Sweeping == \E d \in Devices : SweepReads(d) \/ SweepActs(d)

Network == \E d \in Devices : Move(d) \/ Block(d)

Next ==
    \/ Signalling \/ Punching \/ Sweeping \/ Tick \/ Network
    \/ RelayNext /\ UNCHANGED pathVars

Spec == Init /\ [][Next]_vars

\* Tickers tick, and a goroutine that has something to do does it; nothing
\* makes a device punch, and no probe need arrive.
Fairness ==
    /\ WF_vars(Tick)
    /\ WF_vars(Sweeping)
    /\ WF_vars(ReadyTimesOut)
    /\ \A d \in Devices, t \in Tokens :
         WF_vars(Promote(d, t) \/ PunchFails(d, t)) /\ WF_vars(LingerEnds(d, t))
    /\ WF_vars(RelayRecovers /\ UNCHANGED pathVars)

FairSpec == Spec /\ Fairness

(***************************************************************************)
(* Properties.                                                             *)
(***************************************************************************)

\* An address change never costs the session: a route that has stopped working
\* is abandoned by the end that cannot be reached over it before QUIC's idle
\* timeout passes at the other (keepaliveTimeout and the sweep, conn.go, against
\* MaxIdleTimeout in conn/quic_config.go).  A path that fails in one direction
\* only is left out: then the two timeouts add up.
OutlivesAMove == blocked = {} => \A d \in Devices : silence[d] < IdleTimeout

\* Whatever moves, fails in one direction or drops, packets of the session come
\* to arrive at both ends again, over a route or over the relay.
ReachesAgain == <>[](\A d \in Devices : Reaches(d))

\* A route that only one end has promoted does not stay: either the other end
\* promotes one too or the silence on it ends it.
RoutesComeInPairs == <>[](HasRoute(A) <=> HasRoute(B))
=============================================================================
