----------------------------- MODULE Pairing_proofs -----------------------------
(****************************************************************************)
(* Proofs about Pairing, for any number of sessions and of decisions, and   *)
(* wherever the two devices pair: in a daemon, in a command or in the app.  *)
(****************************************************************************)
EXTENDS Pairing, TLAPS

\* What device d may have been told over session s, given who agreed to what:
\* a yes only after its peer's user accepted.
Said(d, s, a) == IF s \in a[Peer(d)] THEN Messages ELSE Messages \ {"yes"}

HonestWire(w, a) ==
    /\ w \in [Devices -> [Sessions -> Seq(Messages \cup {"close"})]]
    /\ \A d \in Devices, s \in Sessions : w[d][s] \in Seq(Said(d, s, a) \cup {"close"})
HonestInbox(b, a) ==
    /\ b \in [Devices -> [Sessions -> SUBSET Messages]]
    /\ \A d \in Devices, s \in Sessions : b[d][s] \subseteq Said(d, s, a)

\* A pairing beyond its first step has a session.
Seated(p, c) == \A d \in Devices : p[d] \notin {"idle", "offering"} => c[d] \in Sessions

\* Who waits for the other's answer has given one; who pins has both.
Consented(p, c, a) ==
    \A d \in Devices :
        /\ p[d] \in {"waitConf", "accepting"} => c[d] \in a[d]
        /\ p[d] = "accepting" => c[d] \in a[Peer(d)]

Steps == {"idle", "confirm"} \cup Waiting \cup Lingering
TypeExchange ==
    /\ pc \in [Devices -> Steps]
    /\ cur \in [Devices -> 0..MaxSessions]
    /\ known \in SUBSET Sessions
    /\ agreed \in [Devices -> SUBSET Sessions]
    /\ pinned \in [Devices -> SUBSET Sessions]
TypeSessions ==
    /\ end \in [Devices -> [Sessions -> {"none", "hello", "open", "closed"}]]
    /\ registry \in [Devices -> 0..MaxSessions]
    /\ excused \in SUBSET Sessions
TypeRecords ==
    /\ store \in [Devices -> Levels]
    /\ copy \in [Devices -> [Sessions -> Levels]]
    /\ trust \in [Devices -> Levels]
    /\ decisions \in 0..MaxDecisions
    /\ wish \in [Devices -> Levels]
    /\ overlapped \in SUBSET Devices

IInv ==
    /\ TypeExchange /\ TypeSessions /\ TypeRecords
    /\ HonestWire(wire, agreed) /\ HonestInbox(inbox, agreed)
    /\ Seated(pc, cur) /\ Consented(pc, cur, agreed)

LEMMA PeersDiffer ==
    \A d \in Devices : Peer(d) \in Devices /\ Peer(d) # d /\ Peer(Peer(d)) = d
                       /\ Devices = {d, Peer(d)}
  BY TwoDevices DEF Devices, Peer

\* Replacing one entry of a table by device and session.
LEMMA Entry ==
    ASSUME NEW S, NEW f \in [Devices -> [Sessions -> S]],
           NEW d \in Devices, NEW s \in Sessions, NEW e \in S
    PROVE  /\ [f EXCEPT ![d][s] = e] \in [Devices -> [Sessions -> S]]
           /\ \A x \in Devices, t \in Sessions :
                [f EXCEPT ![d][s] = e][x][t] = IF x = d /\ t = s THEN e ELSE f[x][t]
<1>1. [f[d] EXCEPT ![s] = e] \in [Sessions -> S]
  OBVIOUS
<1> QED
  BY <1>1

\* Sequences over a larger set, and the sequences built from one.
LEMMA SeqFacts ==
    ASSUME NEW S, NEW T, NEW q \in Seq(S), NEW e \in S
    PROVE  /\ S \subseteq T => q \in Seq(T)
           /\ Append(q, e) \in Seq(S)
           /\ <<>> \in Seq(S) /\ <<e>> \in Seq(S)
           /\ q # <<>> => Head(q) \in S /\ Tail(q) \in Seq(S)
  OBVIOUS

LEMMA WireEntry ==
    ASSUME NEW w, NEW a, HonestWire(w, a), NEW d \in Devices, NEW s \in Sessions,
           NEW q \in Seq(Said(d, s, a) \cup {"close"})
    PROVE  HonestWire([w EXCEPT ![d][s] = q], a)
<1> DEFINE M == Messages \cup {"close"}
<1>1. Said(d, s, a) \cup {"close"} \subseteq M
  BY DEF Said
<1>2. q \in Seq(M)
  BY <1>1
<1>3. w \in [Devices -> [Sessions -> Seq(M)]]
  BY DEF HonestWire
<1> DEFINE v == [w EXCEPT ![d][s] = q]
<1>4. /\ v \in [Devices -> [Sessions -> Seq(M)]]
      /\ \A x \in Devices, t \in Sessions : v[x][t] = IF x = d /\ t = s THEN q ELSE w[x][t]
  <2> HIDE DEF M
  <2> QED
    BY <1>2, <1>3, Entry
<1> HIDE DEF v
<1>5. \A x \in Devices, t \in Sessions : v[x][t] \in Seq(Said(x, t, a) \cup {"close"})
  BY <1>4 DEF HonestWire
<1>6. HonestWire(v, a)
  BY <1>4, <1>5 DEF HonestWire
<1> QED
  BY <1>6 DEF v

\* Cutting, clearing, reading and telling keep the wire honest.
LEMMA WireMoves ==
    ASSUME NEW w, NEW a, HonestWire(w, a), NEW d \in Devices, NEW s \in Sessions
    PROVE  /\ HonestWire(Cut(w, d, s), a)
           /\ HonestWire([w EXCEPT ![d][s] = <<>>], a)
           /\ w[d][s] # <<>> => HonestWire([w EXCEPT ![d][s] = Tail(@)], a)
           /\ \A m \in Said(d, s, a) : HonestWire(Tell(w, d, s, m), a)
<1> DEFINE T == Said(d, s, a) \cup {"close"}
<1>1. w[d][s] \in Seq(T)
  BY DEF HonestWire
<1>2. <<"close">> \in Seq(T) /\ <<>> \in Seq(T)
  OBVIOUS
<1>3. w[d][s] # <<>> => Tail(w[d][s]) \in Seq(T)
  <2> HIDE DEF T
  <2> QED
    BY <1>1
<1>4. \A m \in Said(d, s, a) : Append(w[d][s], m) \in Seq(T)
  <2>1. \A m \in Said(d, s, a) : m \in T
    OBVIOUS
  <2> HIDE DEF T
  <2> QED
    BY <1>1, <2>1
<1>5. HonestWire([w EXCEPT ![d][s] = <<"close">>], a) /\ HonestWire([w EXCEPT ![d][s] = <<>>], a)
  BY <1>2, WireEntry
<1>6. w[d][s] # <<>> => HonestWire([w EXCEPT ![d][s] = Tail(w[d][s])], a)
  BY <1>3, WireEntry
<1>7. \A m \in Said(d, s, a) : HonestWire([w EXCEPT ![d][s] = Append(w[d][s], m)], a)
  BY <1>4, WireEntry
<1>8. w \in [Devices -> [Sessions -> Seq(Messages \cup {"close"})]]
  BY DEF HonestWire
<1>9. /\ [w EXCEPT ![d][s] = Tail(@)] = [w EXCEPT ![d][s] = Tail(w[d][s])]
      /\ \A m : [w EXCEPT ![d][s] = Append(@, m)] = [w EXCEPT ![d][s] = Append(w[d][s], m)]
  BY <1>8
<1> QED
  BY <1>5, <1>6, <1>7, <1>9 DEF Cut, Tell

\* More consent makes nothing dishonest.
LEMMA ConsentGrows ==
    ASSUME NEW a, NEW b, \A d \in Devices : a[d] \subseteq b[d]
    PROVE  /\ \A d \in Devices, s \in Sessions : Said(d, s, a) \subseteq Said(d, s, b)
           /\ \A w : HonestWire(w, a) => HonestWire(w, b)
           /\ \A x : HonestInbox(x, a) => HonestInbox(x, b)
<1>1. \A d \in Devices, s \in Sessions : Said(d, s, a) \subseteq Said(d, s, b)
  BY PeersDiffer DEF Said
<1>2. ASSUME NEW w, HonestWire(w, a) PROVE HonestWire(w, b)
  <2>1. ASSUME NEW d \in Devices, NEW s \in Sessions
        PROVE  w[d][s] \in Seq(Said(d, s, b) \cup {"close"})
    <3>1. w[d][s] \in Seq(Said(d, s, a) \cup {"close"})
      BY <1>2 DEF HonestWire
    <3>2. Said(d, s, a) \cup {"close"} \subseteq Said(d, s, b) \cup {"close"}
      BY <1>1
    <3> QED
      BY <3>1, <3>2
  <2> QED
    BY <1>2, <2>1 DEF HonestWire
<1>3. ASSUME NEW x, HonestInbox(x, a) PROVE HonestInbox(x, b)
  BY <1>1, <1>3 DEF HonestInbox
<1> QED
  BY <1>1, <1>2, <1>3

----------------------------------------------------------------------------
(* The parts the actions are made of.                                       *)

\* The session a device pairs over, and the one it has registered, if any.
LEMMA SessionOrNone == \A s \in 0..MaxSessions : s # 0 => s \in Sessions
  BY PairingBounds DEF Sessions

\* Closing an end keeps the sessions well-formed.
LEMMA CloseEndKeeps ==
    ASSUME IInv, NEW d \in Devices, NEW s \in Sessions, CloseEnd(d, s)
    PROVE  /\ end' \in [Devices -> [Sessions -> {"none", "hello", "open", "closed"}]]
           /\ HonestWire(wire', agreed)
<1>1. HonestWire(wire, agreed) /\ end \in [Devices -> [Sessions -> {"none", "hello", "open", "closed"}]]
  BY DEF IInv, TypeSessions
<1>2. CASE end[d][s] = "open"
  <2>1. end' = [end EXCEPT ![d][s] = "closed"]
        /\ wire' = [Cut(wire, Peer(d), s) EXCEPT ![d][s] = <<>>]
    BY <1>2 DEF CloseEnd
  <2>2. HonestWire(Cut(wire, Peer(d), s), agreed)
    BY <1>1, PeersDiffer, WireMoves
  <2>3. HonestWire([Cut(wire, Peer(d), s) EXCEPT ![d][s] = <<>>], agreed)
    BY <2>2, WireMoves
  <2> QED
    BY <1>1, <2>1, <2>3, Entry
<1>3. CASE end[d][s] # "open"
  BY <1>1, <1>3 DEF CloseEnd
<1> QED
  BY <1>2, <1>3

\* A pairing that is given up leaves its device idle and without a session.
LEMMA FailKeeps ==
    ASSUME IInv, NEW d \in Devices, Fail(d)
    PROVE  /\ pc' = [pc EXCEPT ![d] = "idle"] /\ cur' = [cur EXCEPT ![d] = 0]
           /\ end' \in [Devices -> [Sessions -> {"none", "hello", "open", "closed"}]]
           /\ HonestWire(wire', agreed)
           /\ registry' = registry
<1>1. pc' = [pc EXCEPT ![d] = "idle"] /\ cur' = [cur EXCEPT ![d] = 0] /\ registry' = registry
  BY DEF Fail, Leave
<1>2. CASE cur[d] # 0 /\ (d = Scanner \/ d \notin Daemons)
  <2>1. CloseEnd(d, cur[d])
    BY <1>2 DEF Fail
  <2>2. cur[d] \in Sessions
    BY <1>2, SessionOrNone DEF IInv, TypeExchange
  <2> QED
    BY <1>1, <2>1, <2>2, CloseEndKeeps
<1>3. CASE ~(cur[d] # 0 /\ (d = Scanner \/ d \notin Daemons))
  <2>1. UNCHANGED <<end, wire>>
    BY <1>3 DEF Fail
  <2> QED
    BY <1>1, <2>1 DEF IInv, TypeSessions
<1> QED
  BY <1>2, <1>3

\* Registering a session, which may supersede another.
LEMMA RegisterKeeps ==
    ASSUME IInv, NEW d \in Devices, NEW s \in Sessions, Register(d, s)
    PROVE  TypeSessions' /\ HonestWire(wire', agreed)
<1> DEFINE prev == registry[d]
<1> DEFINE Ends == {"none", "hello", "open", "closed"}
<1>1. /\ HonestWire(wire, agreed) /\ end \in [Devices -> [Sessions -> Ends]]
      /\ registry \in [Devices -> 0..MaxSessions] /\ excused \in SUBSET Sessions
  BY DEF IInv, TypeSessions
<1>2. s \in 0..MaxSessions
  BY PairingBounds DEF Sessions
<1>3. registry' = [registry EXCEPT ![d] = s]
  BY DEF Register
<1>4. registry' \in [Devices -> 0..MaxSessions]
  BY <1>1, <1>2, <1>3
<1>5. "open" \in Ends /\ "closed" \in Ends
  OBVIOUS
<1>6. CASE prev \notin {0, s} /\ end[d][prev] = "open"
  <2>1. prev \in Sessions
    BY <1>1, <1>6, SessionOrNone
  <2>2. /\ end' = [end EXCEPT ![d][prev] = "closed", ![d][s] = "open"]
        /\ wire' = [Cut(wire, Peer(d), prev) EXCEPT ![d][prev] = <<>>]
        /\ excused' = excused \cup {prev}
    BY <1>6 DEF Register
  <2>3. [end EXCEPT ![d][prev] = "closed"] \in [Devices -> [Sessions -> Ends]]
    BY <1>1, <1>5, <2>1, Entry
  <2>4. [[end EXCEPT ![d][prev] = "closed"] EXCEPT ![d][s] = "open"]
           \in [Devices -> [Sessions -> Ends]]
    <3> HIDE DEF Ends, prev
    <3> QED
      BY <1>5, <2>3, Entry
  <2>5. end' \in [Devices -> [Sessions -> Ends]]
    BY <2>2, <2>4
  <2>6. HonestWire(Cut(wire, Peer(d), prev), agreed)
    BY <1>1, <2>1, PeersDiffer, WireMoves
  <2>7. HonestWire([Cut(wire, Peer(d), prev) EXCEPT ![d][prev] = <<>>], agreed)
    BY <2>1, <2>6, WireMoves
  <2> QED
    BY <1>1, <1>4, <2>1, <2>2, <2>5, <2>7 DEF TypeSessions
<1>7. CASE ~(prev \notin {0, s} /\ end[d][prev] = "open")
  <2>1. end' = [end EXCEPT ![d][s] = "open"] /\ UNCHANGED <<wire, excused>>
    BY <1>7 DEF Register
  <2>2. end' \in [Devices -> [Sessions -> Ends]]
    <3> HIDE DEF Ends
    <3> QED
      BY <1>1, <1>5, <2>1, Entry
  <2> QED
    BY <1>1, <1>4, <2>1, <2>2 DEF TypeSessions
<1> QED
  BY <1>6, <1>7

\* Sending over the session of the pairing.
LEMMA SendKeeps ==
    ASSUME NEW w, NEW a, HonestWire(w, a), NEW d \in Devices, NEW s \in Sessions,
           NEW m \in Messages, m = "yes" => s \in a[d]
    PROVE  HonestWire(Tell(w, Peer(d), s, m), a)
<1>1. m \in Said(Peer(d), s, a)
  BY PeersDiffer DEF Said
<1> QED
  BY <1>1, PeersDiffer, WireMoves

\* A pairing that moves on, with its session.
LEMMA Settled ==
    ASSUME IInv, NEW d \in Devices, NEW at \in Steps, NEW s \in 0..MaxSessions,
           pc' = [pc EXCEPT ![d] = at], cur' = [cur EXCEPT ![d] = s],
           at \notin {"idle", "offering"} => s # 0,
           at \in {"waitConf", "accepting"} => s \in agreed'[d],
           at = "accepting" => s \in agreed'[Peer(d)],
           \A e \in Devices : agreed[e] \subseteq agreed'[e]
    PROVE  /\ pc' \in [Devices -> Steps] /\ cur' \in [Devices -> 0..MaxSessions]
           /\ Seated(pc', cur') /\ Consented(pc', cur', agreed')
<1>1. pc' \in [Devices -> Steps] /\ cur' \in [Devices -> 0..MaxSessions]
  BY DEF IInv, TypeExchange
<1>2. \A e \in Devices : /\ pc'[e] = IF e = d THEN at ELSE pc[e]
                         /\ cur'[e] = IF e = d THEN s ELSE cur[e]
  BY DEF IInv, TypeExchange
<1>3. Seated(pc', cur')
  BY <1>2, SessionOrNone DEF IInv, Seated
<1>4. Consented(pc', cur', agreed')
  BY <1>2, PeersDiffer DEF IInv, Consented
<1> QED
  BY <1>1, <1>3, <1>4

----------------------------------------------------------------------------
(* What an action leaves alone stays as it was.                             *)

LEMMA ExchangeStands ==
    ASSUME IInv, UNCHANGED exchange
    PROVE  /\ TypeExchange' /\ Seated(pc', cur') /\ Consented(pc', cur', agreed')
           /\ agreed' = agreed
<1>1. pc' = pc /\ cur' = cur /\ known' = known /\ agreed' = agreed /\ pinned' = pinned
  BY DEF exchange
<1> QED
  BY <1>1 DEF IInv, TypeExchange, Seated, Consented

LEMMA RecordsStand ==
    ASSUME IInv, UNCHANGED records PROVE TypeRecords'
<1>1. /\ store' = store /\ copy' = copy /\ trust' = trust /\ decisions' = decisions
      /\ wish' = wish /\ overlapped' = overlapped
  BY DEF records
<1> QED
  BY <1>1 DEF IInv, TypeRecords

LEMMA SessionsStand ==
    ASSUME IInv, UNCHANGED sessions, excused' \in SUBSET Sessions, agreed' = agreed
    PROVE  TypeSessions' /\ HonestWire(wire', agreed') /\ HonestInbox(inbox', agreed')
<1>1. end' = end /\ registry' = registry /\ wire' = wire /\ inbox' = inbox
  BY DEF sessions
<1> QED
  BY <1>1 DEF IInv, TypeSessions

\* A decision about the peer.
LEMMA DecideKeeps ==
    ASSUME IInv, NEW d \in Devices, NEW l \in Levels, Decide(d, l)
    PROVE  /\ store' \in [Devices -> Levels] /\ wish' \in [Devices -> Levels]
           /\ overlapped' \in SUBSET Devices
<1>1. /\ store' = [store EXCEPT ![d] = l] /\ wish' = [wish EXCEPT ![d] = l]
      /\ overlapped' \in {overlapped, overlapped \cup {d}}
  BY DEF Decide
<1> QED
  BY <1>1 DEF IInv, TypeRecords

----------------------------------------------------------------------------
(* The actions.                                                             *)

\* Sessions: dialling, registering, delivering, losing.
LEMMA SessionSteps ==
    ASSUME IInv,
           \/ \E s \in Sessions : Connect(s)
           \/ \E d \in Devices : Watch(d) \/ \E s \in Sessions : Touch(d, s) \/ Deliver(d, s) \/ Lose(d, s)
    PROVE  IInv'
<1> DEFINE Ends == {"none", "hello", "open", "closed"}
<1>0. /\ TypeExchange /\ TypeSessions /\ TypeRecords
      /\ HonestWire(wire, agreed) /\ HonestInbox(inbox, agreed)
      /\ end \in [Devices -> [Sessions -> Ends]] /\ excused \in SUBSET Sessions
      /\ copy \in [Devices -> [Sessions -> Levels]] /\ store \in [Devices -> Levels]
      /\ registry \in [Devices -> 0..MaxSessions]
  BY DEF IInv, TypeSessions, TypeRecords
<1>d. Shower \in Devices /\ Scanner \in Devices
  BY DEF Devices
<1>1. ASSUME NEW s \in Sessions, Connect(s) PROVE IInv'
  <2>1. /\ end' = [end EXCEPT ![Scanner][s] = "hello", ![Shower][s] = Acceptor]
        /\ copy' = [copy EXCEPT ![Scanner][s] = store[Scanner], ![Shower][s] = store[Shower]]
        /\ wire' = IF Admitted THEN wire ELSE Cut(wire, Scanner, s)
    BY <1>1 DEF Connect
  <2>2. /\ UNCHANGED exchange /\ registry' = registry /\ inbox' = inbox /\ excused' = excused
        /\ store' = store /\ trust' = trust /\ decisions' = decisions /\ wish' = wish
        /\ overlapped' = overlapped
    BY <1>1 DEF Connect
  <2>3. Acceptor \in Ends /\ "hello" \in Ends
    BY DEF Acceptor
  <2>4. end' \in [Devices -> [Sessions -> Ends]]
    <3>1. [end EXCEPT ![Scanner][s] = "hello"] \in [Devices -> [Sessions -> Ends]]
      BY <1>0, <1>d, <2>3, Entry
    <3>2. [[end EXCEPT ![Scanner][s] = "hello"] EXCEPT ![Shower][s] = Acceptor]
            \in [Devices -> [Sessions -> Ends]]
      <4> HIDE DEF Ends
      <4> QED
        BY <1>d, <2>3, <3>1, Entry
    <3> QED
      BY <2>1, <3>2
  <2>5. copy' \in [Devices -> [Sessions -> Levels]]
    <3>1. store[Scanner] \in Levels /\ store[Shower] \in Levels
      BY <1>0, <1>d
    <3>2. [copy EXCEPT ![Scanner][s] = store[Scanner]] \in [Devices -> [Sessions -> Levels]]
      BY <1>0, <1>d, <3>1, Entry
    <3>3. [[copy EXCEPT ![Scanner][s] = store[Scanner]] EXCEPT ![Shower][s] = store[Shower]]
            \in [Devices -> [Sessions -> Levels]]
      BY <1>d, <3>1, <3>2, Entry
    <3> QED
      BY <2>1, <3>3
  <2>6. HonestWire(wire', agreed)
    BY <1>0, <1>d, <2>1, WireMoves
  <2>7. TypeSessions' /\ TypeRecords'
    BY <1>0, <2>2, <2>4, <2>5 DEF TypeSessions, TypeRecords
  <2> QED
    BY <1>0, <2>2, <2>6, <2>7, ExchangeStands DEF IInv
<1>2. ASSUME NEW d \in Devices, Watch(d) PROVE IInv'
  <2>1. /\ registry' = [registry EXCEPT ![d] = 0] /\ UNCHANGED exchange /\ UNCHANGED records
        /\ end' = end /\ wire' = wire /\ inbox' = inbox /\ excused' = excused
    BY <1>2 DEF Watch
  <2>2. 0 \in 0..MaxSessions
    BY PairingBounds
  <2>3. registry' \in [Devices -> 0..MaxSessions]
    BY <1>0, <2>1, <2>2
  <2>4. TypeSessions'
    BY <1>0, <2>1, <2>3 DEF TypeSessions
  <2> QED
    BY <1>0, <2>1, <2>4, ExchangeStands, RecordsStand DEF IInv
<1>3. ASSUME NEW d \in Devices, NEW s \in Sessions, Touch(d, s) PROVE IInv'
  <2>1. /\ \/ store' = [store EXCEPT ![d] = copy[d][s]]
           \/ store' = store
        /\ copy' = [copy EXCEPT ![d][s] = "absent"]
        /\ Register(d, s)
    BY <1>3 DEF Touch
  <2>2. /\ UNCHANGED exchange /\ inbox' = inbox /\ trust' = trust /\ decisions' = decisions
        /\ wish' = wish /\ overlapped' = overlapped
    BY <1>3 DEF Touch
  <2>3. copy[d][s] \in Levels /\ "absent" \in Levels
    BY <1>0 DEF Levels
  <2>4. store' \in [Devices -> Levels] /\ copy' \in [Devices -> [Sessions -> Levels]]
    BY <1>0, <2>1, <2>3, Entry
  <2>5. TypeRecords'
    BY <1>0, <2>2, <2>4 DEF TypeRecords
  <2>6. TypeSessions' /\ HonestWire(wire', agreed)
    BY <2>1, RegisterKeeps
  <2> QED
    BY <1>0, <2>2, <2>5, <2>6, ExchangeStands DEF IInv
<1>4. ASSUME NEW d \in Devices, NEW s \in Sessions, Deliver(d, s) PROVE IInv'
  <2> DEFINE m == Head(wire[d][s])
  <2>1. wire[d][s] # <<>> /\ wire' = [wire EXCEPT ![d][s] = Tail(@)]
    BY <1>4 DEF Deliver
  <2>2. /\ UNCHANGED exchange /\ UNCHANGED records /\ registry' = registry /\ excused' = excused
    BY <1>4 DEF Deliver
  <2>3. HonestWire(wire', agreed)
    BY <1>0, <2>1, WireMoves
  <2>4. m \in Said(d, s, agreed) \cup {"close"}
    <3> DEFINE T == Said(d, s, agreed) \cup {"close"}
    <3>1. wire[d][s] \in Seq(T)
      BY <1>0 DEF HonestWire
    <3> HIDE DEF T
    <3>2. Head(wire[d][s]) \in T
      BY <2>1, <3>1
    <3> QED
      BY <3>2 DEF T
  <2>5. end' \in [Devices -> [Sessions -> Ends]] /\ HonestInbox(inbox', agreed)
    <3>1. CASE m = "close"
      <4>1. end' = [end EXCEPT ![d][s] = "closed"] /\ inbox' = inbox
        BY <1>4, <3>1 DEF Deliver
      <4>2. "closed" \in Ends
        OBVIOUS
      <4>3. [end EXCEPT ![d][s] = "closed"] \in [Devices -> [Sessions -> Ends]]
        <5> HIDE DEF Ends
        <5> QED
          BY <1>0, <4>2, Entry
      <4> QED
        BY <1>0, <4>1, <4>3
    <3>2. CASE m # "close"
      <4> DEFINE got == IF inbox[d][s] \cap Slot(m) = {} THEN inbox[d][s] \cup {m} ELSE inbox[d][s]
      <4>1. end' = end /\ inbox' = [inbox EXCEPT ![d][s] =
                                      IF @ \cap Slot(m) = {} THEN @ \cup {m} ELSE @]
        BY <1>4, <3>2 DEF Deliver
      <4>2. inbox \in [Devices -> [Sessions -> SUBSET Messages]]
        BY <1>0 DEF HonestInbox
      <4>3. inbox' = [inbox EXCEPT ![d][s] = got]
        BY <4>1, <4>2
      <4>4. got \subseteq Said(d, s, agreed)
        BY <1>0, <2>4, <3>2 DEF HonestInbox
      <4>5. got \in SUBSET Messages
        BY <4>4 DEF Said
      <4> HIDE DEF got
      <4>6. /\ inbox' \in [Devices -> [Sessions -> SUBSET Messages]]
            /\ \A x \in Devices, t \in Sessions :
                 inbox'[x][t] = IF x = d /\ t = s THEN got ELSE inbox[x][t]
        BY <4>2, <4>3, <4>5, Entry
      <4>7. HonestInbox(inbox', agreed)
        BY <1>0, <4>4, <4>6 DEF HonestInbox
      <4> QED
        BY <1>0, <4>1, <4>7
    <3> QED
      BY <3>1, <3>2
  <2>6. TypeSessions'
    BY <1>0, <2>2, <2>5 DEF TypeSessions
  <2> QED
    BY <2>2, <2>3, <2>5, <2>6, ExchangeStands, RecordsStand DEF IInv
<1>5. ASSUME NEW d \in Devices, NEW s \in Sessions, Lose(d, s) PROVE IInv'
  <2>1. /\ end' = [end EXCEPT ![d][s] = "closed"]
        /\ wire' = [wire EXCEPT ![d][s] = <<>>, ![Peer(d)][s] = <<>>]
        /\ excused' = excused \cup {s}
        /\ UNCHANGED exchange /\ registry' = registry /\ inbox' = inbox /\ UNCHANGED records
    BY <1>5 DEF Lose
  <2>2. "closed" \in Ends
    OBVIOUS
  <2>3. end' \in [Devices -> [Sessions -> Ends]]
    <3> HIDE DEF Ends
    <3> QED
      BY <1>0, <2>1, <2>2, Entry
  <2>4. HonestWire([wire EXCEPT ![d][s] = <<>>], agreed)
    BY <1>0, WireMoves
  <2>5. HonestWire([[wire EXCEPT ![d][s] = <<>>] EXCEPT ![Peer(d)][s] = <<>>], agreed)
    BY <2>4, PeersDiffer, WireMoves
  <2>6. HonestWire(wire', agreed)
    BY <2>1, <2>5
  <2>7. TypeSessions'
    BY <1>0, <2>1, <2>3 DEF TypeSessions
  <2> QED
    BY <1>0, <2>1, <2>6, <2>7, ExchangeStands, RecordsStand DEF IInv
<1> QED
  BY <1>1, <1>2, <1>3, <1>4, <1>5

\* The exchange until the users look at the digits.
LEMMA OpeningSteps ==
    ASSUME IInv, Show \/ Pick \/ TakeRequest \/ TakeResponse \/ \E s \in Sessions : Scan(s)
    PROVE  IInv'
<1> DEFINE Ends == {"none", "hello", "open", "closed"}
<1>0. /\ TypeExchange /\ TypeSessions /\ TypeRecords
      /\ HonestWire(wire, agreed) /\ HonestInbox(inbox, agreed)
      /\ end \in [Devices -> [Sessions -> Ends]] /\ excused \in SUBSET Sessions
      /\ copy \in [Devices -> [Sessions -> Levels]] /\ store \in [Devices -> Levels]
      /\ registry \in [Devices -> 0..MaxSessions] /\ cur \in [Devices -> 0..MaxSessions]
  BY DEF IInv, TypeExchange, TypeSessions, TypeRecords
<1>d. Shower \in Devices /\ Scanner \in Devices
  BY DEF Devices
<1>s. {"offering", "waitReq", "waitResp", "confirm"} \subseteq Steps /\ "idle" \in Steps
  BY DEF Steps, Waiting
<1>1. ASSUME Show PROVE IInv'
  <2>1. /\ pc' = [pc EXCEPT ![Shower] = "offering"]
        /\ known' = {registry[Shower]} \ {0}
        /\ cur' = cur /\ agreed' = agreed /\ pinned' = pinned
        /\ UNCHANGED sessions /\ UNCHANGED records /\ excused' = excused
    BY <1>1 DEF Show
  <2>2. known' \in SUBSET Sessions
    BY <1>0, <1>d, <2>1, SessionOrNone
  <2>3. TypeExchange'
    BY <1>0, <1>d, <1>s, <2>1, <2>2 DEF TypeExchange
  <2>4. \A e \in Devices : pc'[e] = IF e = Shower THEN "offering" ELSE pc[e]
    BY <1>0, <2>1 DEF TypeExchange
  <2>5. Seated(pc', cur') /\ Consented(pc', cur', agreed')
    BY <2>1, <2>4 DEF IInv, Seated, Consented
  <2> QED
    BY <1>0, <2>1, <2>3, <2>5, SessionsStand, RecordsStand DEF IInv
<1>2. ASSUME Pick PROVE IInv'
  <2>1. /\ pc' = [pc EXCEPT ![Shower] = "waitReq"]
        /\ cur' = [cur EXCEPT ![Shower] = registry[Shower]]
        /\ registry[Shower] # 0
        /\ known' = known /\ agreed' = agreed /\ pinned' = pinned
        /\ UNCHANGED sessions /\ UNCHANGED records /\ excused' = excused
    BY <1>2 DEF Pick
  <2>2. registry[Shower] \in 0..MaxSessions
    BY <1>0, <1>d
  <2>3. /\ pc' \in [Devices -> Steps] /\ cur' \in [Devices -> 0..MaxSessions]
        /\ Seated(pc', cur') /\ Consented(pc', cur', agreed')
    BY <1>d, <1>s, <2>1, <2>2, Settled
  <2>4. TypeExchange'
    BY <1>0, <2>1, <2>3 DEF TypeExchange
  <2> QED
    BY <1>0, <2>1, <2>3, <2>4, SessionsStand, RecordsStand DEF IInv
<1>3. ASSUME TakeRequest PROVE IInv'
  <2>1. /\ pc[Shower] = "waitReq"
        /\ known' = known /\ agreed' = agreed /\ pinned' = pinned
        /\ inbox' = inbox /\ UNCHANGED records /\ excused' = excused
    BY <1>3 DEF TakeRequest
  <2>2. CASE Open(Shower)
    <3>1. /\ pc' = [pc EXCEPT ![Shower] = "confirm"] /\ cur' = cur
          /\ wire' = Tell(wire, Peer(Shower), cur[Shower], "resp") /\ end' = end
          /\ registry' = registry
      BY <1>3, <2>2 DEF TakeRequest, Goto, Send
    <3>2. cur[Shower] \in Sessions
      BY <1>d, <2>1 DEF IInv, Seated
    <3>3. cur' = [cur EXCEPT ![Shower] = cur[Shower]]
      BY <1>0, <3>1
    <3>4. cur[Shower] \in 0..MaxSessions /\ cur[Shower] # 0
      BY <1>0, <1>d, <3>2, PairingBounds DEF Sessions
    <3>5. /\ pc' \in [Devices -> Steps] /\ cur' \in [Devices -> 0..MaxSessions]
          /\ Seated(pc', cur') /\ Consented(pc', cur', agreed')
      BY <1>d, <1>s, <2>1, <3>1, <3>3, <3>4, Settled
    <3>6. HonestWire(wire', agreed)
      <4>1. "resp" \in Messages
        BY DEF Messages
      <4> QED
        BY <1>0, <1>d, <3>1, <3>2, <4>1, SendKeeps
    <3>7. TypeExchange' /\ TypeSessions'
      BY <1>0, <2>1, <3>1, <3>5 DEF TypeExchange, TypeSessions
    <3> QED
      BY <1>0, <2>1, <3>5, <3>6, <3>7, RecordsStand DEF IInv
  <2>3. CASE ~Open(Shower)
    <3>1. Fail(Shower)
      BY <1>3, <2>3 DEF TakeRequest
    <3>2. /\ pc' = [pc EXCEPT ![Shower] = "idle"] /\ cur' = [cur EXCEPT ![Shower] = 0]
          /\ end' \in [Devices -> [Sessions -> Ends]] /\ HonestWire(wire', agreed)
          /\ registry' = registry
      BY <1>d, <3>1, FailKeeps
    <3>3. 0 \in 0..MaxSessions
      BY PairingBounds
    <3>4. /\ pc' \in [Devices -> Steps] /\ cur' \in [Devices -> 0..MaxSessions]
          /\ Seated(pc', cur') /\ Consented(pc', cur', agreed')
      BY <1>d, <1>s, <2>1, <3>2, <3>3, Settled
    <3>5. TypeExchange' /\ TypeSessions'
      BY <1>0, <2>1, <3>2, <3>4 DEF TypeExchange, TypeSessions
    <3> QED
      BY <1>0, <2>1, <3>2, <3>4, <3>5, RecordsStand DEF IInv
  <2> QED
    BY <2>2, <2>3
<1>4. ASSUME TakeResponse PROVE IInv'
  <2>1. /\ pc[Scanner] = "waitResp"
        /\ pc' = [pc EXCEPT ![Scanner] = "confirm"] /\ cur' = cur
        /\ known' = known /\ agreed' = agreed /\ pinned' = pinned
        /\ UNCHANGED sessions /\ UNCHANGED records /\ excused' = excused
    BY <1>4 DEF TakeResponse, Goto
  <2>2. cur[Scanner] \in Sessions
    BY <1>d, <2>1 DEF IInv, Seated
  <2>3. cur' = [cur EXCEPT ![Scanner] = cur[Scanner]]
    BY <1>0, <2>1
  <2>4. cur[Scanner] \in 0..MaxSessions /\ cur[Scanner] # 0
    BY <1>0, <1>d, <2>2, PairingBounds DEF Sessions
  <2>5. /\ pc' \in [Devices -> Steps] /\ cur' \in [Devices -> 0..MaxSessions]
        /\ Seated(pc', cur') /\ Consented(pc', cur', agreed')
    BY <1>d, <1>s, <2>1, <2>3, <2>4, Settled
  <2>6. TypeExchange'
    BY <1>0, <2>1, <2>5 DEF TypeExchange
  <2> QED
    BY <1>0, <2>1, <2>5, <2>6, SessionsStand, RecordsStand DEF IInv
<1>5. ASSUME NEW s \in Sessions, Scan(s) PROVE IInv'
  <2>1. /\ pc' = [pc EXCEPT ![Scanner] = "waitResp"]
        /\ cur' = [cur EXCEPT ![Scanner] = s]
        /\ end' = [end EXCEPT ![Scanner][s] = "open", ![Shower][s] = Acceptor]
        /\ copy' = [copy EXCEPT ![Shower][s] = store[Shower]]
        /\ wire' = IF Admitted THEN Tell(wire, Shower, s, "req") ELSE Cut(wire, Scanner, s)
    BY <1>5 DEF Scan
  <2>2. /\ known' = known /\ agreed' = agreed /\ pinned' = pinned /\ registry' = registry
        /\ inbox' = inbox /\ store' = store /\ trust' = trust /\ decisions' = decisions
        /\ wish' = wish /\ overlapped' = overlapped /\ excused' = excused
    BY <1>5 DEF Scan
  <2>3. s \in 0..MaxSessions /\ s # 0
    BY PairingBounds DEF Sessions
  <2>4. /\ pc' \in [Devices -> Steps] /\ cur' \in [Devices -> 0..MaxSessions]
        /\ Seated(pc', cur') /\ Consented(pc', cur', agreed')
    BY <1>d, <1>s, <2>1, <2>2, <2>3, Settled
  <2>5. end' \in [Devices -> [Sessions -> Ends]]
    <3>1. Acceptor \in Ends /\ "open" \in Ends
      BY DEF Acceptor
    <3>2. [end EXCEPT ![Scanner][s] = "open"] \in [Devices -> [Sessions -> Ends]]
      BY <1>0, <1>d, <3>1, Entry
    <3>3. [[end EXCEPT ![Scanner][s] = "open"] EXCEPT ![Shower][s] = Acceptor]
            \in [Devices -> [Sessions -> Ends]]
      <4> HIDE DEF Ends
      <4> QED
        BY <1>d, <3>1, <3>2, Entry
    <3> QED
      BY <2>1, <3>3
  <2>6. copy' \in [Devices -> [Sessions -> Levels]]
    <3>1. store[Shower] \in Levels
      BY <1>0, <1>d
    <3> QED
      BY <1>0, <1>d, <2>1, <3>1, Entry
  <2>7. HonestWire(wire', agreed)
    <3>1. "req" \in Said(Shower, s, agreed)
      BY DEF Said, Messages
    <3> QED
      BY <1>0, <1>d, <2>1, <3>1, WireMoves
  <2>8. TypeExchange' /\ TypeSessions' /\ TypeRecords'
    BY <1>0, <2>2, <2>4, <2>5, <2>6 DEF TypeExchange, TypeSessions, TypeRecords
  <2> QED
    BY <1>0, <2>2, <2>4, <2>7, <2>8 DEF IInv
<1> QED
  BY <1>1, <1>2, <1>3, <1>4, <1>5

\* Giving up, for whatever reason.
LEMMA FailStep ==
    ASSUME IInv, NEW d \in Devices, Fail(d), excused' \in SUBSET Sessions,
           UNCHANGED <<known, agreed, pinned, inbox, records>>
    PROVE  IInv'
<1>1. /\ pc' = [pc EXCEPT ![d] = "idle"] /\ cur' = [cur EXCEPT ![d] = 0]
      /\ end' \in [Devices -> [Sessions -> {"none", "hello", "open", "closed"}]]
      /\ HonestWire(wire', agreed) /\ registry' = registry
  BY FailKeeps
<1>2. known' = known /\ agreed' = agreed /\ pinned' = pinned /\ inbox' = inbox /\ UNCHANGED records
  OBVIOUS
<1>3. 0 \in 0..MaxSessions /\ "idle" \in Steps
  BY PairingBounds DEF Steps
<1>4. /\ pc' \in [Devices -> Steps] /\ cur' \in [Devices -> 0..MaxSessions]
      /\ Seated(pc', cur') /\ Consented(pc', cur', agreed')
  BY <1>1, <1>2, <1>3, Settled
<1>5. TypeExchange' /\ TypeSessions'
  BY <1>1, <1>2, <1>4 DEF IInv, TypeExchange, TypeSessions
<1> QED
  BY <1>1, <1>2, <1>4, <1>5, RecordsStand DEF IInv

\* Going on with the same session.
LEMMA GotoKeeps ==
    ASSUME IInv, NEW d \in Devices, NEW at \in Steps, Goto(d, at), cur[d] \in Sessions,
           agreed' \in [Devices -> SUBSET Sessions],
           at \in {"waitConf", "accepting"} => cur[d] \in agreed'[d],
           at = "accepting" => cur[d] \in agreed'[Peer(d)],
           \A e \in Devices : agreed[e] \subseteq agreed'[e],
           known' = known, pinned' = pinned
    PROVE  TypeExchange' /\ Seated(pc', cur') /\ Consented(pc', cur', agreed')
<1>1. pc' = [pc EXCEPT ![d] = at] /\ cur' = cur
  BY DEF Goto
<1>2. cur[d] \in 0..MaxSessions /\ cur[d] # 0
  BY PairingBounds DEF Sessions
<1>3. cur' = [cur EXCEPT ![d] = cur[d]]
  BY <1>1 DEF IInv, TypeExchange
<1>4. /\ pc' \in [Devices -> Steps] /\ cur' \in [Devices -> 0..MaxSessions]
      /\ Seated(pc', cur') /\ Consented(pc', cur', agreed')
  BY <1>1, <1>2, <1>3, Settled
<1> QED
  BY <1>4 DEF IInv, TypeExchange

\* What a linger that was too short adds to the excuses.
LEMMA LingerKeeps ==
    ASSUME IInv, NEW d \in Devices, NEW more \in SUBSET Sessions, LingerEnds(d, more),
           cur[d] \in Sessions
    PROVE  excused' \in SUBSET Sessions
  BY DEF LingerEnds, IInv, TypeSessions

\* The users' answers.
LEMMA AnswerSteps ==
    ASSUME IInv, NEW d \in Devices,
           \/ Accept(d) \/ Decline(d) \/ Overlook(d) \/ AcceptLate(d) \/ GiveUp(d)
           \/ TakeConfirm(d) \/ Expire(d)
    PROVE  IInv'
<1>0. /\ TypeExchange /\ TypeSessions /\ TypeRecords
      /\ HonestWire(wire, agreed) /\ HonestInbox(inbox, agreed)
      /\ agreed \in [Devices -> SUBSET Sessions] /\ excused \in SUBSET Sessions
  BY DEF IInv, TypeExchange, TypeSessions
<1>c. pc[d] \notin {"idle", "offering"} => cur[d] \in Sessions
  BY DEF IInv, Seated
<1>s. {"waitConf", "declining", "accepting"} \subseteq Steps
  BY DEF Steps, Waiting, Lingering
<1>1. ASSUME Accept(d) PROVE IInv'
  <2>1. /\ agreed' = [agreed EXCEPT ![d] = @ \cup {cur[d]}]
        /\ pc[d] = "confirm" /\ known' = known /\ pinned' = pinned /\ inbox' = inbox
        /\ UNCHANGED records /\ excused' = excused
    BY <1>1 DEF Accept
  <2>2. cur[d] \in Sessions
    BY <1>c, <2>1
  <2>3. /\ agreed' \in [Devices -> SUBSET Sessions] /\ cur[d] \in agreed'[d]
        /\ \A e \in Devices : agreed[e] \subseteq agreed'[e]
    BY <1>0, <2>1, <2>2
  <2>4. HonestWire(wire, agreed') /\ HonestInbox(inbox, agreed')
    BY <1>0, <2>3, ConsentGrows
  <2>5. CASE Open(d)
    <3>1. /\ Goto(d, "waitConf") /\ wire' = Tell(wire, Peer(d), cur[d], "yes") /\ end' = end
          /\ registry' = registry
      BY <1>1, <2>5 DEF Accept, Send
    <3>2. TypeExchange' /\ Seated(pc', cur') /\ Consented(pc', cur', agreed')
      BY <1>s, <2>1, <2>2, <2>3, <3>1, GotoKeeps
    <3>3. HonestWire(wire', agreed')
      <4>1. "yes" \in Messages
        BY DEF Messages
      <4> QED
        BY <2>2, <2>3, <2>4, <3>1, <4>1, SendKeeps
    <3>4. TypeSessions'
      BY <1>0, <2>1, <3>1 DEF TypeSessions
    <3> QED
      BY <2>1, <2>4, <3>2, <3>3, <3>4, RecordsStand DEF IInv
  <2>6. CASE ~Open(d)
    <3>1. Fail(d)
      BY <1>1, <2>6 DEF Accept
    <3>2. /\ pc' = [pc EXCEPT ![d] = "idle"] /\ cur' = [cur EXCEPT ![d] = 0]
          /\ end' \in [Devices -> [Sessions -> {"none", "hello", "open", "closed"}]]
          /\ HonestWire(wire', agreed) /\ registry' = registry
      BY <3>1, FailKeeps
    <3>3. 0 \in 0..MaxSessions /\ "idle" \in Steps
      BY PairingBounds DEF Steps
    <3>4. /\ pc' \in [Devices -> Steps] /\ cur' \in [Devices -> 0..MaxSessions]
          /\ Seated(pc', cur') /\ Consented(pc', cur', agreed')
      BY <2>3, <3>2, <3>3, Settled
    <3>5. HonestWire(wire', agreed')
      BY <2>3, <3>2, ConsentGrows
    <3>6. TypeExchange' /\ TypeSessions'
      BY <1>0, <2>1, <2>3, <3>2, <3>4 DEF TypeExchange, TypeSessions
    <3> QED
      BY <2>1, <2>4, <3>4, <3>5, <3>6, RecordsStand DEF IInv
  <2> QED
    BY <2>5, <2>6
<1>2. ASSUME Decline(d) PROVE IInv'
  <2>1. /\ pc[d] = "confirm" /\ Goto(d, "declining") /\ end' = end
        /\ known' = known /\ agreed' = agreed /\ pinned' = pinned /\ registry' = registry
        /\ inbox' = inbox /\ UNCHANGED records /\ excused' = excused
    BY <1>2 DEF Decline, Send
  <2>2. wire' \in {wire, Tell(wire, Peer(d), cur[d], "no")}
    BY <1>2 DEF Decline, Send
  <2>3. "no" \in Messages
    BY DEF Messages
  <2>4. HonestWire(wire', agreed)
    BY <1>0, <1>c, <2>1, <2>2, <2>3, SendKeeps
  <2>5. TypeExchange' /\ Seated(pc', cur') /\ Consented(pc', cur', agreed')
    BY <1>0, <1>c, <1>s, <2>1, GotoKeeps
  <2>6. TypeSessions'
    BY <1>0, <2>1 DEF TypeSessions
  <2> QED
    BY <1>0, <2>1, <2>4, <2>5, <2>6, RecordsStand DEF IInv
<1>3. ASSUME Overlook(d) PROVE IInv'
  <2>1. /\ pc[d] = "confirm" /\ Goto(d, "declining") /\ excused' = excused \cup {cur[d]}
        /\ known' = known /\ agreed' = agreed /\ pinned' = pinned
        /\ UNCHANGED sessions /\ UNCHANGED records
    BY <1>3 DEF Overlook
  <2>2. TypeExchange' /\ Seated(pc', cur') /\ Consented(pc', cur', agreed')
    BY <1>0, <1>c, <1>s, <2>1, GotoKeeps
  <2>3. excused' \in SUBSET Sessions
    BY <1>0, <1>c, <2>1
  <2> QED
    BY <2>1, <2>2, <2>3, SessionsStand, RecordsStand DEF IInv
<1>4. ASSUME GiveUp(d) PROVE IInv'
  <2>1. pc[d] = "declining" /\ LingerEnds(d, {}) /\ Fail(d)
        /\ UNCHANGED <<known, agreed, pinned, inbox, records>>
    BY <1>4 DEF GiveUp
  <2>2. excused' \in SUBSET Sessions
    BY <1>c, <2>1, LingerKeeps
  <2> QED
    BY <2>1, <2>2, FailStep
<1>5. ASSUME TakeConfirm(d) PROVE IInv'
  <2>1. /\ pc[d] = "waitConf" /\ known' = known /\ agreed' = agreed /\ pinned' = pinned
        /\ inbox' = inbox /\ UNCHANGED records /\ excused' = excused
    BY <1>5 DEF TakeConfirm
  <2>2. CASE "yes" \in inbox[d][cur[d]] /\ Goto(d, "accepting") /\ UNCHANGED <<end, wire, registry>>
    <3>1. cur[d] \in agreed[d]
      BY <2>1 DEF IInv, Consented
    <3>2. cur[d] \in Sessions
      BY <1>c, <2>1
    <3>3. cur[d] \in agreed[Peer(d)]
      BY <1>0, <2>2, <3>2 DEF HonestInbox, Said
    <3>4. TypeExchange' /\ Seated(pc', cur') /\ Consented(pc', cur', agreed')
      BY <1>0, <1>s, <2>1, <2>2, <3>1, <3>2, <3>3, GotoKeeps
    <3>5. TypeSessions'
      BY <1>0, <2>1, <2>2 DEF TypeSessions
    <3> QED
      BY <1>0, <2>1, <2>2, <3>4, <3>5, RecordsStand DEF IInv
  <2>3. CASE Fail(d)
    <3>1. UNCHANGED <<known, agreed, pinned, inbox, records>>
      BY <1>5 DEF TakeConfirm
    <3> QED
      BY <1>0, <2>1, <2>3, <3>1, FailStep
  <2> QED
    BY <1>5, <2>2, <2>3 DEF TakeConfirm
<1>6. ASSUME Expire(d) PROVE IInv'
  <2>1. Excuse(d) /\ Fail(d) /\ UNCHANGED <<known, agreed, pinned, inbox, records>>
    BY <1>6 DEF Expire
  <2>2. cur[d] # 0 => cur[d] \in Sessions
    BY <1>0, SessionOrNone DEF TypeExchange
  <2>3. excused' \in SUBSET Sessions
    BY <1>0, <2>1, <2>2 DEF Excuse
  <2> QED
    BY <2>1, <2>3, FailStep
<1>7. ASSUME AcceptLate(d) PROVE IInv'
  <2>1. /\ agreed' = [agreed EXCEPT ![d] = @ \cup {cur[d]}]
        /\ pc[d] = "confirm" /\ known' = known /\ pinned' = pinned /\ inbox' = inbox
        /\ UNCHANGED records /\ excused' = excused \cup {cur[d]} /\ Fail(d)
    BY <1>7 DEF AcceptLate
  <2>2. cur[d] \in Sessions
    BY <1>c, <2>1
  <2>3. /\ agreed' \in [Devices -> SUBSET Sessions]
        /\ \A e \in Devices : agreed[e] \subseteq agreed'[e]
        /\ excused' \in SUBSET Sessions
    BY <1>0, <2>1, <2>2
  <2>4. /\ pc' = [pc EXCEPT ![d] = "idle"] /\ cur' = [cur EXCEPT ![d] = 0]
        /\ end' \in [Devices -> [Sessions -> {"none", "hello", "open", "closed"}]]
        /\ HonestWire(wire', agreed) /\ registry' = registry
    BY <2>1, FailKeeps
  <2>5. 0 \in 0..MaxSessions /\ "idle" \in Steps
    BY PairingBounds DEF Steps
  <2>6. /\ pc' \in [Devices -> Steps] /\ cur' \in [Devices -> 0..MaxSessions]
        /\ Seated(pc', cur') /\ Consented(pc', cur', agreed')
    BY <2>3, <2>4, <2>5, Settled
  <2>7. HonestWire(wire', agreed') /\ HonestInbox(inbox', agreed')
    BY <1>0, <2>1, <2>3, <2>4, ConsentGrows
  <2>8. TypeExchange' /\ TypeSessions'
    BY <1>0, <2>1, <2>3, <2>4, <2>6 DEF TypeExchange, TypeSessions
  <2> QED
    BY <2>1, <2>3, <2>6, <2>7, <2>8, RecordsStand DEF IInv
<1> QED
  BY <1>1, <1>2, <1>3, <1>4, <1>5, <1>6, <1>7

\* Recording the peer, or failing to.
LEMMA PinSteps ==
    ASSUME IInv, NEW d \in Devices, Pin(d) \/ PinFails(d)
    PROVE  IInv'
<1>0. /\ TypeExchange /\ TypeSessions /\ TypeRecords
      /\ HonestWire(wire, agreed) /\ HonestInbox(inbox, agreed)
      /\ agreed \in [Devices -> SUBSET Sessions] /\ excused \in SUBSET Sessions
      /\ pinned \in [Devices -> SUBSET Sessions]
  BY DEF IInv, TypeExchange, TypeSessions
<1>c. pc[d] = "accepting" => cur[d] \in Sessions
  BY DEF IInv, Seated
<1>1. ASSUME Pin(d) PROVE IInv'
  <2>1. /\ pc[d] = "accepting" /\ Decide(d, "trusted") /\ Leave(d)
        /\ pinned' = [pinned EXCEPT ![d] = @ \cup {cur[d]}]
        /\ known' = known /\ agreed' = agreed /\ inbox' = inbox /\ copy' = copy
        /\ trust' = trust /\ decisions' = decisions
    BY <1>1 DEF Pin
  <2>2. cur[d] \in Sessions
    BY <1>c, <2>1
  <2>3. pinned' \in [Devices -> SUBSET Sessions]
    BY <1>0, <2>1, <2>2
  <2>4. "trusted" \in Levels
    BY DEF Levels
  <2>5. TypeRecords'
    BY <1>0, <2>1, <2>4, DecideKeeps DEF TypeRecords
  <2>6. 0 \in 0..MaxSessions /\ "idle" \in Steps
    BY PairingBounds DEF Steps
  <2>7. pc' = [pc EXCEPT ![d] = "idle"] /\ cur' = [cur EXCEPT ![d] = 0]
    BY <2>1 DEF Leave
  <2>8. /\ pc' \in [Devices -> Steps] /\ cur' \in [Devices -> 0..MaxSessions]
        /\ Seated(pc', cur') /\ Consented(pc', cur', agreed')
    BY <2>1, <2>6, <2>7, Settled
  <2>9. TypeExchange'
    BY <1>0, <2>1, <2>3, <2>8 DEF TypeExchange
  <2>10. TypeSessions' /\ HonestWire(wire', agreed)
    <3>1. CASE d \notin Daemons
      <4>1. CloseEnd(d, cur[d]) /\ LingerEnds(d, {}) /\ registry' = registry
        BY <1>1, <3>1 DEF Pin
      <4>2. excused' \in SUBSET Sessions
        BY <2>2, <4>1, LingerKeeps
      <4> QED
        BY <1>0, <2>2, <4>1, <4>2, CloseEndKeeps DEF TypeSessions
    <3>2. CASE d \in Daemons /\ d = Scanner /\ Open(d)
      <4>1. Register(d, cur[d])
        BY <1>1, <3>2 DEF Pin
      <4> QED
        BY <2>2, <4>1, RegisterKeeps
    <3>3. CASE d \in Daemons /\ ~(d = Scanner /\ Open(d))
      <4>1. UNCHANGED <<end, wire, registry, excused>>
        BY <1>1, <3>3 DEF Pin
      <4> QED
        BY <1>0, <4>1 DEF TypeSessions
    <3> QED
      BY <3>1, <3>2, <3>3
  <2> QED
    BY <1>0, <2>1, <2>5, <2>8, <2>9, <2>10 DEF IInv
<1>2. ASSUME PinFails(d) PROVE IInv'
  <2>1. pc[d] = "accepting" /\ LingerEnds(d, {cur[d]}) /\ Fail(d)
        /\ UNCHANGED <<known, agreed, pinned, inbox, records>>
    BY <1>2 DEF PinFails
  <2>2. excused' \in SUBSET Sessions
    BY <1>c, <2>1, LingerKeeps
  <2> QED
    BY <2>1, <2>2, FailStep
<1> QED
  BY <1>1, <1>2

\* What the users decide meanwhile.
LEMMA DecisionSteps ==
    ASSUME IInv, NEW d \in Devices,
           WriteTrust(d) \/ Unpair(d) \/ \E l \in {"trusted", "owned"} : ReadTrust(d, l)
    PROVE  IInv'
<1>0. TypeRecords /\ trust \in [Devices -> Levels] /\ decisions \in 0..MaxDecisions
      /\ excused \in SUBSET Sessions
  BY DEF IInv, TypeRecords, TypeSessions
<1>1. UNCHANGED exchange /\ UNCHANGED sessions /\ excused' = excused /\ copy' = copy
  BY DEF WriteTrust, Unpair, ReadTrust
<1>2. "absent" \in Levels /\ {"trusted", "owned"} \subseteq Levels
  BY DEF Levels
<1>3. TypeRecords'
  <2>1. ASSUME WriteTrust(d) PROVE TypeRecords'
    <3>1. Decide(d, trust[d]) /\ trust' = [trust EXCEPT ![d] = "absent"] /\ decisions' = decisions
      BY <2>1 DEF WriteTrust
    <3> QED
      BY <1>0, <1>1, <1>2, <3>1, DecideKeeps DEF TypeRecords
  <2>2. ASSUME Unpair(d) PROVE TypeRecords'
    <3>1. Decide(d, "absent") /\ trust' = trust /\ decisions' = decisions + 1
          /\ decisions < MaxDecisions
      BY <2>2 DEF Unpair
    <3>2. decisions' \in 0..MaxDecisions
      BY <1>0, <3>1, PairingBounds
    <3> QED
      BY <1>0, <1>1, <1>2, <3>1, <3>2, DecideKeeps DEF TypeRecords
  <2>3. ASSUME NEW l \in {"trusted", "owned"}, ReadTrust(d, l) PROVE TypeRecords'
    <3>1. /\ trust' = [trust EXCEPT ![d] = l] /\ decisions' = decisions + 1
          /\ decisions < MaxDecisions
          /\ store' = store /\ wish' = wish /\ overlapped' = overlapped
      BY <2>3 DEF ReadTrust
    <3>2. decisions' \in 0..MaxDecisions
      BY <1>0, <3>1, PairingBounds
    <3> QED
      BY <1>0, <1>1, <1>2, <3>1, <3>2 DEF TypeRecords
  <2> QED
    BY <2>1, <2>2, <2>3
<1> QED
  BY <1>0, <1>1, <1>3, ExchangeStands, SessionsStand DEF IInv

----------------------------------------------------------------------------
(* The theorems.                                                            *)

LEMMA InitIInv == Init => IInv
<1> SUFFICES ASSUME Init PROVE IInv
  OBVIOUS
<1>1. 0 \in 0..MaxSessions /\ 0 \in 0..MaxDecisions
  BY PairingBounds
<1>2. TypeExchange
  BY <1>1 DEF Init, TypeExchange, All, Steps
<1>3. TypeSessions
  BY <1>1 DEF Init, TypeSessions, All, PerSession
<1>4. TypeRecords
  <2>1. PICK l \in InitialLevels : store = All(l) /\ wish = All(l)
    BY DEF Init
  <2>2. l \in Levels
    BY InitialLevelsAreLevels DEF Levels
  <2>3. store \in [Devices -> Levels] /\ wish \in [Devices -> Levels]
    BY <2>1, <2>2 DEF All
  <2> QED
    BY <1>1, <2>3 DEF Init, TypeRecords, All, PerSession, Levels
<1>5. HonestWire(wire, agreed)
  BY DEF Init, HonestWire, All, PerSession
<1>6. HonestInbox(inbox, agreed)
  BY DEF Init, HonestInbox, All, PerSession
<1>7. Seated(pc, cur) /\ Consented(pc, cur, agreed)
  BY DEF Init, Seated, Consented, All
<1> QED
  BY <1>2, <1>3, <1>4, <1>5, <1>6, <1>7 DEF IInv

LEMMA StepIInv == IInv /\ [Next]_vars => IInv'
<1> SUFFICES ASSUME IInv, [Next]_vars PROVE IInv'
  OBVIOUS
<1>1. CASE UNCHANGED vars
  <2>1. UNCHANGED exchange /\ UNCHANGED sessions /\ UNCHANGED records /\ excused' = excused
    BY <1>1 DEF vars
  <2>2. excused' \in SUBSET Sessions
    BY <2>1 DEF IInv, TypeSessions
  <2> QED
    BY <2>1, <2>2, ExchangeStands, SessionsStand, RecordsStand DEF IInv
<1>2. CASE Next
  BY <1>2, SessionSteps, OpeningSteps, AnswerSteps, PinSteps, DecisionSteps DEF Next
<1> QED
  BY <1>1, <1>2

\* The records, sessions, channels and inboxes keep their shape, whatever is
\* decided, superseded, lost or written back.
THEOREM PairingTypeCorrect == Spec => []TypeOK
<1>1. IInv => TypeOK
  BY DEF IInv, TypeExchange, TypeSessions, TypeRecords, HonestWire, HonestInbox, TypeOK, Steps
<1> QED
  BY <1>1, InitIInv, StepIInv, PTL DEF Spec

\* Only an accepting user consents, and only Pin records the peer.
LEMMA OthersStandBy ==
    ASSUME Next, ~(\E d \in Devices : Accept(d) \/ AcceptLate(d) \/ Pin(d))
    PROVE  agreed' = agreed /\ pinned' = pinned
<1>1. CASE Show \/ Pick \/ TakeRequest \/ TakeResponse \/ \E s \in Sessions : Connect(s) \/ Scan(s)
  BY <1>1 DEF Show, Pick, TakeRequest, TakeResponse, Connect, Scan, exchange
<1>2. ASSUME NEW d \in Devices,
             \/ Decline(d) \/ Overlook(d) \/ GiveUp(d) \/ TakeConfirm(d) \/ PinFails(d)
             \/ Expire(d) \/ Watch(d) \/ WriteTrust(d) \/ Unpair(d)
             \/ \E l \in {"trusted", "owned"} : ReadTrust(d, l)
             \/ \E s \in Sessions : Touch(d, s) \/ Deliver(d, s) \/ Lose(d, s)
      PROVE  agreed' = agreed /\ pinned' = pinned
  BY <1>2 DEF Decline, Overlook, GiveUp, TakeConfirm, PinFails, Expire, Watch, WriteTrust,
              Unpair, ReadTrust, Touch, Deliver, Lose, exchange
<1> QED
  BY <1>1, <1>2 DEF Next

LEMMA StepConsents == IInv /\ [Next]_vars => [Consent!Next]_<<agreed, pinned>>
<1> SUFFICES ASSUME IInv, [Next]_vars PROVE Consent!Next \/ (agreed' = agreed /\ pinned' = pinned)
  OBVIOUS
<1>0. pinned \in [Devices -> SUBSET Sessions] /\ agreed \in [Devices -> SUBSET Sessions]
  BY DEF IInv, TypeExchange
<1>1. CASE UNCHANGED vars
  BY <1>1 DEF vars, exchange
<1>2. ASSUME NEW d \in Devices, Accept(d) \/ AcceptLate(d) PROVE Consent!Next
  <2>1. /\ pc[d] = "confirm" /\ pinned' = pinned
        /\ agreed' = [agreed EXCEPT ![d] = @ \cup {cur[d]}]
    BY <1>2 DEF Accept, AcceptLate
  <2>2. cur[d] \in Sessions
    BY <2>1 DEF IInv, Seated
  <2>3. Consent!Agree(d, cur[d])
    BY <2>1 DEF Consent!Agree
  <2> QED
    BY <2>2, <2>3 DEF Consent!Next
<1>3. ASSUME NEW d \in Devices, Pin(d) PROVE Consent!Next
  <2>1. /\ pc[d] = "accepting" /\ agreed' = agreed
        /\ pinned' = [pinned EXCEPT ![d] = @ \cup {cur[d]}]
    BY <1>3 DEF Pin
  <2>2. cur[d] \in Sessions
    BY <2>1 DEF IInv, Seated
  <2>3. \A e \in Devices : cur[d] \in agreed[e]
    BY <2>1, PeersDiffer DEF IInv, Consented
  <2>4. Consent!Pin(d, cur[d])
    BY <2>1, <2>3 DEF Consent!Pin
  <2> QED
    BY <2>2, <2>4 DEF Consent!Next
<1>4. CASE Next /\ ~(\E d \in Devices : Accept(d) \/ AcceptLate(d) \/ Pin(d))
  BY <1>4, OthersStandBy
<1> QED
  BY <1>1, <1>2, <1>3, <1>4

\* Neither device pins the other's keys but in an exchange to which both users
\* agreed: answers cannot be forged by a supersession, a lost session, a close
\* that overtakes them or an answer left over from another session.
THEOREM PairingNeedsConsent == Spec => ImplementsMutualConsent
<1>1. Init => Consent!Init
  BY DEF Init, Consent!Init, All
<1> QED
  BY <1>1, InitIInv, StepIInv, StepConsents, PTL
  DEF Spec, ImplementsMutualConsent, Consent!Spec, Consent!vars

----------------------------------------------------------------------------
(* Decisions.                                                               *)

\* Where no decision met a record being written back, the store holds what was
\* decided, and a record on its way back says the same.
Fresh(d) ==
    \/ d \in overlapped
    \/ store[d] = wish[d] /\ \A s \in Sessions : copy[d][s] \in {"absent", store[d]}
AllFresh == \A d \in Devices : Fresh(d)

\* A decision: the device's records agree, or the device is marked.
LEMMA DecideFresh ==
    ASSUME IInv, AllFresh, NEW d \in Devices, NEW l, Decide(d, l), copy' = copy
    PROVE  AllFresh'
<1>1. /\ store' = [store EXCEPT ![d] = l] /\ wish' = [wish EXCEPT ![d] = l]
      /\ overlapped \subseteq overlapped'
      /\ d \in overlapped' \/ \A s \in Sessions : copy[d][s] = "absent"
  BY DEF Decide
<1>2. \A e \in Devices : /\ store'[e] = IF e = d THEN l ELSE store[e]
                         /\ wish'[e] = IF e = d THEN l ELSE wish[e]
  BY <1>1 DEF IInv, TypeRecords
<1> QED
  BY <1>1, <1>2 DEF AllFresh, Fresh

LEMMA StepFresh == IInv /\ AllFresh /\ [Next]_vars => AllFresh'
<1> SUFFICES ASSUME IInv, AllFresh, [Next]_vars PROVE AllFresh'
  OBVIOUS
<1>0. copy \in [Devices -> [Sessions -> Levels]] /\ store \in [Devices -> Levels]
  BY DEF IInv, TypeRecords
<1>d. Shower \in Devices /\ Scanner \in Devices /\ Shower # Scanner
  BY TwoDevices DEF Devices
<1>1. ASSUME store' = store, wish' = wish, overlapped' = overlapped, copy' = copy
      PROVE  AllFresh'
  BY <1>1 DEF AllFresh, Fresh
<1>2. ASSUME NEW s \in Sessions, Connect(s) PROVE AllFresh'
  <2>1. /\ copy' = [copy EXCEPT ![Scanner][s] = store[Scanner], ![Shower][s] = store[Shower]]
        /\ store' = store /\ wish' = wish /\ overlapped' = overlapped
    BY <1>2 DEF Connect
  <2>2. \A d \in Devices, t \in Sessions : copy'[d][t] \in {copy[d][t], store[d]}
    BY <1>0, <1>d, <2>1 DEF Devices
  <2> QED
    BY <2>1, <2>2 DEF AllFresh, Fresh
<1>3. ASSUME NEW s \in Sessions, Scan(s) PROVE AllFresh'
  <2>1. /\ copy' = [copy EXCEPT ![Shower][s] = store[Shower]]
        /\ store' = store /\ wish' = wish /\ overlapped' = overlapped
    BY <1>3 DEF Scan
  <2>2. \A d \in Devices, t \in Sessions : copy'[d][t] \in {copy[d][t], store[d]}
    BY <1>0, <1>d, <2>1 DEF Devices
  <2> QED
    BY <2>1, <2>2 DEF AllFresh, Fresh
<1>4. ASSUME NEW d \in Devices, NEW s \in Sessions, Touch(d, s) PROVE AllFresh'
  <2>1. /\ \/ copy[d][s] # "absent" /\ store' = [store EXCEPT ![d] = copy[d][s]]
           \/ store' = store
        /\ copy' = [copy EXCEPT ![d][s] = "absent"]
        /\ wish' = wish /\ overlapped' = overlapped
    BY <1>4 DEF Touch
  <2>2. \A e \in Devices, t \in Sessions : copy'[e][t] \in {copy[e][t], "absent"}
    BY <1>0, <2>1
  <2>3. \A e \in Devices : e \in overlapped \/ store'[e] = store[e]
    BY <1>0, <2>1 DEF AllFresh, Fresh
  <2> QED
    BY <2>1, <2>2, <2>3 DEF AllFresh, Fresh
<1>5. ASSUME NEW d \in Devices, Pin(d) \/ WriteTrust(d) \/ Unpair(d) PROVE AllFresh'
  <2>1. copy' = copy /\ \E l : Decide(d, l)
    BY <1>5 DEF Pin, WriteTrust, Unpair
  <2> QED
    BY <2>1, DecideFresh
<1>6. CASE Show \/ Pick \/ TakeRequest \/ TakeResponse
  BY <1>1, <1>6 DEF Show, Pick, TakeRequest, TakeResponse, records
<1>7. ASSUME NEW d \in Devices,
             \/ Accept(d) \/ Decline(d) \/ Overlook(d) \/ AcceptLate(d) \/ GiveUp(d)
             \/ TakeConfirm(d) \/ PinFails(d) \/ Expire(d) \/ Watch(d)
             \/ \E l \in {"trusted", "owned"} : ReadTrust(d, l)
             \/ \E s \in Sessions : Deliver(d, s) \/ Lose(d, s)
      PROVE  AllFresh'
  BY <1>1, <1>7 DEF Accept, AcceptLate, Decline, Overlook, GiveUp, TakeConfirm, PinFails, Expire, Watch,
                    ReadTrust, Deliver, Lose, records
<1>8. CASE UNCHANGED vars
  BY <1>1, <1>8 DEF vars, records
<1> QED
  BY <1>2, <1>3, <1>4, <1>5, <1>6, <1>7, <1>8 DEF Next

\* Nothing but a record written back after the decision undoes it: not a new
\* pairing, a failed write, or a session that connects later.
THEOREM DecisionsAreUndoneByOverlapOnly == Spec => []UndoneByOverlapOnly
<1>1. Init => AllFresh
  <2> SUFFICES ASSUME Init PROVE AllFresh
    OBVIOUS
  <2>1. PICK l \in InitialLevels : store = All(l) /\ wish = All(l)
    BY DEF Init
  <2> QED
    BY <2>1 DEF Init, AllFresh, Fresh, All, PerSession
<1>2. AllFresh => UndoneByOverlapOnly
  BY DEF AllFresh, Fresh, UndoneByOverlapOnly
<1> QED
  BY <1>1, <1>2, InitIInv, StepIInv, StepFresh, PTL DEF Spec
----------------------------------------------------------------------------
(* Exchanges end alike.                                                     *)

\* Message m of session s is on its way to device x, or has reached it.
Has(q, m) == \E k \in DOMAIN q : q[k] = m
Wired(w, x, s, m) == Has(w[x][s], m)
Carries(x, s, m) == Wired(wire, x, s, m) \/ m \in inbox[x][s]

\* Device d pairs over session s and is at one of these steps; it has accepted, or
\* recorded the peer; it will record the peer, or has.
Within(d, s, at) == cur[d] = s /\ pc[d] \in at
Holding(d, s) == Within(d, s, {"waitConf", "accepting"}) \/ s \in pinned[d]
Ended(d, s)   == Within(d, s, {"accepting"}) \/ s \in pinned[d]

\* The exchange over session s got as far as the shower's choice of it.
Evidence(s) ==
    \/ cur[Shower] = s
    \/ \E d \in Devices : s \in pinned[d] \/ \E m \in {"resp", "yes", "no"} : Carries(d, s, m)
    \/ Within(Scanner, s, {"confirm", "waitConf", "accepting", "declining"})

\* No session carries two exchanges: one that was chosen is not chosen again.
Registered == \A s \in Sessions : registry[Shower] = s => end[Shower][s] \in {"open", "closed"}
Used == \A s \in Sessions : end[Scanner][s] = "none" <=> end[Shower][s] = "none"
Ready(s) ==
    /\ end[Shower][s] \in {"open", "closed"}
    /\ pc[Shower] = "offering" /\ registry[Shower] = s => s \in known
Taken == \A s \in Sessions : Evidence(s) => Ready(s)
Places == Registered /\ Used /\ Taken

\* Who recorded the peer has left the exchange; who said no will not record it; a yes is
\* still there for a peer that waits for it, and was meant by who said it; and where one
\* end records the other, the other has or will.
PinnedHasLeft == \A d \in Devices, s \in Sessions : cur[d] = s => s \notin pinned[d]
NoIsFinal ==
    \A d \in Devices, s \in Sessions : Carries(Peer(d), s, "no") =>
        s \notin pinned[d] /\ (cur[d] = s => pc[d] = "declining")
YesIsTold ==
    \A d \in Devices, s \in Sessions \ excused :
        Holding(d, s) /\ cur[Peer(d)] = s => Carries(Peer(d), s, "yes")
YesIsMeant ==
    \A d \in Devices, s \in Sessions \ excused :
        Carries(d, s, "yes") /\ cur[d] = s /\ pc[d] # "declining" => Holding(Peer(d), s)
BothHold ==
    \A d \in Devices, s \in Sessions \ excused : Ended(d, s) => Holding(Peer(d), s)
Accord == PinnedHasLeft /\ NoIsFinal /\ YesIsTold /\ YesIsMeant /\ BothHold

Unseated == \A d \in Devices : pc[d] \in {"idle", "offering"} => cur[d] = 0
AlikeInv == Unseated /\ Places /\ Accord

----------------------------------------------------------------------------

\* What is found in a sequence that grew or lost its head.
LEMMA HasAppended ==
    ASSUME NEW S, NEW q \in Seq(S), NEW e \in S, NEW m
    PROVE  Has(Append(q, e), m) <=> Has(q, m) \/ m = e
<1>1. /\ DOMAIN Append(q, e) = 1..(Len(q) + 1) /\ DOMAIN q = 1..Len(q) /\ Len(q) \in Nat
      /\ \A k \in 1..Len(q) : Append(q, e)[k] = q[k]
      /\ Append(q, e)[Len(q) + 1] = e
  OBVIOUS
<1> QED
  BY <1>1 DEF Has

LEMMA HasTail ==
    ASSUME NEW S, NEW q \in Seq(S), q # <<>>, NEW m
    PROVE  /\ Has(Tail(q), m) => Has(q, m)
           /\ Has(q, m) => m = Head(q) \/ Has(Tail(q), m)
           /\ Has(q, Head(q))
<1>1. /\ DOMAIN q = 1..Len(q) /\ Len(q) \in Nat /\ Len(q) >= 1 /\ Head(q) = q[1]
      /\ DOMAIN Tail(q) = 1..(Len(q) - 1)
      /\ \A k \in 1..(Len(q) - 1) : Tail(q)[k] = q[k + 1]
  OBVIOUS
<1>2. Has(Tail(q), m) => Has(q, m)
  <2> SUFFICES ASSUME NEW k \in DOMAIN Tail(q), Tail(q)[k] = m
               PROVE  \E i \in DOMAIN q : q[i] = m
    BY DEF Has
  <2>1. k + 1 \in DOMAIN q /\ q[k + 1] = m
    BY <1>1
  <2> QED
    BY <2>1
<1>3. Has(q, m) => m = Head(q) \/ Has(Tail(q), m)
  <2> SUFFICES ASSUME NEW k \in DOMAIN q, q[k] = m, k # 1
               PROVE  \E i \in DOMAIN Tail(q) : Tail(q)[i] = m
    BY <1>1 DEF Has
  <2>1. k - 1 \in DOMAIN Tail(q) /\ Tail(q)[k - 1] = m
    BY <1>1
  <2> QED
    BY <2>1
<1>4. Has(q, Head(q))
  BY <1>1 DEF Has
<1> QED
  BY <1>2, <1>3, <1>4

\* The wire with one queue emptied, or read from.
Clear(w, d, s) == [w EXCEPT ![d][s] = <<>>]
Read(w, d, s)  == [w EXCEPT ![d][s] = Tail(@)]
WireType == [Devices -> [Sessions -> Seq(Messages \cup {"close"})]]

\* One queue of the wire replaced.
LEMMA WiredEntry ==
    ASSUME NEW w \in WireType, NEW d \in Devices, NEW s \in Sessions,
           NEW q \in Seq(Messages \cup {"close"})
    PROVE  /\ [w EXCEPT ![d][s] = q] \in WireType
           /\ \A x \in Devices, t \in Sessions : \A m :
                Wired([w EXCEPT ![d][s] = q], x, t, m)
                  <=> IF x = d /\ t = s THEN Has(q, m) ELSE Wired(w, x, t, m)
<1> DEFINE S == Seq(Messages \cup {"close"})
<1>1. w \in [Devices -> [Sessions -> S]] /\ q \in S
  BY DEF WireType
<1> DEFINE v == [w EXCEPT ![d][s] = q]
<1>2. /\ v \in [Devices -> [Sessions -> S]]
      /\ \A x \in Devices, t \in Sessions : v[x][t] = IF x = d /\ t = s THEN q ELSE w[x][t]
  <2> HIDE DEF S
  <2> QED
    BY <1>1, Entry
<1>3. v \in WireType
  BY <1>2 DEF WireType
<1> HIDE DEF v
<1>4. \A x \in Devices, t \in Sessions : \A m :
        Wired(v, x, t, m) <=> IF x = d /\ t = s THEN Has(q, m) ELSE Wired(w, x, t, m)
  BY <1>2 DEF Wired
<1> QED
  BY <1>3, <1>4 DEF v

LEMMA WiredCut ==
    ASSUME NEW w \in WireType, NEW d \in Devices, NEW s \in Sessions
    PROVE  /\ Cut(w, d, s) \in WireType /\ Clear(w, d, s) \in WireType
           /\ \A x \in Devices, t \in Sessions, m \in Messages :
                /\ Wired(Cut(w, d, s), x, t, m) <=> Wired(w, x, t, m) /\ ~(x = d /\ t = s)
                /\ Wired(Clear(w, d, s), x, t, m) <=> Wired(w, x, t, m) /\ ~(x = d /\ t = s)
<1>1. ASSUME NEW q \in Seq(Messages \cup {"close"}), \A m \in Messages : ~Has(q, m),
             NEW v, v = [w EXCEPT ![d][s] = q]
      PROVE  v \in WireType /\ \A x \in Devices, t \in Sessions, m \in Messages :
                Wired(v, x, t, m) <=> Wired(w, x, t, m) /\ ~(x = d /\ t = s)
  <2>1. v \in WireType /\ \A x \in Devices, t \in Sessions : \A m :
           Wired(v, x, t, m) <=> IF x = d /\ t = s THEN Has(q, m) ELSE Wired(w, x, t, m)
    BY <1>1, WiredEntry
  <2>2. ASSUME NEW x \in Devices, NEW t \in Sessions, NEW m \in Messages
        PROVE  Wired(v, x, t, m) <=> Wired(w, x, t, m) /\ ~(x = d /\ t = s)
    <3>1. ~Has(q, m)
      BY <1>1
    <3>2. Wired(v, x, t, m) <=> IF x = d /\ t = s THEN Has(q, m) ELSE Wired(w, x, t, m)
      BY <2>1
    <3> QED
      BY <3>1, <3>2
  <2> QED
    BY <2>1, <2>2
<1>2. <<"close">> \in Seq(Messages \cup {"close"}) /\ \A m \in Messages : ~Has(<<"close">>, m)
  BY DEF Messages, Has
<1>3. <<>> \in Seq(Messages \cup {"close"}) /\ \A m \in Messages : ~Has(<<>>, m)
  BY DEF Messages, Has
<1>4. Cut(w, d, s) \in WireType /\ \A x \in Devices, t \in Sessions, m \in Messages :
        Wired(Cut(w, d, s), x, t, m) <=> Wired(w, x, t, m) /\ ~(x = d /\ t = s)
  BY <1>1, <1>2 DEF Cut
<1>5. Clear(w, d, s) \in WireType /\ \A x \in Devices, t \in Sessions, m \in Messages :
        Wired(Clear(w, d, s), x, t, m) <=> Wired(w, x, t, m) /\ ~(x = d /\ t = s)
  BY <1>1, <1>3 DEF Clear
<1> QED
  BY <1>4, <1>5

LEMMA WiredTell ==
    ASSUME NEW w \in WireType, NEW d \in Devices, NEW s \in Sessions, NEW e \in Messages
    PROVE  /\ Tell(w, d, s, e) \in WireType
           /\ \A x \in Devices, t \in Sessions, m \in Messages :
                Wired(Tell(w, d, s, e), x, t, m) <=> Wired(w, x, t, m) \/ (x = d /\ t = s /\ m = e)
<1> DEFINE S == Messages \cup {"close"}
<1>1. w[d][s] \in Seq(S) /\ e \in S
  BY DEF WireType
<1> DEFINE q == Append(w[d][s], e)
<1>2. /\ q \in Seq(S)
      /\ \A m : (Has(q, m)) <=> Wired(w, d, s, m) \/ m = e
  <2> DEFINE p == w[d][s]
  <2>1. p \in Seq(S) /\ e \in S
    BY <1>1
  <2> HIDE DEF S, p
  <2>2. Append(p, e) \in Seq(S)
    BY <2>1
  <2>3. \A m : Has(Append(p, e), m) <=> Has(p, m) \/ m = e
    BY <2>1, HasAppended
  <2> QED
    BY <2>2, <2>3 DEF Wired, p
<1>3. Tell(w, d, s, e) = [w EXCEPT ![d][s] = q]
  BY DEF Tell, WireType
<1> HIDE DEF q
<1>4. /\ [w EXCEPT ![d][s] = q] \in WireType
      /\ \A x \in Devices, t \in Sessions : \A m :
           Wired([w EXCEPT ![d][s] = q], x, t, m)
             <=> IF x = d /\ t = s THEN Has(q, m) ELSE Wired(w, x, t, m)
  BY <1>2, WiredEntry
<1> QED
  BY <1>2, <1>3, <1>4

LEMMA WiredRead ==
    ASSUME NEW w \in WireType, NEW d \in Devices, NEW s \in Sessions, w[d][s] # <<>>
    PROVE  /\ \A x \in Devices, t \in Sessions, m \in Messages :
                /\ Wired(Read(w, d, s), x, t, m) => Wired(w, x, t, m)
                /\ Wired(w, x, t, m) => \/ Wired(Read(w, d, s), x, t, m)
                                        \/ x = d /\ t = s /\ m = Head(w[d][s])
           /\ Wired(w, d, s, Head(w[d][s]))
<1> DEFINE S == Messages \cup {"close"}
<1>1. w[d][s] \in Seq(S) /\ "close" \in S
  BY DEF WireType
<1> DEFINE q == Tail(w[d][s])
<1>2. q \in Seq(S)
  <2> HIDE DEF S
  <2> QED
    BY <1>1
<1>3. ASSUME NEW m
      PROVE  (Has(q, m) => Wired(w, d, s, m)) /\ (Wired(w, d, s, m) => m = Head(w[d][s]) \/ Has(q, m))
  <2> HIDE DEF S
  <2> QED
    BY <1>1, HasTail DEF Wired
<1>4. Wired(w, d, s, Head(w[d][s]))
  <2> HIDE DEF S
  <2> QED
    BY <1>1, HasTail DEF Wired
<1>5. Read(w, d, s) = [w EXCEPT ![d][s] = q]
  BY DEF Read, WireType
<1> HIDE DEF q
<1>6. \A x \in Devices, t \in Sessions : \A m :
        Wired([w EXCEPT ![d][s] = q], x, t, m)
          <=> IF x = d /\ t = s THEN Has(q, m) ELSE Wired(w, x, t, m)
  BY <1>2, WiredEntry
<1> QED
  BY <1>3, <1>4, <1>5, <1>6

----------------------------------------------------------------------------
(* The parts of a step, as AlikeInv sees them.                              *)

\* Ends only go from open to closed.
Forward ==
    \A x \in Devices, t \in Sessions :
        end'[x][t] = end[x][t] \/ (end[x][t] = "open" /\ end'[x][t] = "closed")

\* Nothing is told.
NothingTold ==
    \A x \in Devices, t \in Sessions, m \in Messages : Wired(wire', x, t, m) => Wired(wire, x, t, m)

\* Cutting one end of a session and what is on its way to both.
LEMMA CutBoth ==
    ASSUME IInv, NEW d \in Devices, NEW s \in Sessions,
           wire' = [Cut(wire, Peer(d), s) EXCEPT ![d][s] = <<>>]
    PROVE  NothingTold /\ \A x \in Devices, t \in Sessions, m \in Messages :
              t # s /\ Wired(wire, x, t, m) => Wired(wire', x, t, m)
<1>1. wire \in WireType
  BY DEF IInv, HonestWire, WireType
<1>2. Peer(d) \in Devices /\ "yes" \in Messages
  BY PeersDiffer DEF Messages
<1> DEFINE w == Cut(wire, Peer(d), s)
<1>3. w \in WireType /\ \A x \in Devices, t \in Sessions, m \in Messages :
        Wired(w, x, t, m) <=> Wired(wire, x, t, m) /\ ~(x = Peer(d) /\ t = s)
  BY <1>1, <1>2, WiredCut
<1> HIDE DEF w
<1>c. w \in WireType
  BY <1>3
<1>4. \A x \in Devices, t \in Sessions, m \in Messages :
        Wired(Clear(w, d, s), x, t, m) <=> Wired(w, x, t, m) /\ ~(x = d /\ t = s)
  BY <1>c, WiredCut
<1>5. wire' = Clear(w, d, s)
  BY DEF w, Clear
<1>6. \A x \in Devices, t \in Sessions, m \in Messages :
        Wired(wire', x, t, m)
          <=> Wired(wire, x, t, m) /\ ~(x = Peer(d) /\ t = s) /\ ~(x = d /\ t = s)
  <2> TAKE x \in Devices, t \in Sessions, m \in Messages
  <2>1. Wired(w, x, t, m) <=> Wired(wire, x, t, m) /\ ~(x = Peer(d) /\ t = s)
    BY <1>3
  <2>2. Wired(Clear(w, d, s), x, t, m) <=> Wired(w, x, t, m) /\ ~(x = d /\ t = s)
    BY <1>4
  <2> QED
    BY <2>1, <2>2, <1>5
<1> QED
  BY <1>6 DEF NothingTold

LEMMA CloseEndParts ==
    ASSUME IInv, NEW d \in Devices, NEW s \in Sessions, CloseEnd(d, s)
    PROVE  /\ Forward /\ NothingTold
           /\ \A x \in Devices, t \in Sessions, m \in Messages :
                t # s /\ Wired(wire, x, t, m) => Wired(wire', x, t, m)
           /\ wire[Peer(d)][s] = <<>> =>
                \A m \in Messages : Wired(wire, Peer(d), s, m) => Wired(wire', Peer(d), s, m)
<1>1. end \in [Devices -> [Sessions -> {"none", "hello", "open", "closed"}]]
  BY DEF IInv, TypeSessions
<1>2. wire[Peer(d)][s] = <<>> => \A m \in Messages : ~Wired(wire, Peer(d), s, m)
  <2>1. \A m : ~Has(<<>>, m)
    BY DEF Has
  <2> QED
    BY <2>1 DEF Wired
<1>3. CASE end[d][s] = "open"
  <2>1. end' = [end EXCEPT ![d][s] = "closed"]
        /\ wire' = [Cut(wire, Peer(d), s) EXCEPT ![d][s] = <<>>]
    BY <1>3 DEF CloseEnd
  <2>2. Forward
    BY <1>1, <1>3, <2>1 DEF Forward
  <2> QED
    BY <1>2, <2>1, <2>2, CutBoth
<1>4. CASE end[d][s] # "open"
  <2>1. end' = end /\ wire' = wire
    BY <1>4 DEF CloseEnd
  <2> QED
    BY <2>1 DEF Forward, NothingTold
<1> QED
  BY <1>3, <1>4

\* A superseded session is excused; the others keep what they carry.
LEMMA RegisterParts ==
    ASSUME IInv, NEW d \in Devices, NEW s \in Sessions, Register(d, s)
    PROVE  /\ registry' = [registry EXCEPT ![d] = s]
           /\ NothingTold /\ excused \subseteq excused'
           /\ \A x \in Devices, t \in Sessions \ excused', m \in Messages :
                Wired(wire, x, t, m) => Wired(wire', x, t, m)
           /\ \A x \in Devices, t \in Sessions :
                \/ end'[x][t] = end[x][t]
                \/ end[x][t] = "open" /\ end'[x][t] = "closed"
                \/ x = d /\ t = s /\ end'[x][t] = "open"
           /\ end'[d][s] = "open"
<1> DEFINE prev == registry[d]
<1> DEFINE Ends == {"none", "hello", "open", "closed"}
<1>1. /\ end \in [Devices -> [Sessions -> Ends]] /\ registry \in [Devices -> 0..MaxSessions]
  BY DEF IInv, TypeSessions
<1>2. registry' = [registry EXCEPT ![d] = s]
  BY DEF Register
<1>3. CASE prev \notin {0, s} /\ end[d][prev] = "open"
  <2>1. prev \in Sessions
    BY <1>1, <1>3, SessionOrNone
  <2>2. /\ end' = [end EXCEPT ![d][prev] = "closed", ![d][s] = "open"]
        /\ wire' = [Cut(wire, Peer(d), prev) EXCEPT ![d][prev] = <<>>]
        /\ excused' = excused \cup {prev}
    BY <1>3 DEF Register
  <2>3. NothingTold /\ \A x \in Devices, t \in Sessions, m \in Messages :
              t # prev /\ Wired(wire, x, t, m) => Wired(wire', x, t, m)
    BY <2>1, <2>2, CutBoth
  <2>4. \A x \in Devices, t \in Sessions :
          end'[x][t] = IF x = d /\ t = s THEN "open"
                       ELSE IF x = d /\ t = prev THEN "closed" ELSE end[x][t]
    BY <1>1, <2>1, <2>2
  <2>5. \A x \in Devices, t \in Sessions \ excused', m \in Messages :
           Wired(wire, x, t, m) => Wired(wire', x, t, m)
    <3>1. \A t \in Sessions \ excused' : t \in Sessions /\ t # prev
      BY <2>2
    <3> QED
      BY <2>3, <3>1
  <2>6. \A x \in Devices, t \in Sessions :
           \/ end'[x][t] = end[x][t]
           \/ end[x][t] = "open" /\ end'[x][t] = "closed"
           \/ x = d /\ t = s /\ end'[x][t] = "open"
    BY <1>3, <2>4
  <2>7. end'[d][s] = "open" /\ excused \subseteq excused' /\ NothingTold
    BY <2>2, <2>3, <2>4
  <2> QED
    BY <1>2, <2>5, <2>6, <2>7, Zenon
<1>4. CASE ~(prev \notin {0, s} /\ end[d][prev] = "open")
  <2>1. end' = [end EXCEPT ![d][s] = "open"] /\ wire' = wire /\ excused' = excused
    BY <1>4 DEF Register
  <2>2. \A x \in Devices, t \in Sessions :
          end'[x][t] = IF x = d /\ t = s THEN "open" ELSE end[x][t]
    BY <1>1, <2>1
  <2> QED
    BY <1>2, <2>1, <2>2 DEF NothingTold
<1> QED
  BY <1>3, <1>4

\* Ends that only close, no new registration at the shower and nothing new to choose from.
LEMMA PlacesFrame ==
    ASSUME IInv, Places, Forward, known' = known,
           \A s \in Sessions : registry'[Shower] = s => registry[Shower] = s,
           pc'[Shower] = "offering" => pc[Shower] = "offering",
           \A s \in Sessions : Evidence(s)' => Evidence(s)
    PROVE  Places'
<1>d. Shower \in Devices /\ Scanner \in Devices
  BY DEF Devices
<1>1. \A s \in Sessions :
        /\ end[Shower][s] \in {"open", "closed"} => end'[Shower][s] \in {"open", "closed"}
        /\ end'[Shower][s] = "none" <=> end[Shower][s] = "none"
        /\ end'[Scanner][s] = "none" <=> end[Scanner][s] = "none"
  BY <1>d DEF Forward
<1>2. Registered'
  BY <1>1 DEF Places, Registered
<1>3. Used'
  BY <1>1 DEF Places, Used
<1>4. Taken'
  BY <1>1 DEF Places, Taken, Ready
<1> QED
  BY <1>2, <1>3, <1>4 DEF Places

\* A step of neither exchange: no answer is told, and one that is dropped met a no, or
\* its session is excused.
Answering == {"waitConf", "accepting", "declining"}
LEMMA AccordFrame ==
    ASSUME IInv, Accord, cur' = cur, pinned' = pinned, excused \subseteq excused',
           \A d \in Devices : pc'[d] \in Answering \/ pc[d] \in Answering => pc'[d] = pc[d],
           \A x \in Devices, s \in Sessions, m \in {"yes", "no"} : Carries(x, s, m)' => Carries(x, s, m),
           \A x \in Devices, s \in Sessions \ excused' :
              Carries(x, s, "yes") => Carries(x, s, "yes")' \/ Carries(x, s, "no")
    PROVE  Accord'
<1>1. \A d \in Devices : Peer(d) \in Devices
  BY PeersDiffer
<1>2. \A d \in Devices : /\ pc'[d] = "declining" <=> pc[d] = "declining"
                         /\ pc'[d] = "accepting" <=> pc[d] = "accepting"
                         /\ pc'[d] = "waitConf" <=> pc[d] = "waitConf"
  BY DEF Answering
<1>3. \A d \in Devices, s \in Sessions : /\ Holding(d, s)' <=> Holding(d, s)
                                         /\ Ended(d, s)' <=> Ended(d, s)
  BY <1>2 DEF Holding, Ended, Within
<1>4. PinnedHasLeft'
  BY DEF Accord, PinnedHasLeft
<1>5. NoIsFinal'
  BY <1>1, <1>2 DEF Accord, NoIsFinal
<1>6. YesIsTold'
  <2> SUFFICES ASSUME NEW d \in Devices, NEW s \in Sessions \ excused',
                      Holding(d, s), cur[Peer(d)] = s
               PROVE  Carries(Peer(d), s, "yes")'
    BY <1>3 DEF YesIsTold
  <2>1. Carries(Peer(d), s, "yes")
    BY DEF Accord, YesIsTold
  <2>2. ~Carries(Peer(d), s, "no")
    BY DEF Accord, NoIsFinal, Holding, Within
  <2> QED
    BY <1>1, <2>1, <2>2
<1>7. YesIsMeant'
  BY <1>1, <1>2, <1>3 DEF Accord, YesIsMeant
<1>8. BothHold'
  BY <1>1, <1>3 DEF Accord, BothHold
<1> QED
  BY <1>4, <1>5, <1>6, <1>7, <1>8 DEF Accord

\* Evidence is in what was told, who is where and who recorded whom.
LEMMA EvidenceFrame ==
    ASSUME \A d \in Devices : cur'[d] = cur[d] \/ cur'[d] = 0,
           \A d \in Devices, s \in Sessions : s \in pinned'[d] => s \in pinned[d] \/ Evidence(s),
           cur'[Scanner] # 0 =>
              (pc'[Scanner] \in {"confirm"} \cup Answering =>
                 pc[Scanner] \in {"confirm"} \cup Answering \/ Evidence(cur[Scanner])),
           \A x \in Devices, s \in Sessions, m \in {"resp", "yes", "no"} :
              Carries(x, s, m)' => Carries(x, s, m) \/ Evidence(s)
    PROVE  \A s \in Sessions : Evidence(s)' => Evidence(s)
<1>d. Shower \in Devices /\ Scanner \in Devices
  BY DEF Devices
<1>0. \A s \in Sessions : s # 0
  BY DEF Sessions
<1> SUFFICES ASSUME NEW s \in Sessions, Evidence(s)' PROVE Evidence(s)
  OBVIOUS
<1>1. CASE cur'[Shower] = s
  BY <1>0, <1>1, <1>d DEF Evidence
<1>2. ASSUME NEW d \in Devices, s \in pinned'[d] PROVE Evidence(s)
  <2>1. s \in pinned[d] \/ Evidence(s)
    BY <1>2
  <2> QED
    BY <2>1 DEF Evidence
<1>3. ASSUME NEW d \in Devices, NEW m \in {"resp", "yes", "no"}, Carries(d, s, m)' PROVE Evidence(s)
  <2>1. Carries(d, s, m) \/ Evidence(s)
    BY <1>3
  <2> QED
    BY <2>1 DEF Evidence
<1>4. CASE cur'[Scanner] = s /\ pc'[Scanner] \in {"confirm"} \cup Answering
  <2>1. cur[Scanner] = s /\ (pc[Scanner] \in {"confirm"} \cup Answering \/ Evidence(s))
    BY <1>0, <1>4, <1>d
  <2> QED
    BY <2>1 DEF Evidence, Within, Answering
<1> QED
  BY <1>1, <1>2, <1>3, <1>4 DEF Evidence, Within, Answering

----------------------------------------------------------------------------
(* Leaving an exchange.                                                     *)

LEMMA FailAlike ==
    ASSUME IInv, AlikeInv, NEW d \in Devices, Fail(d),
           known' = known, pinned' = pinned, inbox' = inbox, excused \subseteq excused',
           \A s \in Sessions \ excused' :
              Within(d, s, {"waitConf", "accepting"}) =>
                 s \notin pinned[Peer(d)] /\ (cur[Peer(d)] = s => pc[Peer(d)] = "declining")
    PROVE  AlikeInv'
<1> DEFINE p == Peer(d)
<1>0. /\ p \in Devices /\ p # d /\ Peer(p) = d /\ \A x \in Devices : x = d \/ x = p
      /\ \A s \in Sessions : s # 0
      /\ Shower \in Devices /\ Scanner \in Devices
  BY PeersDiffer DEF Sessions, Devices
<1>1. /\ pc' = [pc EXCEPT ![d] = "idle"] /\ cur' = [cur EXCEPT ![d] = 0]
      /\ registry' = registry
  BY DEF Fail, Leave
<1>2. /\ pc'[d] = "idle" /\ cur'[d] = 0 /\ pc'[p] = pc[p] /\ cur'[p] = cur[p]
      /\ \A x \in Devices : x # d => pc'[x] = pc[x] /\ cur'[x] = cur[x]
  BY <1>0, <1>1 DEF IInv, TypeExchange
<1>3. Forward /\ NothingTold /\ \A x \in Devices, t \in Sessions, m \in Messages :
          t # cur[d] /\ Wired(wire, x, t, m) => Wired(wire', x, t, m)
  <2>1. CASE cur[d] # 0 /\ (d = Scanner \/ d \notin Daemons)
    <3>1. CloseEnd(d, cur[d])
      BY <2>1 DEF Fail
    <3>2. cur[d] \in Sessions
      BY <2>1, SessionOrNone DEF IInv, TypeExchange
    <3> QED
      BY <3>1, <3>2, CloseEndParts
  <2>2. CASE ~(cur[d] # 0 /\ (d = Scanner \/ d \notin Daemons))
    <3>1. end' = end /\ wire' = wire
      BY <2>2 DEF Fail
    <3> QED
      BY <3>1 DEF Forward, NothingTold
  <2> QED
    BY <2>1, <2>2
<1>4. /\ \A x \in Devices, s \in Sessions, m \in Messages : Carries(x, s, m)' => Carries(x, s, m)
      /\ \A x \in Devices, s \in Sessions, m \in Messages :
            s # cur[d] /\ Carries(x, s, m) => Carries(x, s, m)'
  BY <1>3 DEF Carries, NothingTold
<1>m. {"resp", "yes", "no"} \subseteq Messages
  BY DEF Messages
<1>5. \A s \in Sessions : Evidence(s)' => Evidence(s)
  <2>1. \A x \in Devices : cur'[x] = cur[x] \/ cur'[x] = 0
    BY <1>0, <1>2
  <2>2. cur'[Scanner] # 0 =>
          (pc'[Scanner] \in {"confirm"} \cup Answering => pc[Scanner] \in {"confirm"} \cup Answering)
    BY <1>0, <1>2
  <2>3. \A x \in Devices, s \in Sessions, m \in {"resp", "yes", "no"} :
          Carries(x, s, m)' => Carries(x, s, m)
    BY <1>4, <1>m
  <2> QED
    BY <2>1, <2>2, <2>3, EvidenceFrame
<1>6. Places'
  <2>1. pc'[Shower] = "offering" => pc[Shower] = "offering"
    BY <1>0, <1>2
  <2>2. Places
    BY DEF AlikeInv
  <2> QED
    BY <1>1, <1>3, <1>5, <2>1, <2>2, PlacesFrame
<1>7. Unseated'
  BY <1>0, <1>2 DEF AlikeInv, Unseated
<1>a. PinnedHasLeft /\ NoIsFinal /\ YesIsTold /\ YesIsMeant /\ BothHold
  BY DEF AlikeInv, Accord
<1>8. PinnedHasLeft'
  BY <1>0, <1>2, <1>a DEF PinnedHasLeft
<1>9. NoIsFinal'
  BY <1>0, <1>2, <1>4, <1>a, <1>m DEF NoIsFinal
<1>10. YesIsTold'
  <2> SUFFICES ASSUME NEW x \in Devices, NEW s \in Sessions \ excused',
                      Holding(x, s)', cur'[Peer(x)] = s
               PROVE  Carries(Peer(x), s, "yes")'
    BY DEF YesIsTold
  <2>1. x = d
    BY <1>0, <1>2
  <2>2. s \in pinned[d]
    BY <1>0, <1>2, <2>1 DEF Holding, Within
  <2>3. Holding(d, s) /\ cur[p] = s /\ s # cur[d]
    BY <1>2, <1>a, <2>1, <2>2 DEF Holding, PinnedHasLeft
  <2>4. Carries(p, s, "yes")
    BY <1>a, <2>3 DEF YesIsTold
  <2> QED
    BY <1>0, <1>4, <1>m, <2>1, <2>3, <2>4
<1>11. YesIsMeant'
  <2> SUFFICES ASSUME NEW x \in Devices, NEW s \in Sessions \ excused',
                      Carries(x, s, "yes")', cur'[x] = s, pc'[x] # "declining"
               PROVE  Holding(Peer(x), s)'
    BY DEF YesIsMeant
  <2>1. x = p /\ Peer(x) = d /\ cur[p] = s /\ pc[p] # "declining"
    BY <1>0, <1>2
  <2>2. Carries(p, s, "yes")
    BY <1>0, <1>4, <1>m, <2>1
  <2>3. Holding(d, s)
    BY <1>0, <1>a, <2>1, <2>2 DEF YesIsMeant
  <2>4. s \in pinned[d]
    BY <2>1, <2>3 DEF Holding
  <2> QED
    BY <2>1, <2>4 DEF Holding
<1>12. BothHold'
  <2> SUFFICES ASSUME NEW x \in Devices, NEW s \in Sessions \ excused', Ended(x, s)'
               PROVE  Holding(Peer(x), s)'
    BY DEF BothHold
  <2>1. Ended(x, s)
    BY <1>0, <1>2 DEF Ended, Within
  <2>2. Holding(Peer(x), s)
    BY <1>a, <2>1 DEF BothHold
  <2>3. CASE x = d
    BY <1>2, <2>2, <2>3 DEF Holding, Within
  <2>4. CASE x = p
    <3>1. s \in pinned[d]
      BY <1>0, <2>1, <2>2, <2>4 DEF Holding, Ended, Within
    <3> QED
      BY <1>0, <2>4, <3>1 DEF Holding
  <2> QED
    BY <1>0, <2>3, <2>4
<1> QED
  BY <1>6, <1>7, <1>8, <1>9, <1>10, <1>11, <1>12 DEF AlikeInv, Accord

\* A pairing that had not said yes may always leave.
LEMMA FailUntold ==
    ASSUME IInv, AlikeInv, NEW d \in Devices, Fail(d), pc[d] \notin {"waitConf", "accepting"},
           known' = known, pinned' = pinned, inbox' = inbox, excused \subseteq excused'
    PROVE  AlikeInv'
  BY FailAlike DEF Within

----------------------------------------------------------------------------
(* The actions.                                                             *)

\* Dialling, registering, delivering, losing.
LEMMA SessionStepsAlike ==
    ASSUME IInv, AlikeInv,
           \/ \E s \in Sessions : Connect(s)
           \/ \E d \in Devices : Watch(d) \/ \E s \in Sessions : Touch(d, s) \/ Deliver(d, s) \/ Lose(d, s)
    PROVE  AlikeInv'
<1>0. /\ Shower \in Devices /\ Scanner \in Devices /\ Shower # Scanner
      /\ \A s \in Sessions : s # 0
      /\ \A x \in Devices : x = Shower \/ x = Scanner
  BY TwoDevices DEF Devices, Sessions
<1>t. /\ end \in [Devices -> [Sessions -> {"none", "hello", "open", "closed"}]]
      /\ registry \in [Devices -> 0..MaxSessions]
      /\ inbox \in [Devices -> [Sessions -> SUBSET Messages]]
  BY DEF IInv, TypeSessions, HonestInbox
<1>w. wire \in WireType
  BY DEF IInv, HonestWire, WireType
<1>m. {"resp", "yes", "no"} \subseteq Messages /\ "yes" \in Messages
  BY DEF Messages
<1>a. Unseated /\ Places /\ Accord /\ Registered /\ Used /\ Taken
  BY DEF AlikeInv, Places
<1>u. UNCHANGED exchange
  BY DEF Connect, Watch, Touch, Deliver, Lose
<1>e. pc' = pc /\ cur' = cur /\ known' = known /\ pinned' = pinned
  BY <1>u DEF exchange
<1>1. Unseated'
  BY <1>a, <1>e DEF Unseated
<1>2. ASSUME \A x \in Devices, s \in Sessions, m \in Messages : Carries(x, s, m)' => Carries(x, s, m)
      PROVE  \A s \in Sessions : Evidence(s)' => Evidence(s)
  <2>1. \A x \in Devices, s \in Sessions, m \in {"resp", "yes", "no"} :
          Carries(x, s, m)' => Carries(x, s, m)
    BY <1>2, <1>m
  <2> QED
    BY <1>e, <2>1, EvidenceFrame
<1>3. ASSUME \A x \in Devices, s \in Sessions, m \in Messages : Carries(x, s, m)' => Carries(x, s, m),
             excused \subseteq excused',
             \A x \in Devices, s \in Sessions \ excused' :
                Carries(x, s, "yes") => Carries(x, s, "yes")' \/ Carries(x, s, "no")
      PROVE  Accord'
  <2>1. \A x \in Devices, s \in Sessions, m \in {"yes", "no"} : Carries(x, s, m)' => Carries(x, s, m)
    BY <1>3, <1>m
  <2> QED
    BY <1>3, <1>a, <1>e, <2>1, AccordFrame
<1>4. ASSUME NEW s \in Sessions, Connect(s) PROVE Places' /\ Accord'
  <2>1. /\ Unused(s) /\ registry' = registry /\ inbox' = inbox /\ excused' = excused
        /\ end' = [end EXCEPT ![Scanner][s] = "hello", ![Shower][s] = Acceptor]
        /\ wire' \in {wire, Cut(wire, Scanner, s)}
    BY <1>4 DEF Connect
  <2>2. end[Scanner][s] = "none" /\ end[Shower][s] = "none" /\ ~Evidence(s)
    BY <1>a, <2>1 DEF Unused, Used, Taken, Ready
  <2>3. \A x \in Devices, t \in Sessions, m \in Messages : Wired(wire', x, t, m) => Wired(wire, x, t, m)
    BY <1>0, <1>w, <2>1, WiredCut
  <2>4. \A x \in Devices, t \in Sessions, m \in Messages : Carries(x, t, m)' => Carries(x, t, m)
    BY <2>1, <2>3 DEF Carries
  <2>5. \A x \in Devices, t \in Sessions, m \in Messages :
           t # s /\ Carries(x, t, m) => Carries(x, t, m)'
    <3>1. \A x \in Devices, t \in Sessions, m \in Messages :
            t # s /\ Wired(wire, x, t, m) => Wired(wire', x, t, m)
      BY <1>0, <1>w, <2>1, WiredCut
    <3> QED
      BY <2>1, <3>1 DEF Carries
  <2>6. \A x \in Devices : ~Carries(x, s, "yes")
    BY <2>2 DEF Evidence
  <2>7. Accord'
    BY <1>3, <1>m, <2>1, <2>4, <2>5, <2>6
  <2>8. /\ \A t \in Sessions : t # s => end'[Shower][t] = end[Shower][t] /\ end'[Scanner][t] = end[Scanner][t]
        /\ end'[Scanner][s] # "none" /\ end'[Shower][s] # "none"
    BY <1>0, <1>t, <2>1 DEF Acceptor
  <2>9. registry[Shower] # s
    BY <1>a, <2>2 DEF Registered
  <2>10. \A t \in Sessions : Evidence(t)' => t # s /\ Evidence(t)
    BY <1>2, <2>2, <2>4
  <2>11. Registered'
    BY <1>a, <2>1, <2>8, <2>9 DEF Registered
  <2>12. Used'
    BY <1>a, <2>8 DEF Used
  <2>13. Taken'
    BY <1>a, <1>e, <2>1, <2>8, <2>10 DEF Taken, Ready
  <2> QED
    BY <2>7, <2>11, <2>12, <2>13 DEF Places
<1>5. ASSUME NEW d \in Devices, NEW s \in Sessions, Touch(d, s) PROVE Places' /\ Accord'
  <2>1. Register(d, s) /\ end[d][s] = "hello" /\ inbox' = inbox
    BY <1>5 DEF Touch
  <2>2. /\ registry' = [registry EXCEPT ![d] = s]
        /\ NothingTold /\ excused \subseteq excused'
        /\ \A x \in Devices, t \in Sessions \ excused', m \in Messages :
             Wired(wire, x, t, m) => Wired(wire', x, t, m)
        /\ \A x \in Devices, t \in Sessions :
             \/ end'[x][t] = end[x][t]
             \/ end[x][t] = "open" /\ end'[x][t] = "closed"
             \/ x = d /\ t = s /\ end'[x][t] = "open"
        /\ end'[d][s] = "open"
    BY <2>1, RegisterParts
  <2>3. \A x \in Devices, t \in Sessions, m \in Messages : Carries(x, t, m)' => Carries(x, t, m)
    BY <2>1, <2>2 DEF Carries, NothingTold
  <2>4. \A x \in Devices, t \in Sessions \ excused' : Carries(x, t, "yes") => Carries(x, t, "yes")'
    BY <1>m, <2>1, <2>2 DEF Carries
  <2>5. Accord'
    BY <1>3, <2>2, <2>3, <2>4
  <2>6. \A t \in Sessions : Evidence(t)' => Evidence(t)
    BY <1>2, <2>3
  <2>7. Used'
    BY <1>0, <1>a, <2>1, <2>2 DEF Used
  <2>8. \A t \in Sessions : end[Shower][t] \in {"open", "closed"} => end'[Shower][t] \in {"open", "closed"}
    BY <1>0, <2>2
  <2>9. \A t \in Sessions : registry'[Shower] = t => registry[Shower] = t \/ (d = Shower /\ t = s)
    BY <1>0, <1>t, <2>2
  <2>10. Registered'
    BY <1>a, <2>2, <2>8, <2>9 DEF Registered
  <2>11. d = Shower => ~Evidence(s)
    BY <1>a, <2>1 DEF Taken, Ready
  <2>12. Taken'
    BY <1>a, <1>e, <2>6, <2>8, <2>9, <2>11 DEF Taken, Ready
  <2> QED
    BY <2>5, <2>7, <2>10, <2>12 DEF Places
<1>6. ASSUME NEW d \in Devices, NEW s \in Sessions, Deliver(d, s) PROVE Places' /\ Accord'
  <2> DEFINE h == Head(wire[d][s])
  <2>1. /\ end[d][s] = "open" /\ wire[d][s] # <<>> /\ wire' = Read(wire, d, s)
        /\ registry' = registry /\ excused' = excused
    BY <1>6 DEF Deliver, Read
  <2>2. /\ \A x \in Devices, t \in Sessions, m \in Messages :
             /\ Wired(wire', x, t, m) => Wired(wire, x, t, m)
             /\ Wired(wire, x, t, m) => \/ Wired(wire', x, t, m)
                                        \/ x = d /\ t = s /\ m = h
        /\ Wired(wire, d, s, h)
    BY <1>w, <2>1, WiredRead
  <2> HIDE DEF h
  <2>3. Forward /\ \A x \in Devices, t \in Sessions :
           /\ \A m \in Messages : m \in inbox'[x][t] => m \in inbox[x][t] \/ (x = d /\ t = s /\ m = h)
           /\ \A m \in Messages : m \in inbox[x][t] => m \in inbox'[x][t]
           /\ x = d /\ t = s /\ h = "yes" => "yes" \in inbox'[x][t] \/ "no" \in inbox[x][t]
    <3>1. CASE h = "close"
      <4>1. end' = [end EXCEPT ![d][s] = "closed"] /\ inbox' = inbox
        BY <1>6, <3>1 DEF Deliver, h
      <4>2. Forward
        BY <1>t, <2>1, <4>1 DEF Forward
      <4> QED
        BY <3>1, <4>1, <4>2
    <3>2. CASE h # "close"
      <4> DEFINE got == IF inbox[d][s] \cap Slot(h) = {} THEN inbox[d][s] \cup {h} ELSE inbox[d][s]
      <4>1. end' = end /\ inbox' = [inbox EXCEPT ![d][s] = got]
        BY <1>6, <3>2, <1>t DEF Deliver, h
      <4>2. /\ inbox[d][s] \subseteq got /\ got \subseteq inbox[d][s] \cup {h}
            /\ h = "yes" => "yes" \in got \/ "no" \in inbox[d][s]
        BY DEF Slot
      <4> HIDE DEF got
      <4>3. \A x \in Devices, t \in Sessions :
              inbox'[x][t] = IF x = d /\ t = s THEN got ELSE inbox[x][t]
        BY <1>t, <4>1
      <4>4. Forward
        BY <4>1 DEF Forward
      <4> QED
        BY <4>2, <4>3, <4>4
    <3> QED
      BY <3>1, <3>2
  <2>4. \A x \in Devices, t \in Sessions, m \in Messages : Carries(x, t, m)' => Carries(x, t, m)
    BY <2>2, <2>3 DEF Carries
  <2>5. \A x \in Devices, t \in Sessions :
          Carries(x, t, "yes") => Carries(x, t, "yes")' \/ Carries(x, t, "no")
    BY <1>m, <2>2, <2>3 DEF Carries
  <2>6. Accord'
    BY <1>3, <2>1, <2>4, <2>5
  <2>7. \A t \in Sessions : Evidence(t)' => Evidence(t)
    BY <1>2, <2>4
  <2>8. Places'
    BY <1>a, <1>e, <2>1, <2>3, <2>7, PlacesFrame
  <2> QED
    BY <2>6, <2>8
<1>7. ASSUME NEW d \in Devices, NEW s \in Sessions, Lose(d, s) PROVE Places' /\ Accord'
  <2>1. /\ end[d][s] = "open" /\ end' = [end EXCEPT ![d][s] = "closed"]
        /\ wire' = [wire EXCEPT ![d][s] = <<>>, ![Peer(d)][s] = <<>>]
        /\ excused' = excused \cup {s} /\ registry' = registry /\ inbox' = inbox
    BY <1>7 DEF Lose
  <2>p. Peer(d) \in Devices
    BY PeersDiffer
  <2> DEFINE w == Clear(wire, d, s)
  <2>2. w \in WireType /\ \A x \in Devices, t \in Sessions, m \in Messages :
           Wired(w, x, t, m) <=> Wired(wire, x, t, m) /\ ~(x = d /\ t = s)
    BY <1>w, WiredCut
  <2>3. wire' = Clear(w, Peer(d), s)
    BY <2>1 DEF Clear
  <2> HIDE DEF w
  <2>4. \A x \in Devices, t \in Sessions, m \in Messages :
           Wired(wire', x, t, m) <=> Wired(w, x, t, m) /\ ~(x = Peer(d) /\ t = s)
    BY <2>2, <2>3, <2>p, WiredCut
  <2>5. \A x \in Devices, t \in Sessions, m \in Messages :
           /\ Carries(x, t, m)' => Carries(x, t, m)
           /\ t # s /\ Carries(x, t, m) => Carries(x, t, m)'
    BY <2>1, <2>2, <2>4 DEF Carries
  <2>6. Accord'
    BY <1>3, <1>m, <2>1, <2>5
  <2>7. \A t \in Sessions : Evidence(t)' => Evidence(t)
    BY <1>2, <2>5
  <2>8. Forward
    BY <1>t, <2>1 DEF Forward
  <2>9. Places'
    BY <1>a, <1>e, <2>1, <2>7, <2>8, PlacesFrame
  <2> QED
    BY <2>6, <2>9
<1>8. ASSUME NEW d \in Devices, Watch(d) PROVE Places' /\ Accord'
  <2>1. /\ registry' = [registry EXCEPT ![d] = 0]
        /\ end' = end /\ wire' = wire /\ inbox' = inbox /\ excused' = excused
    BY <1>8 DEF Watch
  <2>2. \A x \in Devices, t \in Sessions, m \in Messages : Carries(x, t, m)' <=> Carries(x, t, m)
    BY <2>1 DEF Carries
  <2>3. Accord'
    BY <1>3, <1>m, <2>1, <2>2
  <2>4. \A t \in Sessions : Evidence(t)' => Evidence(t)
    BY <1>2, <2>2
  <2>5. Forward /\ \A t \in Sessions : registry'[Shower] = t => registry[Shower] = t
    BY <1>0, <1>t, <2>1 DEF Forward
  <2>6. Places'
    BY <1>a, <1>e, <2>4, <2>5, PlacesFrame
  <2> QED
    BY <2>3, <2>6
<1> QED
  BY <1>1, <1>4, <1>5, <1>6, <1>7, <1>8 DEF AlikeInv

\* A step of a pairing whose session stays: what it tells is evidence already.
LEMMA PlacesOnward ==
    ASSUME IInv, Places, cur' = cur, pinned' = pinned, known' = known,
           end' = end, registry' = registry,
           pc'[Shower] = "offering" => pc[Shower] = "offering",
           pc'[Scanner] \in {"confirm"} \cup Answering =>
              pc[Scanner] \in {"confirm"} \cup Answering \/ Evidence(cur[Scanner]),
           \A x \in Devices, s \in Sessions, m \in {"resp", "yes", "no"} :
              Carries(x, s, m)' => Carries(x, s, m) \/ Evidence(s)
    PROVE  Places'
<1>1. \A s \in Sessions : Evidence(s)' => Evidence(s)
  BY EvidenceFrame
<1>2. Forward
  BY DEF Forward
<1> QED
  BY <1>1, <1>2, PlacesFrame

\* Taking a session that carries no exchange.
LEMMA EnterAccord ==
    ASSUME IInv, Accord, NEW d \in Devices, NEW s \in Sessions, NEW at \in Steps, ~Evidence(s),
           pc' = [pc EXCEPT ![d] = at], cur' = [cur EXCEPT ![d] = s],
           at \notin Answering, pc[d] \notin Answering,
           pinned' = pinned, excused' = excused,
           \A x \in Devices, t \in Sessions, m \in {"yes", "no"} : Carries(x, t, m)' <=> Carries(x, t, m)
    PROVE  Accord'
<1>0. \A x \in Devices : Peer(x) \in Devices /\ (x = Shower \/ x = Scanner)
  BY PeersDiffer DEF Devices
<1>1. \A x \in Devices : /\ pc'[x] = IF x = d THEN at ELSE pc[x]
                         /\ cur'[x] = IF x = d THEN s ELSE cur[x]
  BY DEF IInv, TypeExchange
<1>2. \A x \in Devices : /\ s \notin pinned[x] /\ ~Carries(x, s, "yes") /\ ~Carries(x, s, "no")
                         /\ ~Holding(x, s)
  BY <1>0 DEF Evidence, Holding, Within
<1>3. \A x \in Devices, t \in Sessions : /\ Holding(x, t)' <=> Holding(x, t)
                                         /\ Ended(x, t)' <=> Ended(x, t)
  BY <1>1 DEF Holding, Ended, Within, Answering
<1>4. PinnedHasLeft'
  BY <1>1, <1>2 DEF Accord, PinnedHasLeft
<1>5. NoIsFinal'
  BY <1>0, <1>1, <1>2 DEF Accord, NoIsFinal, Answering
<1>6. YesIsTold'
  BY <1>0, <1>1, <1>2, <1>3 DEF Accord, YesIsTold
<1>7. YesIsMeant'
  BY <1>0, <1>1, <1>2, <1>3 DEF Accord, YesIsMeant, Answering
<1>8. BothHold'
  BY <1>0, <1>3 DEF Accord, BothHold
<1> QED
  BY <1>4, <1>5, <1>6, <1>7, <1>8 DEF Accord

\* The exchange until the users look at the digits.
LEMMA OpeningStepsAlike ==
    ASSUME IInv, AlikeInv,
           Show \/ Pick \/ TakeRequest \/ TakeResponse \/ \E s \in Sessions : Scan(s)
    PROVE  AlikeInv'
<1>0. /\ Shower \in Devices /\ Scanner \in Devices /\ Shower # Scanner
      /\ Peer(Shower) = Scanner /\ \A s \in Sessions : s # 0
  BY TwoDevices DEF Devices, Sessions, Peer
<1>t. /\ end \in [Devices -> [Sessions -> {"none", "hello", "open", "closed"}]]
      /\ registry \in [Devices -> 0..MaxSessions] /\ cur \in [Devices -> 0..MaxSessions]
      /\ pc \in [Devices -> Steps]
  BY DEF IInv, TypeSessions, TypeExchange
<1>w. wire \in WireType
  BY DEF IInv, HonestWire, WireType
<1>m. {"req", "resp", "yes", "no"} \subseteq Messages /\ "req" \in Messages /\ "resp" \in Messages
  BY DEF Messages
<1>a. Unseated /\ Places /\ Accord /\ Registered /\ Used /\ Taken /\ PinnedHasLeft
  BY DEF AlikeInv, Places, Accord
<1>s. {"offering", "waitReq", "waitResp", "confirm", "idle"} \cap Answering = {}
      /\ {"offering", "waitReq", "waitResp", "confirm", "idle"} \subseteq Steps
  BY DEF Answering, Steps, Waiting
<1>1. ASSUME Show PROVE AlikeInv'
  <2>1. /\ pc[Shower] = "idle" /\ pc' = [pc EXCEPT ![Shower] = "offering"]
        /\ known' = {registry[Shower]} \ {0} /\ cur' = cur /\ pinned' = pinned
        /\ end' = end /\ wire' = wire /\ inbox' = inbox /\ registry' = registry /\ excused' = excused
    BY <1>1 DEF Show, sessions
  <2>2. \A x \in Devices : pc'[x] = IF x = Shower THEN "offering" ELSE pc[x]
    BY <1>t, <2>1
  <2>3. \A x, s, m : Carries(x, s, m)' <=> Carries(x, s, m)
    BY <2>1 DEF Carries
  <2>4. Accord'
    BY <1>a, <1>s, <2>1, <2>2, <2>3, AccordFrame
  <2>5. \A s \in Sessions : Evidence(s)' => Evidence(s)
    BY <1>0, <2>1, <2>2, <2>3, EvidenceFrame
  <2>6. Places'
    BY <1>0, <1>a, <2>1, <2>5 DEF Places, Registered, Used, Taken, Ready
  <2>7. Unseated'
    BY <1>a, <2>1, <2>2 DEF Unseated
  <2> QED
    BY <2>4, <2>6, <2>7 DEF AlikeInv
<1>2. ASSUME Pick PROVE AlikeInv'
  <2> DEFINE r == registry[Shower]
  <2>1. /\ pc[Shower] = "offering" /\ r # 0 /\ r \notin known
        /\ pc' = [pc EXCEPT ![Shower] = "waitReq"] /\ cur' = [cur EXCEPT ![Shower] = r]
        /\ known' = known /\ pinned' = pinned
        /\ end' = end /\ wire' = wire /\ inbox' = inbox /\ registry' = registry /\ excused' = excused
    BY <1>2 DEF Pick, sessions
  <2>2. r \in Sessions
    BY <1>0, <1>t, <2>1, SessionOrNone
  <2>3. ~Evidence(r) /\ end[Shower][r] \in {"open", "closed"}
    BY <1>a, <2>1, <2>2 DEF Taken, Ready, Registered
  <2> HIDE DEF r
  <2>4. \A x \in Devices : /\ pc'[x] = IF x = Shower THEN "waitReq" ELSE pc[x]
                           /\ cur'[x] = IF x = Shower THEN r ELSE cur[x]
    BY <1>t, <2>1
  <2>5. \A x, s, m : Carries(x, s, m)' <=> Carries(x, s, m)
    BY <2>1 DEF Carries
  <2>6. Accord'
    BY <1>0, <1>a, <1>s, <2>1, <2>2, <2>3, <2>5, EnterAccord
  <2>7. \A s \in Sessions : Evidence(s)' => s = r \/ Evidence(s)
    BY <1>0, <2>1, <2>4, <2>5 DEF Evidence, Within
  <2>8. Places'
    BY <1>0, <1>a, <2>1, <2>3, <2>4, <2>7 DEF Places, Registered, Used, Taken, Ready
  <2>9. Unseated'
    BY <1>a, <2>4 DEF Unseated
  <2> QED
    BY <2>6, <2>8, <2>9 DEF AlikeInv
<1>3. ASSUME TakeRequest PROVE AlikeInv'
  <2>1. /\ pc[Shower] = "waitReq" /\ known' = known /\ pinned' = pinned /\ inbox' = inbox
        /\ excused' = excused
    BY <1>3 DEF TakeRequest
  <2>2. CASE Open(Shower)
    <3>1. /\ pc' = [pc EXCEPT ![Shower] = "confirm"] /\ cur' = cur
          /\ wire' = Tell(wire, Scanner, cur[Shower], "resp") /\ end' = end
          /\ registry' = registry
      BY <1>0, <1>3, <2>2 DEF TakeRequest, Goto, Send
    <3>2. cur[Shower] \in Sessions
      BY <1>0, <2>1 DEF IInv, Seated
    <3>3. \A x \in Devices : pc'[x] = IF x = Shower THEN "confirm" ELSE pc[x]
      BY <1>t, <3>1
    <3>4. \A x \in Devices, t \in Sessions, m \in Messages :
            Wired(wire', x, t, m) <=> Wired(wire, x, t, m)
                                      \/ (x = Scanner /\ t = cur[Shower] /\ m = "resp")
      <4>1. Scanner \in Devices /\ "resp" \in Messages
        BY <1>0, <1>m
      <4> QED
        BY <1>w, <3>1, <3>2, <4>1, WiredTell
    <3>5. \A x \in Devices, t \in Sessions, m \in Messages :
            Carries(x, t, m)' <=> Carries(x, t, m) \/ (x = Scanner /\ t = cur[Shower] /\ m = "resp")
      BY <2>1, <3>4 DEF Carries
    <3>6. Accord'
      <4>1. \A x \in Devices, t \in Sessions, m \in {"yes", "no"} : Carries(x, t, m)' <=> Carries(x, t, m)
        BY <1>m, <3>5
      <4> QED
        BY <1>a, <1>s, <2>1, <3>1, <3>3, <4>1, AccordFrame
    <3>7. Places'
      <4>1. \A x \in Devices, t \in Sessions, m \in {"resp", "yes", "no"} :
              Carries(x, t, m)' => Carries(x, t, m) \/ Evidence(t)
        BY <1>m, <3>5 DEF Evidence
      <4> QED
        BY <1>0, <1>a, <2>1, <3>1, <3>3, <4>1, PlacesOnward
    <3>8. Unseated'
      BY <1>a, <3>1, <3>3 DEF Unseated
    <3> QED
      BY <3>6, <3>7, <3>8 DEF AlikeInv
  <2>3. CASE ~Open(Shower)
    <3>1. Fail(Shower)
      BY <1>3, <2>3 DEF TakeRequest
    <3> QED
      BY <1>0, <2>1, <3>1, FailUntold
  <2> QED
    BY <2>2, <2>3
<1>4. ASSUME TakeResponse PROVE AlikeInv'
  <2>1. /\ pc[Scanner] = "waitResp" /\ "resp" \in inbox[Scanner][cur[Scanner]]
        /\ pc' = [pc EXCEPT ![Scanner] = "confirm"] /\ cur' = cur
        /\ known' = known /\ pinned' = pinned
        /\ end' = end /\ wire' = wire /\ inbox' = inbox /\ registry' = registry /\ excused' = excused
    BY <1>4 DEF TakeResponse, Goto, sessions
  <2>2. \A x \in Devices : pc'[x] = IF x = Scanner THEN "confirm" ELSE pc[x]
    BY <1>t, <2>1
  <2>3. \A x, s, m : Carries(x, s, m)' <=> Carries(x, s, m)
    BY <2>1 DEF Carries
  <2>4. Evidence(cur[Scanner])
    <3>1. Carries(Scanner, cur[Scanner], "resp")
      BY <2>1 DEF Carries
    <3> QED
      BY <1>0, <3>1 DEF Evidence
  <2>5. Accord'
    BY <1>a, <1>s, <2>1, <2>2, <2>3, AccordFrame
  <2>6. Places'
    BY <1>0, <1>a, <2>1, <2>2, <2>3, <2>4, PlacesOnward
  <2>7. Unseated'
    BY <1>a, <2>1, <2>2 DEF Unseated
  <2> QED
    BY <2>5, <2>6, <2>7 DEF AlikeInv
<1>5. ASSUME NEW s \in Sessions, Scan(s) PROVE AlikeInv'
  <2>1. /\ pc[Scanner] = "idle" /\ Unused(s)
        /\ pc' = [pc EXCEPT ![Scanner] = "waitResp"] /\ cur' = [cur EXCEPT ![Scanner] = s]
        /\ end' = [end EXCEPT ![Scanner][s] = "open", ![Shower][s] = Acceptor]
        /\ wire' \in {Tell(wire, Shower, s, "req"), Cut(wire, Scanner, s)}
        /\ known' = known /\ pinned' = pinned /\ registry' = registry /\ inbox' = inbox
        /\ excused' = excused
    BY <1>5 DEF Scan
  <2>2. end[Scanner][s] = "none" /\ end[Shower][s] = "none" /\ ~Evidence(s)
    BY <1>a, <2>1 DEF Unused, Used, Taken, Ready
  <2>3. \A x \in Devices : ~Carries(x, s, "yes") /\ ~Carries(x, s, "no") /\ ~Carries(x, s, "resp")
    BY <2>2 DEF Evidence
  <2>4. \A x \in Devices, t \in Sessions, m \in {"resp", "yes", "no"} :
          Carries(x, t, m)' <=> Carries(x, t, m)
    <3>1. CASE wire' = Tell(wire, Shower, s, "req")
      <4>1. \A x \in Devices, t \in Sessions, m \in Messages :
              Wired(wire', x, t, m) <=> Wired(wire, x, t, m) \/ (x = Shower /\ t = s /\ m = "req")
        <5>1. Shower \in Devices /\ "req" \in Messages
          BY <1>0, <1>m
        <5> QED
          BY <1>w, <3>1, <5>1, WiredTell
      <4> QED
        BY <1>m, <2>1, <4>1 DEF Carries
    <3>2. CASE wire' = Cut(wire, Scanner, s)
      <4>1. \A x \in Devices, t \in Sessions, m \in Messages :
              Wired(wire', x, t, m) <=> Wired(wire, x, t, m) /\ ~(x = Scanner /\ t = s)
        BY <1>0, <1>w, <3>2, WiredCut
      <4> QED
        BY <1>m, <2>1, <2>3, <4>1 DEF Carries
    <3> QED
      BY <2>1, <3>1, <3>2
  <2>5. \A x \in Devices : /\ pc'[x] = IF x = Scanner THEN "waitResp" ELSE pc[x]
                           /\ cur'[x] = IF x = Scanner THEN s ELSE cur[x]
    BY <1>t, <2>1
  <2>6. Accord'
    BY <1>0, <1>a, <1>s, <2>1, <2>2, <2>4, EnterAccord
  <2>7. \A t \in Sessions : Evidence(t)' => t # s /\ Evidence(t)
    <3>1. \A t \in Sessions : Evidence(t)' => Evidence(t)
      BY <1>0, <2>1, <2>4, <2>5 DEF Evidence, Within
    <3> QED
      BY <2>2, <3>1
  <2>8. /\ \A t \in Sessions : t # s => end'[Shower][t] = end[Shower][t] /\ end'[Scanner][t] = end[Scanner][t]
        /\ end'[Scanner][s] # "none" /\ end'[Shower][s] # "none"
    BY <1>0, <1>t, <2>1 DEF Acceptor
  <2>9. registry[Shower] # s
    BY <1>a, <2>2 DEF Registered
  <2>10. Registered'
    BY <1>a, <2>1, <2>8, <2>9 DEF Registered
  <2>11. Used'
    BY <1>a, <2>8 DEF Used
  <2>12. Taken'
    <3> SUFFICES ASSUME NEW t \in Sessions, Evidence(t)' PROVE Ready(t)'
      BY DEF Taken
    <3>1. t # s /\ Ready(t)
      BY <1>a, <2>7 DEF Taken
    <3>2. pc'[Shower] = pc[Shower] /\ end'[Shower][t] = end[Shower][t]
      BY <1>0, <2>5, <2>8, <3>1
    <3> QED
      BY <2>1, <3>1, <3>2 DEF Ready
  <2>13. Unseated'
    BY <1>a, <2>5 DEF Unseated
  <2> QED
    BY <2>6, <2>10, <2>11, <2>12, <2>13 DEF AlikeInv, Places
<1> QED
  BY <1>1, <1>2, <1>3, <1>4, <1>5

\* The users' answers.
LEMMA AnswerStepsAlike ==
    ASSUME IInv, AlikeInv, NEW d \in Devices,
           \/ Accept(d) \/ Decline(d) \/ Overlook(d) \/ AcceptLate(d) \/ GiveUp(d)
           \/ TakeConfirm(d) \/ Expire(d)
    PROVE  AlikeInv'
<1> DEFINE p == Peer(d)
<1> DEFINE c == cur[d]
<1>0. /\ Shower \in Devices /\ Scanner \in Devices
      /\ p \in Devices /\ p # d /\ Peer(p) = d /\ \A x \in Devices : x = d \/ x = p
      /\ \A x \in Devices : Peer(x) \in Devices
      /\ d = Shower \/ d = Scanner
  BY PeersDiffer DEF Devices
<1>t. pc \in [Devices -> Steps] /\ cur \in [Devices -> 0..MaxSessions]
  BY DEF IInv, TypeExchange
<1>w. wire \in WireType
  BY DEF IInv, HonestWire, WireType
<1>m. {"resp", "yes", "no"} \subseteq Messages /\ "yes" \in Messages /\ "no" \in Messages
  BY DEF Messages
<1>a. /\ Unseated /\ Places /\ Accord
      /\ PinnedHasLeft /\ NoIsFinal /\ YesIsTold /\ YesIsMeant /\ BothHold
  BY DEF AlikeInv, Accord
<1>c. pc[d] \notin {"idle", "offering"} => c \in Sessions
  BY DEF IInv, Seated
<1>e. d = Shower \/ pc[d] \in {"confirm"} \cup Answering => (c \in Sessions => Evidence(c))
  BY <1>0 DEF Evidence, Within, Answering
<1> HIDE DEF p, c
<1>1. ASSUME Accept(d), Open(d) PROVE AlikeInv'
  <2>1. /\ pc[d] = "confirm" /\ pc' = [pc EXCEPT ![d] = "waitConf"] /\ cur' = cur
        /\ wire' = Tell(wire, p, c, "yes") /\ end' = end /\ registry' = registry
        /\ known' = known /\ pinned' = pinned /\ inbox' = inbox /\ excused' = excused
    BY <1>1 DEF Accept, Goto, Send, p, c
  <2>2. \A x \in Devices : pc'[x] = IF x = d THEN "waitConf" ELSE pc[x]
    BY <1>t, <2>1
  <2>3. c \in Sessions
    BY <1>c, <2>1
  <2>4. \A x \in Devices, t \in Sessions, m \in Messages :
          Carries(x, t, m)' <=> Carries(x, t, m) \/ (x = p /\ t = c /\ m = "yes")
    <3>1. \A x \in Devices, t \in Sessions, m \in Messages :
            Wired(wire', x, t, m) <=> Wired(wire, x, t, m) \/ (x = p /\ t = c /\ m = "yes")
      BY <1>0, <1>m, <1>w, <2>1, <2>3, WiredTell
    <3> QED
      BY <2>1, <3>1 DEF Carries
  <2>5. \A x \in Devices, t \in Sessions :
          /\ Holding(x, t)' <=> Holding(x, t) \/ (x = d /\ t = c)
          /\ Ended(x, t)' <=> Ended(x, t)
    BY <2>1, <2>2 DEF Holding, Ended, Within, c
  <2>6. Places'
    <3>1. \A x \in Devices, t \in Sessions, m \in {"resp", "yes", "no"} :
            Carries(x, t, m)' => Carries(x, t, m) \/ Evidence(t)
      BY <1>e, <1>m, <2>1, <2>3, <2>4
    <3>2. pc'[Scanner] \in {"confirm"} \cup Answering =>
            pc[Scanner] \in {"confirm"} \cup Answering \/ Evidence(cur[Scanner])
      BY <1>0, <2>1, <2>2
    <3> QED
      BY <1>0, <1>a, <2>1, <2>2, <3>1, <3>2, PlacesOnward
  <2>7. PinnedHasLeft'
    BY <1>a, <2>1 DEF PinnedHasLeft
  <2>8. NoIsFinal'
    <3> SUFFICES ASSUME NEW x \in Devices, NEW s \in Sessions, Carries(Peer(x), s, "no")'
                 PROVE  s \notin pinned'[x] /\ (cur'[x] = s => pc'[x] = "declining")
      BY DEF NoIsFinal
    <3>1. Carries(Peer(x), s, "no")
      BY <1>0, <1>m, <2>4
    <3>2. s \notin pinned[x] /\ (cur[x] = s => pc[x] = "declining")
      BY <1>a, <3>1 DEF NoIsFinal
    <3> QED
      BY <2>1, <2>2, <3>2
  <2>9. YesIsTold'
    <3> SUFFICES ASSUME NEW x \in Devices, NEW s \in Sessions \ excused,
                        Holding(x, s)', cur[Peer(x)] = s
                 PROVE  Carries(Peer(x), s, "yes")'
      BY <2>1 DEF YesIsTold
    <3>1. CASE Holding(x, s)
      <4>1. Carries(Peer(x), s, "yes")
        BY <1>a, <3>1 DEF YesIsTold
      <4> QED
        BY <1>0, <1>m, <2>4, <4>1
    <3>2. CASE x = d /\ s = c
      BY <1>0, <1>m, <2>3, <2>4, <3>2 DEF p
    <3> QED
      BY <2>5, <3>1, <3>2
  <2>10. YesIsMeant'
    <3> SUFFICES ASSUME NEW x \in Devices, NEW s \in Sessions \ excused,
                        Carries(x, s, "yes")', cur[x] = s, pc'[x] # "declining"
                 PROVE  Holding(Peer(x), s)'
      BY <2>1 DEF YesIsMeant
    <3>1. CASE Carries(x, s, "yes")
      <4>1. pc[x] # "declining"
        BY <2>1, <2>2
      <4>2. Holding(Peer(x), s)
        BY <1>a, <3>1, <4>1 DEF YesIsMeant
      <4> QED
        BY <1>0, <2>5, <4>2
    <3>2. CASE x = p /\ s = c
      BY <1>0, <2>5, <3>2
    <3> QED
      BY <1>m, <2>4, <3>1, <3>2
  <2>11. BothHold'
    BY <1>0, <1>a, <2>1, <2>5 DEF BothHold
  <2>12. Unseated'
    BY <1>a, <2>1, <2>2 DEF Unseated
  <2> QED
    BY <2>6, <2>7, <2>8, <2>9, <2>10, <2>11, <2>12 DEF AlikeInv, Accord
<1>2. ASSUME (Accept(d) /\ ~Open(d)) \/ AcceptLate(d) PROVE AlikeInv'
  <2>1. /\ pc[d] = "confirm" /\ Fail(d)
        /\ known' = known /\ pinned' = pinned /\ inbox' = inbox /\ excused \subseteq excused'
    BY <1>2 DEF Accept, AcceptLate
  <2> QED
    BY <2>1, FailUntold
<1>3. ASSUME Decline(d) \/ Overlook(d) PROVE AlikeInv'
  <2>1. /\ pc[d] = "confirm" /\ pc' = [pc EXCEPT ![d] = "declining"] /\ cur' = cur
        /\ wire' \in {wire, Tell(wire, p, c, "no")} /\ end' = end /\ registry' = registry
        /\ known' = known /\ pinned' = pinned /\ inbox' = inbox /\ excused \subseteq excused'
    BY <1>3 DEF Decline, Overlook, Goto, Send, sessions, p, c
  <2>2. \A x \in Devices : pc'[x] = IF x = d THEN "declining" ELSE pc[x]
    BY <1>t, <2>1
  <2>3. c \in Sessions
    BY <1>c, <2>1
  <2>4. \A x \in Devices, t \in Sessions, m \in Messages :
          /\ Carries(x, t, m) => Carries(x, t, m)'
          /\ Carries(x, t, m)' => Carries(x, t, m) \/ (x = p /\ t = c /\ m = "no")
    <3>1. \A x \in Devices, t \in Sessions, m \in Messages :
            /\ Wired(wire, x, t, m) => Wired(wire', x, t, m)
            /\ Wired(wire', x, t, m) => Wired(wire, x, t, m) \/ (x = p /\ t = c /\ m = "no")
      BY <1>0, <1>m, <1>w, <2>1, <2>3, WiredTell
    <3> QED
      BY <2>1, <3>1 DEF Carries
  <2>5. \A x \in Devices, t \in Sessions : /\ Holding(x, t)' <=> Holding(x, t)
                                           /\ Ended(x, t)' <=> Ended(x, t)
    BY <2>1, <2>2 DEF Holding, Ended, Within, c
  <2>6. Places'
    <3>1. \A x \in Devices, t \in Sessions, m \in {"resp", "yes", "no"} :
            Carries(x, t, m)' => Carries(x, t, m) \/ Evidence(t)
      BY <1>e, <1>m, <2>1, <2>3, <2>4
    <3>2. pc'[Scanner] \in {"confirm"} \cup Answering =>
            pc[Scanner] \in {"confirm"} \cup Answering \/ Evidence(cur[Scanner])
      BY <1>0, <2>1, <2>2
    <3> QED
      BY <1>0, <1>a, <2>1, <2>2, <3>1, <3>2, PlacesOnward
  <2>7. PinnedHasLeft'
    BY <1>a, <2>1 DEF PinnedHasLeft
  <2>8. NoIsFinal'
    <3> SUFFICES ASSUME NEW x \in Devices, NEW s \in Sessions, Carries(Peer(x), s, "no")'
                 PROVE  s \notin pinned[x] /\ (cur[x] = s => pc'[x] = "declining")
      BY <2>1 DEF NoIsFinal
    <3>1. CASE Carries(Peer(x), s, "no")
      BY <1>a, <2>2, <3>1 DEF NoIsFinal
    <3>2. CASE Peer(x) = p /\ s = c
      <4>1. x = d
        BY <1>0, <3>2 DEF p
      <4> QED
        BY <1>0, <1>a, <2>2, <3>2, <4>1 DEF PinnedHasLeft, c
    <3> QED
      BY <1>0, <1>m, <2>4, <3>1, <3>2
  <2>9. YesIsTold'
    BY <1>0, <1>a, <1>m, <2>1, <2>4, <2>5 DEF YesIsTold
  <2>10. YesIsMeant'
    <3> SUFFICES ASSUME NEW x \in Devices, NEW s \in Sessions \ excused',
                        Carries(x, s, "yes")', cur[x] = s, pc'[x] # "declining"
                 PROVE  Holding(Peer(x), s)'
      BY <2>1 DEF YesIsMeant
    <3>1. Carries(x, s, "yes") /\ pc[x] # "declining" /\ s \in Sessions \ excused
      BY <1>m, <2>1, <2>2, <2>4
    <3>2. Holding(Peer(x), s)
      BY <1>a, <3>1 DEF YesIsMeant
    <3> QED
      BY <1>0, <2>5, <3>2
  <2>11. BothHold'
    BY <1>0, <1>a, <2>1, <2>5 DEF BothHold
  <2>12. Unseated'
    BY <1>a, <2>1, <2>2 DEF Unseated
  <2> QED
    BY <2>6, <2>7, <2>8, <2>9, <2>10, <2>11, <2>12 DEF AlikeInv, Accord
<1>4. ASSUME GiveUp(d) PROVE AlikeInv'
  <2>1. /\ pc[d] = "declining" /\ Fail(d)
        /\ known' = known /\ pinned' = pinned /\ inbox' = inbox /\ excused \subseteq excused'
    BY <1>4 DEF GiveUp, LingerEnds
  <2> QED
    BY <2>1, FailUntold
<1>5. ASSUME TakeConfirm(d), "yes" \in inbox[d][c], Goto(d, "accepting"),
             UNCHANGED <<end, wire, registry>>
      PROVE  AlikeInv'
  <2>1. /\ pc[d] = "waitConf" /\ pc' = [pc EXCEPT ![d] = "accepting"] /\ cur' = cur
        /\ wire' = wire /\ end' = end /\ registry' = registry
        /\ known' = known /\ pinned' = pinned /\ inbox' = inbox /\ excused' = excused
    BY <1>5 DEF TakeConfirm, Goto
  <2>2. \A x \in Devices : pc'[x] = IF x = d THEN "accepting" ELSE pc[x]
    BY <1>t, <2>1
  <2>3. \A x, t, m : Carries(x, t, m)' <=> Carries(x, t, m)
    BY <2>1 DEF Carries
  <2>4. \A x \in Devices, t \in Sessions :
          /\ Holding(x, t)' <=> Holding(x, t)
          /\ Ended(x, t)' <=> Ended(x, t) \/ (x = d /\ t = c)
    BY <2>1, <2>2 DEF Holding, Ended, Within, c
  <2>5. Places'
    <3>1. pc'[Scanner] \in {"confirm"} \cup Answering =>
            pc[Scanner] \in {"confirm"} \cup Answering \/ Evidence(cur[Scanner])
      BY <1>0, <2>1, <2>2 DEF Answering
    <3> QED
      BY <1>0, <1>a, <2>1, <2>2, <2>3, <3>1, PlacesOnward
  <2>6. PinnedHasLeft'
    BY <1>a, <2>1 DEF PinnedHasLeft
  <2>7. NoIsFinal'
    BY <1>0, <1>a, <2>1, <2>2, <2>3 DEF NoIsFinal
  <2>8. YesIsTold'
    BY <1>0, <1>a, <2>1, <2>3, <2>4 DEF YesIsTold
  <2>9. YesIsMeant'
    BY <1>0, <1>a, <2>1, <2>2, <2>3, <2>4 DEF YesIsMeant
  <2>10. BothHold'
    <3> SUFFICES ASSUME NEW x \in Devices, NEW s \in Sessions \ excused, Ended(x, s)'
                 PROVE  Holding(Peer(x), s)
      BY <1>0, <2>1, <2>4 DEF BothHold
    <3>1. CASE Ended(x, s)
      BY <1>a, <3>1 DEF BothHold
    <3>2. CASE x = d /\ s = c
      <4>1. Carries(d, c, "yes") /\ cur[d] = c /\ pc[d] # "declining"
        BY <1>5, <2>1 DEF Carries, c
      <4> QED
        BY <1>a, <3>2, <4>1 DEF YesIsMeant
    <3> QED
      BY <2>4, <3>1, <3>2
  <2>11. Unseated'
    BY <1>a, <2>1, <2>2 DEF Unseated
  <2> QED
    BY <2>5, <2>6, <2>7, <2>8, <2>9, <2>10, <2>11 DEF AlikeInv, Accord
<1>6. ASSUME TakeConfirm(d), "no" \in inbox[d][c], Fail(d) PROVE AlikeInv'
  <2>1. /\ pc[d] = "waitConf" /\ known' = known /\ pinned' = pinned /\ inbox' = inbox
        /\ excused' = excused
    BY <1>6 DEF TakeConfirm
  <2>2. Carries(Peer(p), c, "no") /\ c \in Sessions
    BY <1>0, <1>6, <1>c, <2>1 DEF Carries
  <2>3. c \notin pinned[p] /\ (cur[p] = c => pc[p] = "declining")
    BY <1>0, <1>a, <2>2 DEF NoIsFinal
  <2>4. \A s \in Sessions \ excused' :
          Within(d, s, {"waitConf", "accepting"}) =>
            s \notin pinned[Peer(d)] /\ (cur[Peer(d)] = s => pc[Peer(d)] = "declining")
    BY <2>3 DEF Within, c, p
  <2> QED
    BY <1>6, <2>1, <2>4, FailAlike
<1>7. ASSUME Expire(d) PROVE AlikeInv'
  <2>1. /\ Excuse(d) /\ Fail(d) /\ pc[d] \in Waiting
        /\ known' = known /\ pinned' = pinned /\ inbox' = inbox
    BY <1>7 DEF Expire
  <2>2. excused \subseteq excused'
    BY <2>1 DEF Excuse
  <2>3. ASSUME NEW s \in Sessions \ excused', Within(d, s, {"waitConf", "accepting"})
        PROVE  s \notin pinned[Peer(d)] /\ (cur[Peer(d)] = s => pc[Peer(d)] = "declining")
    <3>1. cur[d] = s /\ s # 0 /\ pc[d] = "waitConf"
      BY <2>1, <2>3 DEF Within, Waiting, Sessions
    <3>2. ~Racing(d)
      BY <2>1, <2>3, <3>1 DEF Excuse
    <3>3. cur[Peer(d)] # s /\ ~Carries(d, s, "yes")
      BY <1>m, <3>1, <3>2 DEF Racing, Carries, Wired, Has
    <3>4. s \notin excused
      BY <2>2
    <3>5. s \in pinned[p] => Carries(d, s, "yes")
      BY <1>0, <1>a, <3>1, <3>4 DEF YesIsTold, Holding
    <3> QED
      BY <3>3, <3>5 DEF p
  <2> QED
    BY <2>1, <2>2, <2>3, FailAlike
<1> QED
  BY <1>1, <1>2, <1>3, <1>4, <1>5, <1>6, <1>7 DEF TakeConfirm, c

\* Recording the peer, or failing to.
LEMMA PinStepsAlike ==
    ASSUME IInv, AlikeInv, NEW d \in Devices, Pin(d) \/ PinFails(d)
    PROVE  AlikeInv'
<1> DEFINE p == Peer(d)
<1> DEFINE c == cur[d]
<1>0. /\ Shower \in Devices /\ Scanner \in Devices /\ Shower # Scanner
      /\ p \in Devices /\ p # d /\ Peer(p) = d /\ \A x \in Devices : x = d \/ x = p
      /\ \A x \in Devices : Peer(x) \in Devices
      /\ d = Shower \/ d = Scanner
      /\ \A s \in Sessions : s # 0
  BY PeersDiffer, TwoDevices DEF Devices, Sessions
<1>t. /\ pc \in [Devices -> Steps] /\ cur \in [Devices -> 0..MaxSessions]
      /\ pinned \in [Devices -> SUBSET Sessions] /\ registry \in [Devices -> 0..MaxSessions]
  BY DEF IInv, TypeExchange, TypeSessions
<1>m. {"resp", "yes", "no"} \subseteq Messages /\ "yes" \in Messages /\ "no" \in Messages
  BY DEF Messages
<1>a. /\ Unseated /\ Places /\ Accord
      /\ PinnedHasLeft /\ NoIsFinal /\ YesIsTold /\ YesIsMeant /\ BothHold
  BY DEF AlikeInv, Accord
<1>c. pc[d] = "accepting" /\ c \in Sessions
  BY DEF IInv, Seated, Pin, PinFails
<1>e. Evidence(c)
  BY <1>0, <1>c DEF Evidence, Within
<1> HIDE DEF p, c
<1>1. ASSUME PinFails(d) PROVE AlikeInv'
  <2>1. /\ Fail(d) /\ known' = known /\ pinned' = pinned /\ inbox' = inbox
        /\ excused \subseteq excused' /\ c \in excused'
    BY <1>1 DEF PinFails, LingerEnds, c
  <2>2. \A s \in Sessions \ excused' : ~Within(d, s, {"waitConf", "accepting"})
    BY <2>1 DEF Within, c
  <2> QED
    BY <2>1, <2>2, FailAlike
<1>2. ASSUME Pin(d) PROVE AlikeInv'
  <2>1. /\ pc' = [pc EXCEPT ![d] = "idle"] /\ cur' = [cur EXCEPT ![d] = 0]
        /\ pinned' = [pinned EXCEPT ![d] = @ \cup {c}]
        /\ known' = known /\ inbox' = inbox
    BY <1>2 DEF Pin, Leave, c
  <2>2. /\ \A x \in Devices : /\ pc'[x] = IF x = d THEN "idle" ELSE pc[x]
                              /\ cur'[x] = IF x = d THEN 0 ELSE cur[x]
                              /\ pinned'[x] = IF x = d THEN pinned[x] \cup {c} ELSE pinned[x]
    BY <1>t, <2>1
  <2>3. /\ Forward /\ NothingTold /\ excused \subseteq excused'
        /\ \A s \in Sessions : registry'[Shower] = s => registry[Shower] = s
        /\ \A t \in Sessions \ excused' : Wired(wire, p, t, "yes") => Wired(wire', p, t, "yes")
    <3>1. CASE d \notin Daemons
      <4>1. CloseEnd(d, c) /\ LingerEnds(d, {}) /\ registry' = registry
        BY <1>2, <3>1 DEF Pin, c
      <4>2. /\ Forward /\ NothingTold
            /\ \A x \in Devices, t \in Sessions, m \in Messages :
                 t # c /\ Wired(wire, x, t, m) => Wired(wire', x, t, m)
            /\ wire[p][c] = <<>> =>
                 \A m \in Messages : Wired(wire, p, c, m) => Wired(wire', p, c, m)
        BY <1>c, <4>1, CloseEndParts DEF p
      <4>3. excused \subseteq excused' /\ (wire[p][c] # <<>> => c \in excused')
        BY <4>1 DEF LingerEnds, c, p
      <4> QED
        BY <1>0, <1>m, <4>1, <4>2, <4>3
    <3>2. CASE d \in Daemons /\ d = Scanner /\ Open(d)
      <4>1. Register(d, c)
        BY <1>2, <3>2 DEF Pin, c
      <4>2. /\ registry' = [registry EXCEPT ![d] = c]
            /\ NothingTold /\ excused \subseteq excused'
            /\ \A x \in Devices, t \in Sessions \ excused', m \in Messages :
                 Wired(wire, x, t, m) => Wired(wire', x, t, m)
            /\ \A x \in Devices, t \in Sessions :
                 \/ end'[x][t] = end[x][t]
                 \/ end[x][t] = "open" /\ end'[x][t] = "closed"
                 \/ x = d /\ t = c /\ end'[x][t] = "open"
        BY <1>c, <4>1, RegisterParts
      <4>3. end[d][c] = "open"
        BY <3>2 DEF Open, c
      <4>4. Forward
        BY <4>2, <4>3 DEF Forward
      <4>5. registry'[Shower] = registry[Shower]
        BY <1>0, <1>t, <3>2, <4>2
      <4> QED
        BY <1>0, <1>m, <4>2, <4>4, <4>5
    <3>3. CASE d \in Daemons /\ ~(d = Scanner /\ Open(d))
      <4>1. UNCHANGED <<end, wire, registry, excused>>
        BY <1>2, <3>3 DEF Pin
      <4> QED
        BY <4>1 DEF Forward, NothingTold
    <3> QED
      BY <3>1, <3>2, <3>3
  <2>4. /\ \A x \in Devices, t \in Sessions, m \in Messages : Carries(x, t, m)' => Carries(x, t, m)
        /\ \A t \in Sessions \ excused' : Carries(p, t, "yes") => Carries(p, t, "yes")'
    BY <2>1, <2>3 DEF Carries, NothingTold
  <2>5. Places'
    <3>1. \A s \in Sessions : Evidence(s)' => Evidence(s)
      <4>1. \A x \in Devices : cur'[x] = cur[x] \/ cur'[x] = 0
        BY <2>2
      <4>2. \A x \in Devices, s \in Sessions : s \in pinned'[x] => s \in pinned[x] \/ Evidence(s)
        BY <1>e, <2>2
      <4>3. cur'[Scanner] # 0 =>
              (pc'[Scanner] \in {"confirm"} \cup Answering =>
                 pc[Scanner] \in {"confirm"} \cup Answering \/ Evidence(cur[Scanner]))
        BY <1>0, <2>2
      <4>4. \A x \in Devices, s \in Sessions, m \in {"resp", "yes", "no"} :
              Carries(x, s, m)' => Carries(x, s, m) \/ Evidence(s)
        BY <1>m, <2>4
      <4> QED
        BY <4>1, <4>2, <4>3, <4>4, EvidenceFrame
    <3>2. pc'[Shower] = "offering" => pc[Shower] = "offering"
      BY <1>0, <2>2
    <3> QED
      BY <1>a, <2>1, <2>3, <3>1, <3>2, PlacesFrame
  <2>6. /\ \A s \in Sessions : s \in pinned'[d] => Ended(d, s) /\ Holding(d, s)
        /\ \A s \in Sessions : Holding(d, s) => s \in pinned'[d]
    BY <1>c, <2>2 DEF Ended, Holding, Within, c
  <2>7. \A s \in Sessions : /\ Holding(d, s)' <=> Holding(d, s)
                            /\ Ended(d, s)' <=> Ended(d, s)
                            /\ Holding(p, s)' <=> Holding(p, s)
                            /\ Ended(p, s)' <=> Ended(p, s)
    <3>1. \A s \in Sessions : Holding(p, s)' <=> Holding(p, s)
      BY <1>0, <2>2 DEF Holding, Within
    <3>2. \A s \in Sessions : Ended(p, s)' <=> Ended(p, s)
      BY <1>0, <2>2 DEF Ended, Within
    <3>3. \A s \in Sessions : (Holding(d, s)' <=> s \in pinned'[d]) /\ (Ended(d, s)' <=> s \in pinned'[d])
      BY <1>0, <2>2 DEF Holding, Ended, Within
    <3>4. \A s \in Sessions : Ended(d, s) => Holding(d, s)
      BY DEF Ended, Holding, Within
    <3> QED
      BY <2>6, <3>1, <3>2, <3>3, <3>4
  <2>8. PinnedHasLeft'
    BY <1>0, <1>a, <2>2 DEF PinnedHasLeft
  <2>9. NoIsFinal'
    <3> SUFFICES ASSUME NEW x \in Devices, NEW s \in Sessions, Carries(Peer(x), s, "no")'
                 PROVE  s \notin pinned'[x] /\ (cur'[x] = s => pc'[x] = "declining")
      BY DEF NoIsFinal
    <3>1. Carries(Peer(x), s, "no")
      BY <1>0, <1>m, <2>4
    <3>2. s \notin pinned[x] /\ (cur[x] = s => pc[x] = "declining")
      BY <1>a, <3>1 DEF NoIsFinal
    <3>3. CASE x = d
      BY <1>0, <1>c, <2>2, <3>2, <3>3 DEF c
    <3>4. CASE x # d
      BY <2>2, <3>2, <3>4
    <3> QED
      BY <3>3, <3>4
  <2>10. YesIsTold'
    <3> SUFFICES ASSUME NEW x \in Devices, NEW s \in Sessions \ excused',
                        Holding(x, s)', cur'[Peer(x)] = s
                 PROVE  Carries(Peer(x), s, "yes")'
      BY DEF YesIsTold
    <3>1. x = d /\ Peer(x) = p /\ cur[p] = s /\ s \notin excused
      BY <1>0, <2>2, <2>3 DEF p
    <3>2. Holding(d, s)
      BY <2>7, <3>1
    <3>3. Carries(p, s, "yes")
      BY <1>a, <3>1, <3>2 DEF YesIsTold
    <3> QED
      BY <2>4, <3>1, <3>3
  <2>11. YesIsMeant'
    <3> SUFFICES ASSUME NEW x \in Devices, NEW s \in Sessions \ excused',
                        Carries(x, s, "yes")', cur'[x] = s, pc'[x] # "declining"
                 PROVE  Holding(Peer(x), s)'
      BY DEF YesIsMeant
    <3>1. x = p /\ Peer(x) = d /\ cur[p] = s /\ pc[p] # "declining" /\ s \notin excused
      BY <1>0, <2>2, <2>3
    <3>2. Carries(p, s, "yes")
      BY <1>0, <1>m, <2>4, <3>1
    <3>3. Holding(d, s)
      BY <1>0, <1>a, <3>1, <3>2 DEF YesIsMeant
    <3> QED
      BY <2>7, <3>1, <3>3
  <2>12. BothHold'
    <3> SUFFICES ASSUME NEW x \in Devices, NEW s \in Sessions \ excused', Ended(x, s)'
                 PROVE  Holding(Peer(x), s)'
      BY DEF BothHold
    <3>1. Ended(x, s) /\ s \notin excused
      BY <1>0, <2>3, <2>7
    <3>2. Holding(Peer(x), s)
      BY <1>a, <3>1 DEF BothHold
    <3>3. Peer(x) = d \/ Peer(x) = p
      BY <1>0
    <3> QED
      BY <2>7, <3>2, <3>3
  <2>13. Unseated'
    BY <1>a, <2>2 DEF Unseated
  <2> QED
    BY <2>5, <2>8, <2>9, <2>10, <2>11, <2>12, <2>13 DEF AlikeInv, Accord
<1> QED
  BY <1>1, <1>2

LEMMA StepAlike == IInv /\ AlikeInv /\ [Next]_vars => AlikeInv'
<1> SUFFICES ASSUME IInv, AlikeInv, [Next]_vars PROVE AlikeInv'
  OBVIOUS
<1>1. ASSUME UNCHANGED <<exchange, sessions, excused>> PROVE AlikeInv'
  <2>1. /\ pc' = pc /\ cur' = cur /\ known' = known /\ pinned' = pinned /\ end' = end
        /\ registry' = registry /\ wire' = wire /\ inbox' = inbox /\ excused' = excused
    BY <1>1 DEF exchange, sessions
  <2>2. \A x, s, m : Carries(x, s, m)' <=> Carries(x, s, m)
    BY <2>1 DEF Carries
  <2>3. Shower \in Devices /\ Unseated /\ Places /\ Accord
    BY DEF AlikeInv, Devices
  <2>4. Accord'
    BY <2>1, <2>2, <2>3, AccordFrame
  <2>5. Places'
    BY <2>1, <2>2, <2>3, PlacesOnward
  <2>6. Unseated'
    BY <2>1, <2>3 DEF Unseated
  <2> QED
    BY <2>4, <2>5, <2>6 DEF AlikeInv
<1>2. CASE UNCHANGED vars
  BY <1>1, <1>2 DEF vars
<1>3. ASSUME NEW d \in Devices,
             WriteTrust(d) \/ Unpair(d) \/ \E l \in {"trusted", "owned"} : ReadTrust(d, l)
      PROVE  AlikeInv'
  BY <1>1, <1>3 DEF WriteTrust, Unpair, ReadTrust
<1> QED
  BY <1>2, <1>3, SessionStepsAlike, OpeningStepsAlike, AnswerStepsAlike, PinStepsAlike DEF Next

\* An exchange that is over ended the same way for both devices, unless its session was
\* lost or closed under it, it expired, a message took longer than notifyLinger (D-86) or
\* a record could not be written: both recorded the peer or neither did.
THEOREM EndsMatch == Spec => []EndsAlike
<1>1. Init => AlikeInv
  <2> SUFFICES ASSUME Init PROVE AlikeInv
    OBVIOUS
  <2>1. /\ \A d \in Devices : pc[d] = "idle" /\ cur[d] = 0 /\ pinned[d] = {} /\ registry[d] = 0
        /\ \A d \in Devices, s \in Sessions : end[d][s] = "none" /\ wire[d][s] = <<>> /\ inbox[d][s] = {}
        /\ Shower \in Devices /\ Scanner \in Devices
        /\ \A s \in Sessions : s # 0
    BY DEF Init, All, PerSession, Devices, Sessions
  <2>2. \A m : ~Has(<<>>, m)
    BY DEF Has
  <2>3. \A d \in Devices, s \in Sessions : \A m : ~Carries(d, s, m)
    BY <2>1, <2>2 DEF Carries, Wired
  <2>4. \A s \in Sessions : ~Evidence(s)
    BY <2>1, <2>3 DEF Evidence, Within
  <2>5. \A d \in Devices, s \in Sessions : ~Holding(d, s) /\ ~Ended(d, s)
    BY <2>1 DEF Holding, Ended, Within
  <2>6. Places
    BY <2>1, <2>4 DEF Places, Registered, Used, Taken
  <2>7. \A d \in Devices : Peer(d) \in Devices
    BY PeersDiffer
  <2>8. Accord
    BY <2>1, <2>3, <2>5, <2>7
       DEF Accord, PinnedHasLeft, NoIsFinal, YesIsTold, YesIsMeant, BothHold
  <2>9. Unseated
    BY <2>1 DEF Unseated
  <2> QED
    BY <2>6, <2>8, <2>9 DEF AlikeInv
<1>2. AlikeInv => EndsAlike
  <2> SUFFICES ASSUME AlikeInv, NEW s \in Sessions \ excused, \A d \in Devices : cur[d] # s
               PROVE  s \in pinned[Shower] <=> s \in pinned[Scanner]
    BY DEF EndsAlike
  <2>1. /\ Shower \in Devices /\ Scanner \in Devices
        /\ Peer(Shower) = Scanner /\ Peer(Scanner) = Shower
    BY TwoDevices DEF Devices, Peer
  <2>2. BothHold
    BY DEF AlikeInv, Accord
  <2> QED
    BY <2>1, <2>2 DEF BothHold, Ended, Holding, Within
<1> QED
  BY <1>1, <1>2, InitIInv, StepIInv, StepAlike, PTL DEF Spec
================================================================================
