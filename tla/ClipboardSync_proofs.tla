-------------------------- MODULE ClipboardSync_proofs --------------------------
(***************************************************************************)
(* Proofs about ClipboardSync: its types, that a mishap costs at most two  *)
(* echoes whatever the number of devices, and that the edits of two        *)
(* devices end in one text.                                                *)
(***************************************************************************)
EXTENDS ClipboardSync, SequenceTheorems, FiniteSetTheorems, TLAPS

Watches == [pc : {"asleep", "read", "push"}, text : Texts \cup {None}, to : SUBSET Devices]
Pushes == [text : Texts, ts : 0..(MaxTime + Skew)]

\* TypeOK does not say that what is pushed is a text, nor that nothing is from
\* further in the future than a clock may show.
TypeInv ==
    /\ TypeOK
    /\ echoes \in Nat /\ crossed \in BOOLEAN
    /\ pushed \in [Devices -> 0..MaxTime]
    /\ \A d \in Devices :
         /\ localAt[d] <= now + Skew /\ pushed[d] <= now
         /\ watcher[d].to \subseteq Others(d)
         /\ watcher[d].pc = "push" => watcher[d].text # None

----------------------------------------------------------------------------
(* Operators.                                                               *)

LEMMA LinkOf ==
    /\ \A d, e \in Devices : d # e => <<d, e>> \in Links
    /\ \A l \in Links : \E d \in Devices, e \in Devices : d # e /\ l = <<d, e>>
BY DEF Links

LEMMA Remainder ==
    ASSUME NEW z \in Nat, NEW c \in Nat \ {0}
    PROVE  /\ z \div c \in Nat /\ z % c \in 0..(c - 1)
           /\ z = c * (z \div c) + (z % c)
OBVIOUS

LEMMA MilliType ==
    ASSUME NEW t \in Nat
    PROVE  Milli(t) \in Nat /\ Milli(t) <= t /\ t < Milli(t) + Grain
<1>1. Grain \in Nat \ {0}
  BY ClipboardAssumption
<1> DEFINE r == t % Grain
           q == t \div Grain
<1>2. q \in Nat /\ r \in 0..(Grain - 1) /\ t = Grain * q + r
  BY <1>1, Remainder
<1>3. Grain * q \in Nat
  BY <1>1, <1>2
<1> HIDE DEF r, q
<1>4. t - r \in Nat /\ t - r <= t /\ t < (t - r) + Grain
  <2> DEFINE m == Grain * q
  <2>1. m \in Nat /\ t = m + r
    BY <1>2, <1>3
  <2> HIDE DEF m
  <2> QED
    BY <2>1, <1>2, <1>1
<1> QED
  BY <1>4 DEF Milli, r

\* What a clock shows is a time, and not too late a one.
LEMMA ClockType ==
    ASSUME now \in 1..MaxTime, NEW t \in Clock
    PROVE  /\ t \in Nat /\ now <= t /\ t <= now + Skew /\ t \in 0..(MaxTime + Skew)
           /\ t # 0 /\ Milli(t) \in Nat /\ Milli(t) <= t /\ t < Milli(t) + Grain
           /\ Milli(t) \in 0..(MaxTime + Skew)
<1>1. Skew \in Nat /\ MaxTime \in Nat /\ now \in Nat
  BY ClipboardAssumption
<1>2. t \in Nat /\ now <= t /\ t <= now + Skew /\ t \in 0..(MaxTime + Skew) /\ t # 0
  BY <1>1 DEF Clock
<1>3. Milli(t) \in Nat /\ Milli(t) <= t /\ t < Milli(t) + Grain
  BY <1>2, MilliType
<1> QED
  BY <1>1, <1>2, <1>3

\* What is left when a helper has finished.
LEMMA Removing ==
    ASSUME NEW S, NEW q \in Seq(S), NEW i \in DOMAIN q
    PROVE  /\ RemoveAt(q, i) \in Seq(S)
           /\ Len(q) = 1 => RemoveAt(q, i) = <<>>
           /\ \A j \in DOMAIN RemoveAt(q, i) : \E k \in DOMAIN q : RemoveAt(q, i)[j] = q[k]
<1>1. i \in 1..Len(q) /\ Len(q) \in Nat
  OBVIOUS
<1> DEFINE u == SubSeq(q, 1, i - 1)
           v == SubSeq(q, i + 1, Len(q))
<1>2. u \in Seq(S) /\ Len(u) = i - 1 /\ \A j \in 1..(i - 1) : u[j] = q[j]
  BY <1>1
<1>3. /\ v \in Seq(S) /\ Len(v) = Len(q) - i
      /\ \A j \in 1..(Len(q) - i) : v[j] = q[i + j]
  BY <1>1
<1> HIDE DEF u, v
<1>4. RemoveAt(q, i) = u \o v
  BY DEF RemoveAt, u, v
<1>5. /\ u \o v \in Seq(S) /\ Len(u \o v) = Len(q) - 1
      /\ \A j \in 1..Len(u \o v) : (u \o v)[j] = IF j <= Len(u) THEN u[j] ELSE v[j - Len(u)]
  <2>1. /\ u \o v \in Seq(S) /\ Len(u \o v) = Len(u) + Len(v)
        /\ \A j \in 1..(Len(u) + Len(v)) :
              (u \o v)[j] = IF j <= Len(u) THEN u[j] ELSE v[j - Len(u)]
    BY <1>2, <1>3, ConcatProperties
  <2>2. Len(u) + Len(v) = Len(q) - 1
    BY <1>1, <1>2, <1>3
  <2> QED
    BY <2>1, <2>2
<1>6. Len(q) = 1 => u \o v = <<>>
  BY <1>5
<1>7. ASSUME NEW j \in DOMAIN (u \o v) PROVE \E k \in DOMAIN q : (u \o v)[j] = q[k]
  <2>1. j \in 1..(Len(q) - 1)
    BY <1>5, <1>1
  <2>2. CASE j <= Len(u)
    <3>1. (u \o v)[j] = q[j] /\ j \in DOMAIN q
      BY <1>1, <1>2, <1>5, <2>1, <2>2
    <3> QED
      BY <3>1
  <2>3. CASE ~(j <= Len(u))
    <3>1. (u \o v)[j] = q[i + (j - (i - 1))] /\ i + (j - (i - 1)) \in DOMAIN q
      <4>1. j \in 1..Len(u \o v) /\ j - (i - 1) \in 1..(Len(q) - i)
        BY <1>1, <1>2, <1>5, <2>1, <2>3
      <4>2. (u \o v)[j] = v[j - (i - 1)]
        BY <1>2, <1>5, <4>1, <2>3
      <4>3. i + (j - (i - 1)) \in 1..Len(q)
        BY <1>1, <4>1
      <4> QED
        BY <1>3, <4>1, <4>2, <4>3
    <3> QED
      BY <3>1
  <2> QED
    BY <2>2, <2>3
<1> QED
  BY <1>4, <1>5, <1>6, <1>7

----------------------------------------------------------------------------
(* Types.                                                                   *)

\* A step is one of a device, or of two.
LEMMA StepOf ==
    ASSUME [Next]_vars
    PROVE  \/ UNCHANGED vars \/ Tick
           \/ \E d \in Devices :
                Copy(d) \/ Poll(d) \/ Decide(d) \/ Push(d) \/ Write(d) \/ WriteFails(d)
           \/ \E d, e \in Devices : d # e /\ (Receive(e, d) \/ Apply(e, d) \/ Lose(e, d))
<1>1. ASSUME NEW l \in Links, Receive(l[1], l[2]) \/ Apply(l[1], l[2]) \/ Lose(l[1], l[2])
      PROVE  \E d, e \in Devices : d # e /\ (Receive(e, d) \/ Apply(e, d) \/ Lose(e, d))
  <2>1. l[1] \in Devices /\ l[2] \in Devices /\ l[2] # l[1]
    BY DEF Links
  <2> QED
    BY <1>1, <2>1
<1> QED
  BY <1>1 DEF Next

LEMMA MishapType ==
    ASSUME NEW happens, Mishap(happens), mishaps \in 0..MaxMishaps
    PROVE  mishaps' \in 0..MaxMishaps
BY ClipboardAssumption DEF Mishap

LEMMA Bounds ==
    /\ Grain \in Nat /\ Grain > 0 /\ MaxTime \in Nat /\ MaxTime > 0
    /\ Skew \in Nat /\ MaxCopies \in Nat /\ MaxMishaps \in Nat /\ MaxLosses \in Nat
    /\ IsFiniteSet(Devices) /\ \A d \in Devices : Others(d) # {}
    /\ None = 0 /\ None \notin Texts /\ Texts \subseteq Nat
<1>1. Grain \in Nat \ {0} /\ MaxTime \in Nat \ {0}
  BY ClipboardAssumption
<1>2. Skew \in Nat /\ MaxCopies \in Nat /\ MaxMishaps \in Nat /\ MaxLosses \in Nat
  BY ClipboardAssumption
<1>3. IsFiniteSet(Devices) /\ \A d \in Devices : Others(d) # {}
  BY ClipboardAssumption DEF Others
<1> QED
  BY <1>1, <1>2, <1>3 DEF None, Texts

LEMMA InitTypes == Init => TypeInv
<1> SUFFICES ASSUME Init PROVE TypeInv
  OBVIOUS
<1>1. 0 \in 0..MaxTime /\ 0 \in 0..(MaxTime + Skew) /\ 0 \in 0..MaxCopies /\ 0 \in 0..MaxMishaps /\ 0 \in 0..MaxLosses
  BY Bounds
<1>2. Sleeps \in Watches
  BY DEF Sleeps, Watches
<1>3. now \in 1..MaxTime
  BY Bounds DEF Init
<1>4. \A S : <<>> \in Seq(S)
  OBVIOUS
<1>5. TypeOK
  BY <1>1, <1>2, <1>3, <1>4 DEF Init, TypeOK, Watches, Sleeps
<1>6. \A d \in Devices : /\ localAt[d] <= now + Skew /\ pushed[d] <= now
                         /\ watcher[d].to \subseteq Others(d) /\ watcher[d].pc # "push"
  BY Bounds DEF Init, Sleeps
<1>7. echoes \in Nat /\ crossed \in BOOLEAN /\ pushed \in [Devices -> 0..MaxTime]
  BY <1>1 DEF Init
<1> QED
  BY <1>5, <1>6, <1>7 DEF TypeInv

\* The parts of TypeInv, with the bounds.
LEMMA Typed ==
    ASSUME TypeInv
    PROVE  /\ now \in 1..MaxTime /\ copies \in 0..MaxCopies /\ mishaps \in 0..MaxMishaps
           /\ losses \in 0..MaxLosses /\ echoes \in Nat /\ crossed \in BOOLEAN
           /\ watcher \in [Devices -> Watches] /\ handler \in [Links -> Texts \cup {None}]
           /\ net \in [Links -> Seq(Pushes)] /\ writes \in [Devices -> Seq(Texts)]
           /\ clip \in [Devices -> Texts \cup {None}] /\ applied \in [Devices -> Texts \cup {None}]
           /\ localAt \in [Devices -> 0..(MaxTime + Skew)] /\ pushed \in [Devices -> 0..MaxTime]
           /\ seen \in [Devices -> SUBSET Texts]
           /\ \A d \in Devices : /\ watcher[d].pc = "push" <=> watcher[d].to # {}
                                 /\ watcher[d].pc = "asleep" => watcher[d] = Sleeps
                                 /\ localAt[d] <= now + Skew /\ pushed[d] <= now
                                 /\ watcher[d].to \subseteq Others(d)
                                 /\ watcher[d].pc = "push" => watcher[d].text # None
BY DEF TypeInv, TypeOK, Watches, Pushes

LEMMA TypedAgain ==
    ASSUME /\ now' \in 1..MaxTime /\ copies' \in 0..MaxCopies /\ mishaps' \in 0..MaxMishaps
           /\ losses' \in 0..MaxLosses /\ echoes' \in Nat /\ crossed' \in BOOLEAN
           /\ watcher' \in [Devices -> Watches] /\ handler' \in [Links -> Texts \cup {None}]
           /\ net' \in [Links -> Seq(Pushes)] /\ writes' \in [Devices -> Seq(Texts)]
           /\ clip' \in [Devices -> Texts \cup {None}]
           /\ applied' \in [Devices -> Texts \cup {None}]
           /\ localAt' \in [Devices -> 0..(MaxTime + Skew)] /\ pushed' \in [Devices -> 0..MaxTime]
           /\ seen' \in [Devices -> SUBSET Texts]
           /\ \A d \in Devices : /\ watcher'[d].pc = "push" <=> watcher'[d].to # {}
                                 /\ watcher'[d].pc = "asleep" => watcher'[d] = Sleeps
                                 /\ localAt'[d] <= now' + Skew /\ pushed'[d] <= now'
                                 /\ watcher'[d].to \subseteq Others(d)
                                 /\ watcher'[d].pc = "push" => watcher'[d].text # None
    PROVE  TypeInv'
BY DEF TypeInv, TypeOK, Watches, Pushes, Sleeps

LEMMA NextTypes == TypeInv /\ [Next]_vars => TypeInv'
<1> SUFFICES ASSUME TypeInv, [Next]_vars PROVE TypeInv'
  OBVIOUS
<1>0. CASE UNCHANGED vars
  BY <1>0, Typed, TypedAgain DEF vars, state, history
<1>1. CASE Tick
  <2>1. now' \in 1..MaxTime /\ now' >= now
    BY <1>1, Bounds, Typed DEF Tick
  <2>2. \A d \in Devices : localAt[d] <= now' + Skew /\ pushed[d] <= now'
    BY <2>1, Bounds, Typed
  <2> QED
    BY <1>1, <2>1, <2>2, Typed, TypedAgain DEF Tick, state, history
<1>2. ASSUME NEW d \in Devices, Copy(d) PROVE TypeInv'
  <2>1. copies + 1 \in Texts /\ copies' \in 0..MaxCopies
    BY Bounds, Typed, <1>2 DEF Copy, Texts
  <2>2. clip' \in [Devices -> Texts \cup {None}]
    BY Typed, <1>2, <2>1 DEF Copy
  <2> QED
    BY <1>2, <2>1, <2>2, Typed, TypedAgain DEF Copy, state, history
<1>3. ASSUME NEW d \in Devices, Poll(d) PROVE TypeInv'
  <2>1. [pc |-> "read", text |-> clip[d], to |-> {}] \in Watches
    BY Typed DEF Watches
  <2>2. mishaps' \in 0..MaxMishaps
    BY Typed, <1>3, MishapType DEF Poll
  <2>3. watcher' = [watcher EXCEPT ![d] = [pc |-> "read", text |-> clip[d], to |-> {}]]
    BY <1>3 DEF Poll
  <2>4. /\ watcher' \in [Devices -> Watches]
        /\ \A e \in Devices : /\ watcher'[e].pc = "push" <=> watcher'[e].to # {}
                              /\ watcher'[e].pc = "asleep" => watcher'[e] = Sleeps
                              /\ watcher'[e].to \subseteq Others(e)
                              /\ watcher'[e].pc = "push" => watcher'[e].text # None
    BY Typed, <2>1, <2>3
  <2> QED
    BY <1>3, <2>2, <2>4, Typed, TypedAgain DEF Poll, state, history
<1>4. ASSUME NEW d \in Devices, Decide(d) PROVE TypeInv'
  <2> DEFINE text == watcher[d].text
  <2>1. text \in Texts \cup {None} /\ (WorthSending(d, text) => text \in Texts)
    BY Typed DEF Watches, WorthSending
  <2>2. /\ watcher' \in [Devices -> Watches]
        /\ \A e \in Devices : /\ watcher'[e].pc = "push" <=> watcher'[e].to # {}
                              /\ watcher'[e].pc = "asleep" => watcher'[e] = Sleeps
                              /\ watcher'[e].to \subseteq Others(e)
                              /\ watcher'[e].pc = "push" => watcher'[e].text # None
    <3>1. CASE WorthSending(d, text)
      <4>1. watcher' = [watcher EXCEPT ![d].pc = "push", ![d].to = Others(d)]
        BY <1>4, <3>1 DEF Decide
      <4>2. Others(d) # {} /\ Others(d) \subseteq Devices
        BY Bounds DEF Others
      <4>3. watcher'[d] = [[watcher[d] EXCEPT !.pc = "push"] EXCEPT !.to = Others(d)]
        BY <4>1, Typed
      <4>4. watcher[d] \in Watches
        BY Typed
      <4>5. watcher'[d] = [pc |-> "push", text |-> text, to |-> Others(d)]
        BY <4>3, <4>4 DEF Watches
      <4>6. watcher'[d] \in Watches
        BY <4>2, <4>5, <2>1 DEF Watches
      <4>7. watcher' = [watcher EXCEPT ![d] = watcher'[d]]
        BY <4>1, Typed
      <4>8. text # None
        BY <3>1 DEF WorthSending
      <4>9. watcher' \in [Devices -> Watches]
        BY <4>6, <4>7, Typed
      <4>10. /\ watcher'[d].pc = "push" /\ watcher'[d].to = Others(d)
             /\ watcher'[d].text = text
        BY <4>5
      <4>11. \A e \in Devices : e # d => watcher'[e] = watcher[e]
        BY <4>7, Typed
      <4> HIDE DEF text
      <4> QED
        BY <4>2, <4>8, <4>9, <4>10, <4>11, Typed
    <3>2. CASE ~WorthSending(d, text)
      <4>1. watcher' = [watcher EXCEPT ![d] = Sleeps]
        BY <1>4, <3>2 DEF Decide
      <4>2. Sleeps \in Watches /\ Sleeps.pc = "asleep" /\ Sleeps.to = {}
        BY DEF Sleeps, Watches
      <4> QED
        BY <4>1, <4>2, Typed
    <3> QED
      BY <3>1, <3>2
  <2>3. /\ applied' \in [Devices -> Texts \cup {None}] /\ localAt' \in [Devices -> 0..(MaxTime + Skew)]
        /\ seen' \in [Devices -> SUBSET Texts] /\ echoes' \in Nat /\ crossed' \in BOOLEAN
        /\ \A e \in Devices : localAt'[e] <= now + Skew
    <3>1. CASE WorthSending(d, text)
      <4>0. PICK t \in Clock : localAt' = [localAt EXCEPT ![d] = t]
        BY <1>4, <3>1 DEF Decide, Record
      <4>1. /\ applied' = [applied EXCEPT ![d] = text]
            /\ seen' = [seen EXCEPT ![d] = @ \cup {text}]
            /\ echoes' \in {echoes, echoes + 1} /\ crossed' = (crossed \/ Crossing(d))
        BY <1>4, <3>1 DEF Decide, Record
      <4>2. crossed' \in BOOLEAN
        BY <4>1
      <4>3. t \in 0..(MaxTime + Skew) /\ t <= now + Skew
        BY Typed, ClockType
      <4>4. echoes' \in Nat
        BY <4>1, Typed
      <4>5. \A e \in Devices : localAt'[e] <= now + Skew
        BY <4>0, <4>3, Typed
      <4> QED
        BY <4>0, <4>1, <4>2, <4>3, <4>4, <4>5, <2>1, <3>1, Typed
    <3>2. CASE ~WorthSending(d, text)
      BY <1>4, <3>2, Typed DEF Decide, state
    <3> QED
      BY <3>1, <3>2
  <2> QED
    BY <1>4, <2>2, <2>3, Typed, TypedAgain DEF Decide
<1>5. ASSUME NEW d \in Devices, Push(d) PROVE TypeInv'
  <2>1. PICK e \in watcher[d].to, t \in Clock :
           /\ net' = [net EXCEPT ![<<d, e>>] =
                        Append(@, [text |-> watcher[d].text, ts |-> Milli(t)])]
           /\ watcher' = [watcher EXCEPT ![d] = Rest(@, e)]
    BY <1>5 DEF Push
  <2>2. e \in Devices /\ <<d, e>> \in Links /\ watcher[d].pc = "push"
    BY Typed, LinkOf, <1>5 DEF Others, Push
  <2>3. Milli(t) \in 0..(MaxTime + Skew)
    BY Typed, ClockType
  <2>4. [text |-> watcher[d].text, ts |-> Milli(t)] \in Pushes
    BY <2>2, <2>3, Typed DEF Watches, Pushes
  <2>5. net' \in [Links -> Seq(Pushes)]
    BY <2>1, <2>2, <2>4, Typed
  <2>6. /\ Rest(watcher[d], e) \in Watches
        /\ Rest(watcher[d], e).pc = "push" <=> Rest(watcher[d], e).to # {}
        /\ Rest(watcher[d], e).pc = "asleep" => Rest(watcher[d], e) = Sleeps
        /\ Rest(watcher[d], e).to \subseteq Others(d)
        /\ Rest(watcher[d], e).pc = "push" => Rest(watcher[d], e).text # None
    <3>1. CASE watcher[d].to = {e}
      BY <3>1 DEF Rest, Sleeps, Watches
    <3>2. CASE watcher[d].to # {e}
      <4>1. /\ Rest(watcher[d], e) = [watcher[d] EXCEPT !.to = @ \ {e}]
            /\ watcher[d].to \ {e} # {} /\ watcher[d] \in Watches
            /\ watcher[d].to \subseteq Others(d) /\ watcher[d].text # None
        BY <3>2, <2>1, <2>2, Typed DEF Rest
      <4> QED
        BY <4>1, <2>2 DEF Watches
    <3> QED
      BY <3>1, <3>2
  <2>7. /\ watcher' \in [Devices -> Watches]
        /\ \A f \in Devices : /\ watcher'[f].pc = "push" <=> watcher'[f].to # {}
                              /\ watcher'[f].pc = "asleep" => watcher'[f] = Sleeps
                              /\ watcher'[f].to \subseteq Others(f)
                              /\ watcher'[f].pc = "push" => watcher'[f].text # None
    BY <2>1, <2>6, Typed
  <2>8. pushed' \in [Devices -> 0..MaxTime] /\ \A f \in Devices : pushed'[f] <= now
    BY <1>5, Typed, Bounds DEF Push
  <2> QED
    BY <1>5, <2>5, <2>7, <2>8, Typed, TypedAgain DEF Push, state
<1>6. ASSUME NEW d \in Devices, Write(d) PROVE TypeInv'
  <2>1. PICK i \in DOMAIN writes[d] : /\ clip' = [clip EXCEPT ![d] = writes[d][i]]
                                      /\ writes' = [writes EXCEPT ![d] = RemoveAt(@, i)]
    BY <1>6 DEF Write
  <2>2. writes[d] \in Seq(Texts) /\ writes[d][i] \in Texts
    BY <2>1, Typed
  <2>3. RemoveAt(writes[d], i) \in Seq(Texts)
    BY <2>2, <2>1, Removing
  <2>4. clip' \in [Devices -> Texts \cup {None}] /\ writes' \in [Devices -> Seq(Texts)]
    BY <2>1, <2>2, <2>3, Typed
  <2> QED
    BY <1>6, <2>4, Typed, TypedAgain DEF Write, state, history
<1>7. ASSUME NEW d \in Devices, WriteFails(d) PROVE TypeInv'
  <2>1. PICK i \in DOMAIN writes[d] : writes' = [writes EXCEPT ![d] = RemoveAt(@, i)]
    BY <1>7 DEF WriteFails
  <2>2. writes[d] \in Seq(Texts)
    BY Typed
  <2>3. RemoveAt(writes[d], i) \in Seq(Texts)
    BY <2>1, <2>2, Removing
  <2>4. writes' \in [Devices -> Seq(Texts)]
    BY <2>1, <2>3, Typed
  <2>5. mishaps' \in 0..MaxMishaps
    BY <1>7, Typed, MishapType DEF WriteFails
  <2> QED
    BY <1>7, <2>4, <2>5, Typed, TypedAgain DEF WriteFails, state, history
<1>8. ASSUME NEW d \in Devices, NEW e \in Devices, d # e, Receive(e, d) PROVE TypeInv'
  <2> DEFINE p == Head(net[<<e, d>>])
  <2>1. <<e, d>> \in Links
    BY <1>8, LinkOf
  <2>2. net[<<e, d>>] \in Seq(Pushes) /\ net[<<e, d>>] # <<>>
    BY <2>1, <1>8, Typed DEF Receive
  <2>3. p \in Pushes /\ Tail(net[<<e, d>>]) \in Seq(Pushes)
    BY <2>2, HeadTailProperties
  <2>4. p.text \in Texts
    BY <2>3 DEF Pushes
  <2>5. net' \in [Links -> Seq(Pushes)]
    BY <1>8, <2>1, <2>3, Typed DEF Receive
  <2>6. handler' \in [Links -> Texts \cup {None}] /\ mishaps' \in 0..MaxMishaps
    <3>1. CASE ShouldApply(d, p)
      <4>1. handler' = [handler EXCEPT ![<<e, d>>] = p.text]
        BY <1>8, <3>1 DEF Receive
      <4>2. Mishap(Applying(d) \/ watcher[d].pc = "read")
        BY <1>8, <3>1 DEF Receive
      <4>3. mishaps' \in 0..MaxMishaps
        BY <4>2, Typed, MishapType
      <4> QED
        BY <4>1, <4>3, <2>4, Typed
    <3>2. CASE ~ShouldApply(d, p)
      BY <1>8, <3>2, Typed DEF Receive
    <3> QED
      BY <3>1, <3>2
  <2> QED
    BY <1>8, <2>5, <2>6, Typed, TypedAgain DEF Receive, state, history
<1>9. ASSUME NEW d \in Devices, NEW e \in Devices, d # e, Apply(e, d) PROVE TypeInv'
  <2> DEFINE text == handler[<<e, d>>]
  <2>1. <<e, d>> \in Links
    BY <1>9, LinkOf
  <2>2. text \in Texts
    BY <2>1, <1>9, Typed DEF Apply
  <2>3. /\ handler' = [handler EXCEPT ![<<e, d>>] = None]
        /\ applied' = [applied EXCEPT ![d] = text]
        /\ writes' = [writes EXCEPT ![d] = Append(@, text)]
        /\ seen' = [seen EXCEPT ![d] = @ \cup {text}]
    BY <1>9 DEF Apply
  <2> HIDE DEF text
  <2>4. /\ handler' \in [Links -> Texts \cup {None}]
        /\ applied' \in [Devices -> Texts \cup {None}]
        /\ seen' \in [Devices -> SUBSET Texts]
    BY <2>2, <2>3, Typed
  <2>5. writes' \in [Devices -> Seq(Texts)]
    <3>1. writes[d] \in Seq(Texts)
      BY Typed
    <3>2. Append(writes[d], text) \in Seq(Texts)
      BY <3>1, <2>2, AppendProperties
    <3> QED
      BY <3>2, <2>3, Typed
  <2> QED
    BY <1>9, <2>4, <2>5, Typed, TypedAgain DEF Apply
<1>10. ASSUME NEW d \in Devices, NEW e \in Devices, d # e, Lose(e, d) PROVE TypeInv'
  <2>1. net' = [net EXCEPT ![<<e, d>>] = <<>>, ![<<d, e>>] = <<>>]
    BY <1>10 DEF Lose
  <2>2. net' \in [Links -> Seq(Pushes)]
    <3>1. <<>> \in Seq(Pushes)
      OBVIOUS
    <3> QED
      BY <3>1, <2>1, Typed
  <2>3. losses' \in 0..MaxLosses
    <3>1. losses \in 0..MaxLosses /\ losses < MaxLosses /\ losses' = losses + 1
      BY <1>10, Typed DEF Lose
    <3>2. MaxLosses \in Nat
      BY Bounds
    <3> QED
      BY <3>1, <3>2
  <2>4. UNCHANGED <<now, clip, watcher, handler, writes, copies, mishaps>>
        /\ UNCHANGED <<applied, localAt, seen, echoes, crossed, pushed>>
    BY <1>10 DEF Lose, state, history
  <2> QED
    BY <2>2, <2>3, <2>4, Typed, TypedAgain
<1> QED
  BY <1>0, <1>1, <1>2, <1>3, <1>4, <1>5, <1>6, <1>7, <1>8, <1>9, <1>10, StepOf

\* Every device's clipboard, digest, watcher and helpers keep their types
\* (SyncState, Run, pushClipboard, onClipboardReceived).
THEOREM ClipboardTypeCorrect == Spec => []TypeOK
<1>1. TypeInv => TypeOK
  BY DEF TypeInv
<1>2. Spec => []TypeInv
  BY InitTypes, NextTypes, PTL DEF Spec
<1> QED
  BY <1>1, <1>2, PTL

----------------------------------------------------------------------------
(* Echoes.  Each device may owe one by what its watcher has read, and one   *)
(* by what the clipboard will hold; a mishap pays for both.                 *)

\* The texts anywhere are copies made.
Made == 0..copies
MadePushes == [text : Made, ts : Nat]

Numbered ==
    /\ seen \in [Devices -> SUBSET Made] /\ clip \in [Devices -> Made]
    /\ writes \in [Devices -> Seq(Made)] /\ handler \in [Links -> Made]
    /\ net \in [Links -> Seq(MadePushes)]
    /\ \A d \in Devices : watcher[d].text \in Made

\* The digest when the watcher is through with what it has read.
DueDigest(d) ==
    IF watcher[d].pc = "read" /\ WorthSending(d, watcher[d].text)
    THEN watcher[d].text ELSE applied[d]

Pending(d) == {e \in Others(d) : handler[<<e, d>>] # None}

\* One text is being applied, and the clipboard will hold what is recorded.
Orderly(d) ==
    /\ watcher[d].pc # "read"
    /\ \/ writes[d] = <<>> /\ \E e \in Others(d) : Pending(d) = {e}
       \/ writes[d] = <<applied[d]>> /\ Pending(d) = {}

MayRead(d) ==
    /\ watcher[d].pc = "read"
    /\ Applying(d) \/ (watcher[d].text \in seen[d] /\ watcher[d].text # applied[d])

MayFind(d) ==
    IF Applying(d) THEN ~Orderly(d) ELSE clip[d] \in seen[d] /\ clip[d] # DueDigest(d)

Readers == {d \in Devices : MayRead(d)}
Finders == {d \in Devices : MayFind(d)}

EchoInv == echoes + Cardinality(Readers) + Cardinality(Finders) <= 2 * mishaps

\* What d counts for in a set.
One(d, S) == IF d \in S THEN 1 ELSE 0

LEMMA Counted ==
    ASSUME NEW S, NEW d, IsFiniteSet(S)
    PROVE  /\ IsFiniteSet(S \ {d}) /\ Cardinality(S \ {d}) \in Nat
           /\ Cardinality(S) = Cardinality(S \ {d}) + One(d, S)
<1>1. IsFiniteSet(S \ {d})
  BY FS_RemoveElement
<1>2. Cardinality(S \ {d}) \in Nat /\ Cardinality(S) \in Nat
  BY <1>1, FS_CardinalityType
<1>3. CASE d \in S
  <2>1. Cardinality(S \ {d}) = Cardinality(S) - 1
    BY <1>3, FS_RemoveElement
  <2> QED
    BY <1>1, <1>2, <1>3, <2>1 DEF One
<1>4. CASE d \notin S
  <2>1. S \ {d} = S
    BY <1>4
  <2>2. Cardinality(S \ {d}) = Cardinality(S) /\ One(d, S) = 0
    BY <2>1, <1>4 DEF One
  <2> QED
    BY <1>1, <1>2, <2>2
<1> QED
  BY <1>3, <1>4

\* Only one device's debts change in a step.
LEMMA Ledger ==
    ASSUME NEW R, NEW F, NEW Rn, NEW Fn, NEW d,
           IsFiniteSet(R), IsFiniteSet(F), IsFiniteSet(Rn), IsFiniteSet(Fn),
           Rn \ {d} = R \ {d}, Fn \ {d} = F \ {d},
           NEW k \in Nat, NEW kn \in Nat, NEW m \in Nat, NEW mn \in Nat,
           k + Cardinality(R) + Cardinality(F) <= 2 * m,
           kn + One(d, Rn) + One(d, Fn) + 2 * m <= k + One(d, R) + One(d, F) + 2 * mn
    PROVE  kn + Cardinality(Rn) + Cardinality(Fn) <= 2 * mn
<1>1. /\ Cardinality(R \ {d}) \in Nat /\ Cardinality(F \ {d}) \in Nat
      /\ Cardinality(R) = Cardinality(R \ {d}) + One(d, R)
      /\ Cardinality(F) = Cardinality(F \ {d}) + One(d, F)
      /\ Cardinality(Rn) = Cardinality(R \ {d}) + One(d, Rn)
      /\ Cardinality(Fn) = Cardinality(F \ {d}) + One(d, Fn)
  BY Counted
<1>2. \A S : One(d, S) \in {0, 1}
  BY DEF One
<1> QED
  BY <1>1, <1>2

\* What a device owes depends on its own state.
LEMMA Local ==
    ASSUME NEW f \in Devices,
           watcher'[f] = watcher[f], writes'[f] = writes[f], applied'[f] = applied[f],
           seen'[f] = seen[f], clip'[f] = clip[f],
           \A e \in Others(f) : handler'[<<e, f>>] = handler[<<e, f>>]
    PROVE  MayRead(f)' = MayRead(f) /\ MayFind(f)' = MayFind(f)
<1>1. Applying(f)' = Applying(f) /\ Pending(f)' = Pending(f)
  BY DEF Applying, Pending, Others
<1>2. DueDigest(f)' = DueDigest(f)
  BY DEF DueDigest, WorthSending
<1>3. Orderly(f)' = Orderly(f)
  BY <1>1 DEF Orderly
<1> QED
  BY <1>1, <1>2, <1>3 DEF MayRead, MayFind

\* A step at one device that adds to no debt, or is a mishap.
LEMMA Paid ==
    ASSUME TypeInv, TypeInv', EchoInv, NEW d \in Devices,
           \A f \in Devices \ {d} :
              /\ watcher'[f] = watcher[f] /\ writes'[f] = writes[f] /\ applied'[f] = applied[f]
              /\ seen'[f] = seen[f] /\ clip'[f] = clip[f]
              /\ \A e \in Others(f) : handler'[<<e, f>>] = handler[<<e, f>>],
           \/ mishaps' = mishaps + 1 /\ echoes' = echoes
           \/ /\ mishaps' = mishaps
              /\ echoes' + One(d, Readers') + One(d, Finders')
                    <= echoes + One(d, Readers) + One(d, Finders)
    PROVE  EchoInv'
<1>1. IsFiniteSet(Devices)
  BY Bounds
<1>2. Readers \subseteq Devices /\ Finders \subseteq Devices
  BY DEF Readers, Finders
<1>3. Readers' \subseteq Devices /\ Finders' \subseteq Devices
  BY DEF Readers, Finders
<1>4. /\ IsFiniteSet(Readers) /\ IsFiniteSet(Finders)
      /\ IsFiniteSet(Readers') /\ IsFiniteSet(Finders')
  BY <1>1, <1>2, <1>3, FS_Subset
<1>5. Readers' \ {d} = Readers \ {d} /\ Finders' \ {d} = Finders \ {d}
  <2>1. \A f \in Devices \ {d} : MayRead(f)' = MayRead(f) /\ MayFind(f)' = MayFind(f)
    BY Local
  <2> QED
    BY <2>1 DEF Readers, Finders
<1>6. echoes \in Nat /\ echoes' \in Nat /\ mishaps \in Nat /\ mishaps' \in Nat
  <2>1. TypeOK' /\ (echoes \in Nat)'
    BY DEF TypeInv
  <2> QED
    BY <2>1, Typed, Bounds DEF TypeOK
<1>7. \A S : One(d, S) \in {0, 1}
  BY DEF One
<1>8. echoes' + One(d, Readers') + One(d, Finders') + 2 * mishaps
        <= echoes + One(d, Readers) + One(d, Finders) + 2 * mishaps'
  BY <1>6, <1>7
<1>9. echoes + Cardinality(Readers) + Cardinality(Finders) <= 2 * mishaps
  BY DEF EchoInv
<1>10. echoes' + Cardinality(Readers') + Cardinality(Finders') <= 2 * mishaps'
  <2>1. \A R, F, Rn, Fn :
           /\ IsFiniteSet(R) /\ IsFiniteSet(F) /\ IsFiniteSet(Rn) /\ IsFiniteSet(Fn)
           /\ Rn \ {d} = R \ {d} /\ Fn \ {d} = F \ {d}
           => \A k, kn, m, mn \in Nat :
                 /\ k + Cardinality(R) + Cardinality(F) <= 2 * m
                 /\ kn + One(d, Rn) + One(d, Fn) + 2 * m <= k + One(d, R) + One(d, F) + 2 * mn
                 => kn + Cardinality(Rn) + Cardinality(Fn) <= 2 * mn
    BY Ledger
  <2> QED
    BY <1>4, <1>5, <1>6, <1>8, <1>9, <2>1
<1> QED
  BY <1>10 DEF EchoInv

LEMMA InitNumbered == Init => Numbered
<1> SUFFICES ASSUME Init PROVE Numbered
  OBVIOUS
<1>1. 0 \in Made /\ None = 0
  BY DEF Init, Made, None
<1>2. \A S : <<>> \in Seq(S)
  OBVIOUS
<1> QED
  BY <1>1, <1>2 DEF Init, Numbered, Sleeps

LEMMA NextNumbered == TypeInv /\ Numbered /\ [Next]_vars => Numbered'
<1> SUFFICES ASSUME TypeInv, Numbered, [Next]_vars PROVE Numbered'
  OBVIOUS
<1>0. /\ copies \in Nat /\ now \in Nat /\ None \in Made
      /\ seen \in [Devices -> SUBSET Made] /\ clip \in [Devices -> Made]
      /\ writes \in [Devices -> Seq(Made)] /\ handler \in [Links -> Made]
      /\ net \in [Links -> Seq(MadePushes)]
      /\ \A d \in Devices : watcher[d].text \in Made
      /\ watcher \in [Devices -> Watches]
  <2>1. copies \in Nat /\ now \in Nat
    BY Typed, Bounds
  <2>2. None \in Made
    BY <2>1, Bounds DEF Made
  <2> QED
    BY <2>1, <2>2, Typed DEF Numbered
<1>a. ASSUME copies' = copies PROVE Made' = Made /\ MadePushes' = MadePushes
  BY <1>a DEF Made, MadePushes
<1>1. CASE UNCHANGED vars \/ Tick
  BY <1>0, <1>1, <1>a DEF vars, Tick, state, history, Numbered
<1>2. ASSUME NEW d \in Devices, Copy(d) PROVE Numbered'
  <2>1. Made \subseteq Made' /\ copies + 1 \in Made'
    BY <1>0, <1>2 DEF Copy, Made
  <2>2. MadePushes \subseteq MadePushes'
    BY <2>1 DEF MadePushes
  <2>3. /\ \A f \in Devices : writes[f] \in Seq(Made')
        /\ \A l \in Links : net[l] \in Seq(MadePushes')
    BY <1>0, <2>1, <2>2, SeqMonotonic
  <2>4. clip' \in [Devices -> Made']
    BY <1>0, <1>2, <2>1 DEF Copy
  <2>5. writes \in [Devices -> Seq(Made')] /\ net \in [Links -> Seq(MadePushes')]
    BY <1>0, <2>3
  <2>6. /\ seen \in [Devices -> SUBSET (Made')] /\ handler \in [Links -> Made']
        /\ \A f \in Devices : watcher[f].text \in Made'
    BY <1>0, <2>1
  <2> HIDE DEF Made
  <2> QED
    BY <1>2, <2>4, <2>5, <2>6 DEF Copy, Numbered, history
<1>3. ASSUME NEW d \in Devices, Poll(d) PROVE Numbered'
  <2>1. \A f \in Devices : watcher'[f].text \in Made
    BY <1>0, <1>3 DEF Poll
  <2> QED
    BY <1>0, <1>3, <1>a, <2>1 DEF Poll, Numbered, history
<1>4. ASSUME NEW d \in Devices, Decide(d) PROVE Numbered'
  <2>1. \A f \in Devices : watcher'[f].text \in Made
    <3>1. CASE WorthSending(d, watcher[d].text)
      <4>1. watcher' = [watcher EXCEPT ![d].pc = "push", ![d].to = Others(d)]
        BY <1>4, <3>1 DEF Decide
      <4>2. watcher'[d] = [[watcher[d] EXCEPT !.pc = "push"] EXCEPT !.to = Others(d)]
        BY <4>1, <1>0
      <4>3. watcher'[d].text = watcher[d].text
        BY <4>2, <1>0 DEF Watches
      <4> QED
        BY <4>1, <4>3, <1>0
    <3>2. CASE ~WorthSending(d, watcher[d].text)
      <4>1. watcher' = [watcher EXCEPT ![d] = Sleeps] /\ Sleeps.text = None
        BY <1>4, <3>2 DEF Decide, Sleeps
      <4> QED
        BY <4>1, <1>0
    <3> QED
      BY <3>1, <3>2
  <2>2. seen' \in [Devices -> SUBSET Made]
    <3>1. \/ seen' = seen
          \/ seen' = [seen EXCEPT ![d] = @ \cup {watcher[d].text}]
      BY <1>4 DEF Decide
    <3> QED
      BY <1>0, <3>1
  <2> QED
    BY <1>0, <1>4, <1>a, <2>1, <2>2 DEF Decide, Numbered
<1>5. ASSUME NEW d \in Devices, Push(d) PROVE Numbered'
  <2>1. PICK e \in watcher[d].to, t \in Clock :
           /\ net' = [net EXCEPT ![<<d, e>>] =
                        Append(@, [text |-> watcher[d].text, ts |-> Milli(t)])]
           /\ watcher' = [watcher EXCEPT ![d] = Rest(@, e)]
    BY <1>5 DEF Push
  <2>2. [text |-> watcher[d].text, ts |-> Milli(t)] \in MadePushes
    BY <1>0, Typed, ClockType DEF MadePushes
  <2>3. net' \in [Links -> Seq(MadePushes)]
    <3>1. <<d, e>> \in Links
      BY Typed, LinkOf DEF Others
    <3>2. Append(net[<<d, e>>], [text |-> watcher[d].text, ts |-> Milli(t)]) \in Seq(MadePushes)
      BY <1>0, <2>2, <3>1, AppendProperties
    <3> QED
      BY <1>0, <2>1, <3>2
  <2>4. Rest(watcher[d], e).text \in Made
    BY <1>0 DEF Rest, Sleeps, Watches
  <2> QED
    BY <1>0, <1>5, <1>a, <2>1, <2>3, <2>4 DEF Push, Numbered
<1>6. ASSUME NEW d \in Devices, Write(d) \/ WriteFails(d) PROVE Numbered'
  <2>1. PICK i \in DOMAIN writes[d] : /\ clip' = [clip EXCEPT ![d] = writes[d][i]] \/ clip' = clip
                                      /\ writes' = [writes EXCEPT ![d] = RemoveAt(@, i)]
    BY <1>6 DEF Write, WriteFails
  <2>2. writes[d] \in Seq(Made) /\ writes[d][i] \in Made
    BY <2>1, <1>0
  <2>3. RemoveAt(writes[d], i) \in Seq(Made)
    BY <2>2, <2>1, Removing
  <2>4. clip' \in [Devices -> Made] /\ writes' \in [Devices -> Seq(Made)]
    BY <2>1, <2>2, <2>3, <1>0
  <2> QED
    BY <1>0, <1>6, <1>a, <2>4 DEF Write, WriteFails, Numbered, history
<1>7. ASSUME NEW d \in Devices, NEW e \in Devices, d # e, Receive(e, d) PROVE Numbered'
  <2>1. <<e, d>> \in Links
    BY <1>7, LinkOf
  <2>2. net[<<e, d>>] \in Seq(MadePushes) /\ net[<<e, d>>] # <<>>
    BY <2>1, <1>7, <1>0 DEF Receive
  <2>3. /\ Head(net[<<e, d>>]) \in MadePushes
        /\ Tail(net[<<e, d>>]) \in Seq(MadePushes)
    BY <2>2, HeadTailProperties
  <2>4. Head(net[<<e, d>>]).text \in Made
    BY <2>3 DEF MadePushes
  <2>5. net' \in [Links -> Seq(MadePushes)] /\ handler' \in [Links -> Made]
    BY <1>7, <2>1, <2>3, <2>4, <1>0 DEF Receive
  <2> QED
    BY <1>0, <1>7, <1>a, <2>5 DEF Receive, Numbered, history
<1>8. ASSUME NEW d \in Devices, NEW e \in Devices, d # e, Apply(e, d) PROVE Numbered'
  <2> DEFINE text == handler[<<e, d>>]
  <2>1. <<e, d>> \in Links /\ text \in Made
    BY <1>0, <1>8, LinkOf
  <2>2. /\ handler' = [handler EXCEPT ![<<e, d>>] = None]
        /\ writes' = [writes EXCEPT ![d] = Append(@, text)]
        /\ seen' = [seen EXCEPT ![d] = @ \cup {text}]
    BY <1>8 DEF Apply
  <2>3. Append(writes[d], text) \in Seq(Made)
    BY <1>0, <2>1, AppendProperties
  <2> HIDE DEF text
  <2>4. /\ handler' \in [Links -> Made] /\ writes' \in [Devices -> Seq(Made)]
        /\ seen' \in [Devices -> SUBSET Made]
    BY <1>0, <2>1, <2>2, <2>3
  <2> QED
    BY <1>0, <1>8, <1>a, <2>4 DEF Apply, Numbered
<1>9. ASSUME NEW d \in Devices, NEW e \in Devices, d # e, Lose(e, d) PROVE Numbered'
  <2>1. <<>> \in Seq(MadePushes)
    OBVIOUS
  <2>2. net' \in [Links -> Seq(MadePushes)]
    BY <1>0, <1>9, <2>1 DEF Lose
  <2> QED
    BY <1>0, <1>9, <1>a, <2>2 DEF Lose, Numbered, history
<1> QED
  BY <1>1, <1>2, <1>3, <1>4, <1>5, <1>6, <1>7, <1>8, <1>9, StepOf

LEMMA InitEchoes == Init => EchoInv
<1> SUFFICES ASSUME Init PROVE EchoInv
  OBVIOUS
<1>1. \A d \in Devices : ~MayRead(d)
  BY DEF Init, MayRead, Sleeps
<1>2. \A d \in Devices, e \in Devices : d # e => handler[<<e, d>>] = None
  BY LinkOf DEF Init
<1>3. \A d \in Devices : ~Applying(d) /\ seen[d] = {}
  BY <1>2 DEF Init, Applying, Others
<1>4. \A d \in Devices : ~MayFind(d)
  BY <1>3 DEF MayFind
<1>5. Readers = {} /\ Finders = {}
  BY <1>1, <1>4 DEF Readers, Finders
<1>6. Cardinality({}) = 0
  BY FS_EmptySet
<1> QED
  BY <1>5, <1>6 DEF Init, EchoInv

\* A text that is not applied yet, or is still to be written.
LEMMA ApplyingIs ==
    ASSUME TypeInv, NEW d \in Devices
    PROVE  /\ Applying(d) <=> writes[d] # <<>> \/ Pending(d) # {}
           /\ Applying(d)' <=> writes'[d] # <<>> \/ Pending(d)' # {}
BY DEF Applying, Pending

LEMMA NextEchoes == TypeInv /\ TypeInv' /\ Numbered /\ EchoInv /\ [Next]_vars => EchoInv'
<1> SUFFICES ASSUME TypeInv, TypeInv', Numbered, EchoInv, [Next]_vars PROVE EchoInv'
  OBVIOUS
<1>0. /\ echoes \in Nat /\ mishaps \in Nat /\ copies \in Nat /\ None \notin Texts
      /\ watcher \in [Devices -> Watches] /\ handler \in [Links -> Texts \cup {None}]
      /\ net \in [Links -> Seq(Pushes)] /\ writes \in [Devices -> Seq(Texts)]
      /\ clip \in [Devices -> Texts \cup {None}] /\ applied \in [Devices -> Texts \cup {None}]
      /\ seen \in [Devices -> SUBSET Texts]
  BY Typed, Bounds
<1>m. ASSUME NEW happens, Mishap(happens)
      PROVE  IF happens THEN mishaps' = mishaps + 1 ELSE mishaps' = mishaps
  BY <1>m DEF Mishap
<1>o. ASSUME NEW d \in Devices, MayRead(d)' => MayRead(d), MayFind(d)' => MayFind(d)
      PROVE  One(d, Readers') + One(d, Finders') <= One(d, Readers) + One(d, Finders)
  <2>1. One(d, Readers') <= One(d, Readers)
    BY <1>o DEF One, Readers
  <2>2. One(d, Finders') <= One(d, Finders)
    BY <1>o DEF One, Finders
  <2> QED
    BY <2>1, <2>2 DEF One
<1>1. ASSUME UNCHANGED <<clip, applied, watcher, handler, writes, seen, echoes, mishaps>>
      PROVE  EchoInv'
  <2>1. \A f \in Devices : MayRead(f)' = MayRead(f) /\ MayFind(f)' = MayFind(f)
    BY <1>1, Local
  <2>2. Readers' = Readers /\ Finders' = Finders
    BY <2>1 DEF Readers, Finders
  <2> QED
    BY <1>1, <2>2 DEF EchoInv
<1>2. CASE UNCHANGED vars \/ Tick
  BY <1>1, <1>2 DEF vars, Tick, state, history
\* A new copy is one that no device has seen.
<1>3. ASSUME NEW d \in Devices, Copy(d) PROVE EchoInv'
  <2>1. /\ clip' = [clip EXCEPT ![d] = copies + 1]
        /\ UNCHANGED <<applied, watcher, handler, writes, seen, echoes, mishaps>>
    BY <1>3 DEF Copy, state, history
  <2>2. copies + 1 \notin seen[d]
    BY <1>0 DEF Numbered, Made
  <2>3. Applying(d)' = Applying(d) /\ Orderly(d)' = Orderly(d)
    BY <2>1 DEF Applying, Orderly, Pending
  <2>4. MayRead(d)' => MayRead(d)
    BY <2>1, <2>3 DEF MayRead
  <2>5. MayFind(d)' => MayFind(d)
    BY <1>0, <2>1, <2>2, <2>3 DEF MayFind
  <2>6. One(d, Readers') + One(d, Finders') <= One(d, Readers) + One(d, Finders)
    BY <1>o, <2>4, <2>5
  <2>7. echoes' + One(d, Readers') + One(d, Finders')
           <= echoes + One(d, Readers) + One(d, Finders)
    BY <1>0, <2>1, <2>6 DEF One
  <2> QED
    BY <1>0, <2>1, <2>7, Paid
<1>4. ASSUME NEW d \in Devices, Poll(d) PROVE EchoInv'
  <2>1. /\ watcher[d].pc = "asleep"
        /\ watcher' = [watcher EXCEPT ![d] = [pc |-> "read", text |-> clip[d], to |-> {}]]
        /\ Mishap(Applying(d))
        /\ UNCHANGED <<clip, applied, handler, writes, seen, echoes>>
    BY <1>4 DEF Poll, Sleeps, state, history
  <2>2. watcher'[d].pc = "read" /\ watcher'[d].text = clip[d]
    BY <1>0, <2>1
  <2>3. Applying(d)' = Applying(d)
    BY <2>1 DEF Applying
  <2>4. CASE Applying(d)
    <3>1. mishaps' = mishaps + 1
      BY <1>m, <2>1, <2>4
    <3> QED
      BY <1>0, <2>1, <3>1, Paid
  <2>5. CASE ~Applying(d)
    <3>1. mishaps' = mishaps
      BY <1>m, <2>1, <2>5
    <3>2. d \notin Readers
      BY <2>1 DEF Readers, MayRead
    <3>3. MayRead(d)' <=> clip[d] \in seen[d] /\ clip[d] # applied[d]
      BY <2>1, <2>2, <2>3, <2>5 DEF MayRead
    <3>4. MayFind(d) <=> clip[d] \in seen[d] /\ clip[d] # applied[d]
      BY <2>1, <2>5 DEF MayFind, DueDigest
    <3>5. clip[d] \in seen[d] => clip[d] # None
      BY <1>0
    <3>6. clip[d] \in seen[d] => DueDigest(d)' = clip[d]
      BY <2>1, <2>2, <3>5 DEF DueDigest, WorthSending
    <3>7. d \notin Finders'
      BY <2>1, <2>3, <2>5, <3>6 DEF Finders, MayFind
    <3>8. d \in Readers' <=> d \in Finders
      BY <3>3, <3>4 DEF Readers, Finders
    <3>9. echoes' + One(d, Readers') + One(d, Finders')
             <= echoes + One(d, Readers) + One(d, Finders)
      BY <1>0, <2>1, <3>2, <3>7, <3>8 DEF One
    <3> QED
      BY <1>0, <2>1, <3>1, <3>9, Paid
  <2> QED
    BY <2>4, <2>5
\* An echo is one the device owed for what its watcher had read.
<1>5. ASSUME NEW d \in Devices, Decide(d) PROVE EchoInv'
  <2> DEFINE text == watcher[d].text
  <2>1. watcher[d].pc = "read" /\ UNCHANGED <<clip, handler, writes, mishaps>>
    BY <1>5 DEF Decide
  <2>2. Applying(d)' = Applying(d)
    BY <2>1 DEF Applying
  <2>3. /\ watcher'[d].pc # "read" /\ applied'[d] = DueDigest(d)
        /\ seen'[d] \subseteq seen[d] \cup {DueDigest(d)}
        /\ echoes' = echoes \/ (text \in seen[d] /\ text # applied[d] /\ echoes' = echoes + 1)
        /\ \A f \in Devices \ {d} :
              watcher'[f] = watcher[f] /\ applied'[f] = applied[f] /\ seen'[f] = seen[f]
    <3>1. CASE WorthSending(d, text)
      <4>1. /\ watcher' = [watcher EXCEPT ![d].pc = "push", ![d].to = Others(d)]
            /\ applied' = [applied EXCEPT ![d] = text]
            /\ seen' = [seen EXCEPT ![d] = @ \cup {text}]
            /\ echoes' = IF text \in seen[d] /\ echoes <= 2 * MaxMishaps THEN echoes + 1 ELSE echoes
        BY <1>5, <3>1 DEF Decide, Record
      <4>2. watcher'[d] = [[watcher[d] EXCEPT !.pc = "push"] EXCEPT !.to = Others(d)]
        BY <1>0, <4>1
      <4>3. watcher'[d].pc = "push"
        BY <1>0, <4>2 DEF Watches
      <4>4. DueDigest(d) = text
        BY <2>1, <3>1 DEF DueDigest
      <4>5. text # applied[d]
        BY <3>1 DEF WorthSending
      <4> QED
        BY <1>0, <4>1, <4>3, <4>4, <4>5
    <3>2. CASE ~WorthSending(d, text)
      <4>1. watcher' = [watcher EXCEPT ![d] = Sleeps] /\ UNCHANGED <<applied, seen, echoes>>
        BY <1>5, <3>2 DEF Decide, state
      <4>2. DueDigest(d) = applied[d]
        BY <3>2 DEF DueDigest
      <4> QED
        BY <1>0, <4>1, <4>2 DEF Sleeps
    <3> QED
      BY <3>1, <3>2
  <2>4. d \notin Readers'
    BY <2>3 DEF Readers, MayRead
  <2>5. echoes' = echoes \/ (echoes' = echoes + 1 /\ d \in Readers)
    BY <2>1, <2>3 DEF Readers, MayRead
  <2>6. MayFind(d)' => MayFind(d)
    <3>1. CASE Applying(d)
      BY <2>1, <3>1 DEF MayFind, Orderly
    <3>2. CASE ~Applying(d)
      <4>1. DueDigest(d)' = applied'[d]
        BY <2>3 DEF DueDigest
      <4>2. MayFind(d)' => clip[d] \in seen'[d] /\ clip[d] # DueDigest(d)
        BY <2>1, <2>2, <2>3, <3>2, <4>1 DEF MayFind
      <4> QED
        BY <2>3, <3>2, <4>2 DEF MayFind
    <3> QED
      BY <3>1, <3>2
  <2>7. d \in Finders' => d \in Finders
    BY <2>6 DEF Finders
  <2>8. echoes' + One(d, Readers') + One(d, Finders')
           <= echoes + One(d, Readers) + One(d, Finders)
    BY <1>0, <2>4, <2>5, <2>7 DEF One
  <2> QED
    BY <1>0, <2>1, <2>3, <2>8, Paid
<1>6. ASSUME NEW d \in Devices, Push(d) PROVE EchoInv'
  <2>1. PICK e \in watcher[d].to : watcher' = [watcher EXCEPT ![d] = Rest(@, e)]
    BY <1>6 DEF Push
  <2>2. watcher[d].pc = "push" /\ UNCHANGED <<clip, applied, handler, writes, seen, echoes, mishaps>>
    BY <1>6 DEF Push, state
  <2>3. watcher'[d].pc # "read"
    <3>1. watcher'[d] = Rest(watcher[d], e) /\ watcher[d] \in Watches
      BY <1>0, <2>1
    <3>2. Rest(watcher[d], e) = Sleeps \/ Rest(watcher[d], e).pc = watcher[d].pc
      BY <3>1 DEF Rest, Watches
    <3> QED
      BY <2>2, <3>1, <3>2 DEF Sleeps
  <2>4. Applying(d)' = Applying(d) /\ DueDigest(d)' = DueDigest(d) /\ Orderly(d)' = Orderly(d)
    BY <2>2, <2>3 DEF Applying, DueDigest, Orderly, Pending
  <2>5. (MayRead(d)' => MayRead(d)) /\ (MayFind(d)' => MayFind(d))
    BY <2>2, <2>3, <2>4 DEF MayRead, MayFind
  <2>6. One(d, Readers') + One(d, Finders') <= One(d, Readers) + One(d, Finders)
    BY <1>o, <2>5
  <2>7. echoes' + One(d, Readers') + One(d, Finders')
           <= echoes + One(d, Readers) + One(d, Finders)
    BY <1>0, <2>2, <2>6 DEF One
  <2> QED
    BY <1>0, <2>1, <2>2, <2>7, Paid
\* The one text that is orderly applied is what has been recorded.
<1>7. ASSUME NEW d \in Devices, Write(d) PROVE EchoInv'
  <2>1. PICK i \in DOMAIN writes[d] : /\ clip' = [clip EXCEPT ![d] = writes[d][i]]
                                      /\ writes' = [writes EXCEPT ![d] = RemoveAt(@, i)]
    BY <1>7 DEF Write
  <2>2. UNCHANGED <<applied, watcher, handler, seen, echoes, mishaps>>
    BY <1>7 DEF Write, state, history
  <2>3. Pending(d)' = Pending(d)
    BY <2>2 DEF Pending
  <2>4. writes[d] # <<>>
    BY <2>1
  <2>5. Applying(d)
    BY <2>4 DEF Applying
  <2>6. MayRead(d)' => MayRead(d)
    BY <2>2, <2>5 DEF MayRead
  <2>7. MayFind(d)' => MayFind(d)
    <3>1. SUFFICES ASSUME Orderly(d) PROVE ~MayFind(d)'
      BY <2>5 DEF MayFind
    <3>2. watcher[d].pc # "read" /\ writes[d] = <<applied[d]>> /\ Pending(d) = {}
      BY <2>4, <3>1 DEF Orderly
    <3>3. Len(writes[d]) = 1 /\ i = 1
      BY <2>1, <3>2
    <3>4. RemoveAt(writes[d], i) = <<>>
      BY <1>0, <2>1, <3>3, Removing
    <3>5. writes'[d] = <<>> /\ clip'[d] = applied[d]
      BY <1>0, <2>1, <3>2, <3>3, <3>4
    <3>6. ~Applying(d)'
      BY <2>3, <3>2, <3>5, ApplyingIs
    <3>7. DueDigest(d)' = applied[d]
      BY <2>2, <3>2 DEF DueDigest
    <3> QED
      BY <3>5, <3>6, <3>7 DEF MayFind
  <2>8. One(d, Readers') + One(d, Finders') <= One(d, Readers) + One(d, Finders)
    BY <1>o, <2>6, <2>7
  <2>9. echoes' + One(d, Readers') + One(d, Finders')
           <= echoes + One(d, Readers) + One(d, Finders)
    BY <1>0, <2>2, <2>8 DEF One
  <2> QED
    BY <1>0, <2>1, <2>2, <2>9, Paid
<1>8. ASSUME NEW d \in Devices, WriteFails(d) PROVE EchoInv'
  <2>1. PICK i \in DOMAIN writes[d] : writes' = [writes EXCEPT ![d] = RemoveAt(@, i)]
    BY <1>8 DEF WriteFails
  <2>2. UNCHANGED <<clip, applied, watcher, handler, seen, echoes>> /\ mishaps' = mishaps + 1
    BY <1>8, <1>m DEF WriteFails, state, history
  <2> QED
    BY <1>0, <2>1, <2>2, Paid
<1>9. ASSUME NEW d \in Devices, NEW e \in Devices, d # e, Receive(e, d) PROVE EchoInv'
  <2> DEFINE p == Head(net[<<e, d>>])
  <2>1. UNCHANGED <<clip, applied, watcher, writes, seen, echoes>> /\ handler[<<e, d>>] = None
    BY <1>9 DEF Receive, state, history
  <2>2. <<e, d>> \in Links /\ e \in Others(d)
    BY <1>9, LinkOf DEF Others
  <2>3. CASE ~ShouldApply(d, p)
    <3>1. UNCHANGED <<handler, mishaps>>
      BY <1>9, <2>3 DEF Receive
    <3> QED
      BY <1>1, <2>1, <3>1
  <2>4. CASE ShouldApply(d, p)
    <3>1. /\ handler' = [handler EXCEPT ![<<e, d>>] = p.text]
          /\ Mishap(Applying(d) \/ watcher[d].pc = "read")
      BY <1>9, <2>4 DEF Receive
    <3>2. \A f \in Devices \ {d} : \A g \in Others(f) : handler'[<<g, f>>] = handler[<<g, f>>]
      <4>1. \A f \in Devices \ {d} : \A g \in Others(f) : <<g, f>> \in Links /\ <<g, f>> # <<e, d>>
        BY LinkOf DEF Others
      <4> QED
        BY <1>0, <3>1, <4>1
    <3>3. CASE Applying(d) \/ watcher[d].pc = "read"
      <4>1. mishaps' = mishaps + 1
        BY <1>m, <3>1, <3>3
      <4> QED
        BY <1>0, <2>1, <3>2, <4>1, Paid
    <3>4. CASE ~(Applying(d) \/ watcher[d].pc = "read")
      <4>1. mishaps' = mishaps
        BY <1>m, <3>1, <3>4
      <4>2. p.text # None
        <5>1. net[<<e, d>>] \in Seq(Pushes) /\ net[<<e, d>>] # <<>>
          BY <1>0, <1>9, <2>2 DEF Receive
        <5>2. p \in Pushes
          BY <5>1, HeadTailProperties
        <5> QED
          BY <1>0, <5>2 DEF Pushes
      <4>3. writes[d] = <<>> /\ Pending(d) = {}
        BY <3>4, ApplyingIs
      <4>4. Pending(d)' = {e}
        <5>1. \A g \in Others(d) : <<g, d>> \in Links /\ (g # e => <<g, d>> # <<e, d>>)
          BY LinkOf DEF Others
        <5>2. handler'[<<e, d>>] = p.text
          BY <1>0, <2>2, <3>1
        <5>3. \A g \in Others(d) : g # e => handler'[<<g, d>>] = None
          BY <1>0, <3>1, <4>3, <5>1 DEF Pending
        <5> QED
          BY <2>2, <4>2, <5>2, <5>3 DEF Pending
      <4>5. Applying(d)' /\ Orderly(d)'
        BY <2>1, <2>2, <3>4, <4>3, <4>4, ApplyingIs DEF Orderly
      <4>6. ~MayRead(d)' /\ ~MayFind(d)'
        BY <2>1, <3>4, <4>5 DEF MayRead, MayFind
      <4>7. One(d, Readers') + One(d, Finders') <= One(d, Readers) + One(d, Finders)
        BY <1>o, <4>6
      <4>8. echoes' + One(d, Readers') + One(d, Finders')
               <= echoes + One(d, Readers) + One(d, Finders)
        BY <1>0, <2>1, <4>7 DEF One
      <4> QED
        BY <1>0, <2>1, <3>2, <4>1, <4>8, Paid
    <3> QED
      BY <3>3, <3>4
  <2> QED
    BY <2>3, <2>4
<1>10. ASSUME NEW d \in Devices, NEW e \in Devices, d # e, Apply(e, d) PROVE EchoInv'
  <2> DEFINE text == handler[<<e, d>>]
  <2>1. /\ text # None /\ handler' = [handler EXCEPT ![<<e, d>>] = None]
        /\ applied' = [applied EXCEPT ![d] = text]
        /\ writes' = [writes EXCEPT ![d] = Append(@, text)]
        /\ seen' = [seen EXCEPT ![d] = @ \cup {text}]
        /\ UNCHANGED <<clip, watcher, echoes, mishaps>>
    BY <1>10 DEF Apply
  <2>2. <<e, d>> \in Links /\ e \in Others(d)
    BY <1>10, LinkOf DEF Others
  <2>3. \A f \in Devices \ {d} : \A g \in Others(f) : handler'[<<g, f>>] = handler[<<g, f>>]
    <3>1. \A f \in Devices \ {d} : \A g \in Others(f) : <<g, f>> \in Links /\ <<g, f>> # <<e, d>>
      BY LinkOf DEF Others
    <3> QED
      BY <1>0, <2>1, <3>1
  <2>4. Applying(d)
    BY <2>1, <2>2 DEF Applying
  <2>5. writes'[d] = Append(writes[d], text) /\ applied'[d] = text
    BY <1>0, <2>1
  <2>6. writes'[d] # <<>>
    <3>1. writes[d] \in Seq(Texts) /\ text \in Texts
      BY <1>0, <2>1, <2>2
    <3> QED
      BY <2>5, <3>1, AppendProperties
  <2>7. Applying(d)'
    BY <2>6 DEF Applying
  <2>8. MayRead(d)' => MayRead(d)
    BY <2>1, <2>4 DEF MayRead
  <2>9. MayFind(d)' => MayFind(d)
    <3>1. SUFFICES ASSUME Orderly(d) PROVE Orderly(d)'
      BY <2>4, <2>7 DEF MayFind
    <3>2. e \in Pending(d)
      BY <2>1, <2>2 DEF Pending
    <3>3. watcher[d].pc # "read" /\ writes[d] = <<>> /\ Pending(d) = {e}
      BY <3>1, <3>2 DEF Orderly
    <3>4. writes'[d] = <<text>>
      BY <2>5, <3>3
    <3>5. Pending(d)' = {}
      <4>1. \A g \in Others(d) : <<g, d>> \in Links /\ (g # e => <<g, d>> # <<e, d>>)
        BY LinkOf DEF Others
      <4>2. \A g \in Others(d) : handler'[<<g, d>>] = None
        BY <1>0, <2>1, <3>3, <4>1 DEF Pending
      <4> QED
        BY <4>2 DEF Pending
    <3> QED
      BY <2>1, <2>5, <3>3, <3>4, <3>5 DEF Orderly
  <2>10. One(d, Readers') + One(d, Finders') <= One(d, Readers) + One(d, Finders)
    BY <1>o, <2>8, <2>9
  <2>11. echoes' + One(d, Readers') + One(d, Finders')
            <= echoes + One(d, Readers) + One(d, Finders)
    BY <1>0, <2>1, <2>10 DEF One
  <2> HIDE DEF text
  <2> QED
    BY <1>0, <2>1, <2>3, <2>11, Paid
<1>11. ASSUME NEW d \in Devices, NEW e \in Devices, d # e, Lose(e, d) PROVE EchoInv'
  BY <1>1, <1>11 DEF Lose, state, history
<1> QED
  BY <1>2, <1>3, <1>4, <1>5, <1>6, <1>7, <1>8, <1>9, <1>10, <1>11, StepOf

\* However many devices sync with each other, what they apply of each other goes
\* back and forth at most twice for each overlap (ShouldSend, ShouldApply, Applied).
THEOREM EchoesAreBounded == Spec => []EchoesNeedMishaps
<1> DEFINE Inv == TypeInv /\ Numbered /\ EchoInv
<1>1. Init => Inv
  BY InitTypes, InitNumbered, InitEchoes
<1>2. Inv /\ [Next]_vars => Inv'
  BY NextTypes, NextNumbered, NextEchoes
<1>3. Inv => EchoesNeedMishaps
  <2>1. SUFFICES ASSUME Inv PROVE EchoesNeedMishaps
    OBVIOUS
  <2>2. Readers \subseteq Devices /\ Finders \subseteq Devices
    BY DEF Readers, Finders
  <2>3. IsFiniteSet(Readers) /\ IsFiniteSet(Finders)
    BY <2>2, Bounds, FS_Subset
  <2>4. Cardinality(Readers) \in Nat /\ Cardinality(Finders) \in Nat
    BY <2>3, FS_CardinalityType
  <2>5. echoes \in Nat /\ mishaps \in Nat
    BY <2>1, Typed, Bounds
  <2> QED
    BY <2>1, <2>4, <2>5 DEF EchoInv, EchoesNeedMishaps
<1> HIDE DEF Inv
<1>4. Spec => []Inv
  BY <1>1, <1>2, PTL DEF Spec
<1> QED
  BY <1>3, <1>4, PTL

----------------------------------------------------------------------------
(* Convergence.  While nothing has got in the way, the device that copied   *)
(* last leads: what it has recorded is on its way, and nothing of the other *)
(* one can replace it.                                                      *)

Calm == mishaps = 0 /\ losses = 0 /\ ~crossed

\* No push bears a time long after the last push of its sender.
Sent ==
    \A d \in Devices : \A e \in Others(d) :
        \A i \in DOMAIN net[<<d, e>>] : pushed[d] # 0 /\ net[<<d, e>>][i].ts <= pushed[d] + Skew

\* Only a write that fails leaves a clipboard empty that has a digest.
Kept ==
    mishaps = 0 => \A d \in Devices :
        /\ applied[d] # None => clip[d] # None \/ writes[d] # <<>>
        /\ watcher[d].text # None => clip[d] # None

Untouched ==
    /\ \A d \in Devices : /\ applied[d] = None /\ localAt[d] = 0 /\ pushed[d] = 0
                          /\ watcher[d].pc # "push"
    /\ \A l \in Links : net[l] = <<>> /\ handler[l] = None

\* What d recorded last it has pushed since, or it has recorded nothing.
Told(d) == localAt[d] # 0 => pushed[d] # 0 /\ localAt[d] <= pushed[d] + Skew

\* The text t is the last e will have applied of d.
Reaches(d, e, t) ==
    \/ LET q == net[<<d, e>>] IN
          q # <<>> /\ q[Len(q)].text = t /\ (localAt[e] # 0 => q[Len(q)].ts >= localAt[e])
    \/ net[<<d, e>>] = <<>> /\ handler[<<d, e>>] = t
    \/ net[<<d, e>>] = <<>> /\ handler[<<d, e>>] = None /\ applied[e] = t

Leads(d, e) ==
    /\ applied[d] # None /\ localAt[d] # 0
    /\ handler[<<e, d>>] = None /\ writes[d] = <<>>
    /\ \A i \in DOMAIN net[<<e, d>>] : net[<<e, d>>][i].ts < localAt[d]
    /\ watcher[e].pc # "push" /\ Told(e)
    /\ pushed[e] # 0 => pushed[e] + Skew + Grain <= now
    /\ \/ watcher[d].pc = "push" /\ watcher[d].text = applied[d] /\ watcher[d].to = {e}
       \/ watcher[d].pc # "push" /\ Told(d) /\ Reaches(d, e, applied[d])

Follow == Calm => Untouched \/ \E d, e \in Devices : d # e /\ Leads(d, e)

\* What is left of a queue, and what is added to it.
LEMMA Queues ==
    ASSUME NEW S, NEW q \in Seq(S), NEW x \in S
    PROVE  /\ Append(q, x) # <<>> /\ Append(q, x)[Len(Append(q, x))] = x
           /\ \A j \in DOMAIN Append(q, x) :
                 Append(q, x)[j] = x \/ (j \in DOMAIN q /\ Append(q, x)[j] = q[j])
           /\ q # <<>> =>
                 /\ \A j \in DOMAIN Tail(q) : j + 1 \in DOMAIN q /\ Tail(q)[j] = q[j + 1]
                 /\ Tail(q) = <<>> => q[Len(q)] = Head(q)
                 /\ Tail(q) # <<>> => Tail(q)[Len(Tail(q))] = q[Len(q)]
<1>1. /\ Append(q, x) \in Seq(S) /\ Len(Append(q, x)) = Len(q) + 1
      /\ Append(q, x)[Len(q) + 1] = x /\ Append(q, x) # <<>>
      /\ \A j \in 1..Len(q) : Append(q, x)[j] = q[j]
  BY AppendProperties
<1>2. Len(q) \in Nat /\ DOMAIN q = 1..Len(q) /\ DOMAIN Append(q, x) = 1..Len(q) + 1
  BY <1>1
<1>3. ASSUME q # <<>>
      PROVE  /\ \A j \in DOMAIN Tail(q) : j + 1 \in DOMAIN q /\ Tail(q)[j] = q[j + 1]
             /\ Tail(q) = <<>> => q[Len(q)] = Head(q)
             /\ Tail(q) # <<>> => Tail(q)[Len(Tail(q))] = q[Len(q)]
  <2>1. /\ Head(q) = q[1] /\ Tail(q) \in Seq(S) /\ Len(Tail(q)) = Len(q) - 1
        /\ \A j \in 1..Len(Tail(q)) : Tail(q)[j] = q[j + 1]
    BY <1>3, HeadTailProperties
  <2>2. DOMAIN Tail(q) = 1..(Len(q) - 1) /\ Len(q) >= 1
    BY <1>2, <1>3, <2>1
  <2>3. Tail(q) = <<>> => Len(q) = 1
    <3>1. Len(<<>>) = 0
      OBVIOUS
    <3>2. Tail(q) = <<>> => Len(Tail(q)) = 0
      BY <3>1
    <3> QED
      BY <1>2, <2>1, <3>2
  <2>4. Tail(q) # <<>> => Len(q) > 1
    BY <1>2, <2>1, <2>2
  <2>5. \A j \in 1..(Len(q) - 1) : Tail(q)[j] = q[j + 1]
    BY <2>1
  <2>6. Tail(q) # <<>> => Tail(q)[Len(q) - 1] = q[Len(q)]
    <3>1. SUFFICES ASSUME Tail(q) # <<>> PROVE Tail(q)[Len(q) - 1] = q[Len(q)]
      OBVIOUS
    <3>2. Len(q) - 1 \in 1..(Len(q) - 1) /\ (Len(q) - 1) + 1 = Len(q)
      BY <1>2, <2>4, <3>1
    <3> QED
      BY <2>5, <3>2
  <2> QED
    BY <1>2, <2>1, <2>2, <2>3, <2>5, <2>6
<1> QED
  BY <1>1, <1>2, <1>3

LEMMA InitCalm == Init => Sent /\ Kept /\ Follow
<1> SUFFICES ASSUME Init PROVE Sent /\ Kept /\ Follow
  OBVIOUS
<1>1. Sent
  BY LinkOf DEF Init, Sent, Others
<1>2. Kept
  BY DEF Init, Kept, Sleeps
<1>3. Untouched
  BY DEF Init, Untouched, Sleeps
<1> QED
  BY <1>1, <1>2, <1>3 DEF Follow

LEMMA NextSent == TypeInv /\ Sent /\ [Next]_vars => Sent'
<1> SUFFICES ASSUME TypeInv, Sent, [Next]_vars PROVE Sent'
  OBVIOUS
<1>0. /\ net \in [Links -> Seq(Pushes)] /\ pushed \in [Devices -> 0..MaxTime]
      /\ now \in Nat /\ now # 0 /\ Skew \in Nat /\ MaxTime \in Nat
  BY Typed, Bounds
<1>1. ASSUME UNCHANGED <<net, pushed>> PROVE Sent'
  BY <1>1 DEF Sent
<1>2. ASSUME NEW d \in Devices, Push(d) PROVE Sent'
  <2>1. PICK e \in watcher[d].to, t \in Clock :
           net' = [net EXCEPT ![<<d, e>>] =
                     Append(@, [text |-> watcher[d].text, ts |-> Milli(t)])]
    BY <1>2 DEF Push
  <2>2. pushed' = [pushed EXCEPT ![d] = now] /\ pushed[d] <= now /\ pushed[d] \in Nat
    BY <1>0, <1>2, Typed DEF Push
  <2>3. <<d, e>> \in Links
    BY Typed, LinkOf DEF Others
  <2> DEFINE x == [text |-> watcher[d].text, ts |-> Milli(t)]
  <2>4. x \in Pushes
    <3>1. watcher[d].text \in Texts
      <4>1. watcher[d] \in Watches /\ watcher[d].text # None
        BY <1>2, Typed DEF Push
      <4> QED
        BY <4>1 DEF Watches
    <3>3. Milli(t) \in 0..(MaxTime + Skew)
      BY Typed, ClockType
    <3> QED
      BY <3>1, <3>3 DEF Pushes
  <2>5. Milli(t) \in Nat /\ Milli(t) <= now + Skew
    <3>1. Milli(t) \in Nat /\ t \in Nat /\ Milli(t) <= t /\ t <= now + Skew
      BY Typed, ClockType
    <3> QED
      BY <1>0, <3>1
  <2>6. SUFFICES ASSUME NEW f \in Devices, NEW g \in Others(f), NEW i \in DOMAIN net'[<<f, g>>]
                 PROVE  pushed'[f] # 0 /\ net'[<<f, g>>][i].ts <= pushed'[f] + Skew
    BY DEF Sent
  <2>7. <<f, g>> \in Links
    BY LinkOf DEF Others
  <2>8. CASE <<f, g>> = <<d, e>>
    <3>1. net'[<<f, g>>] = Append(net[<<d, e>>], x) /\ f = d
      BY <1>0, <2>1, <2>3, <2>8
    <3>2. \/ net'[<<f, g>>][i] = x
          \/ i \in DOMAIN net[<<d, e>>] /\ net'[<<f, g>>][i] = net[<<d, e>>][i]
      <4> HIDE DEF x
      <4> QED
        BY <1>0, <2>3, <2>4, <3>1, Queues
    <3>3. i \in DOMAIN net[<<d, e>>] => pushed[d] # 0 /\ net[<<d, e>>][i].ts <= pushed[d] + Skew
      BY <2>8, <3>1 DEF Sent
    <3>4. i \in DOMAIN net[<<d, e>>] => net[<<d, e>>][i].ts \in Nat
      <4>1. net[<<d, e>>] \in Seq(Pushes)
        BY <1>0, <2>3
      <4>2. i \in DOMAIN net[<<d, e>>] => net[<<d, e>>][i] \in Pushes
        BY <4>1
      <4> QED
        BY <4>2, Bounds DEF Pushes
    <3>5. pushed'[f] = now /\ now # 0
      BY <1>0, <2>2, <3>1
    <3> QED
      BY <1>0, <2>2, <2>5, <3>2, <3>3, <3>4, <3>5
  <2>9. CASE <<f, g>> # <<d, e>>
    <3>1. net'[<<f, g>>] = net[<<f, g>>]
      BY <1>0, <2>1, <2>7, <2>9
    <3>2. pushed[f] # 0 /\ net[<<f, g>>][i].ts <= pushed[f] + Skew
      BY <3>1 DEF Sent
    <3>3. f = d => net[<<f, g>>][i].ts \in Nat
      <4>1. net[<<f, g>>] \in Seq(Pushes)
        BY <1>0, <2>7
      <4>2. net[<<f, g>>][i] \in Pushes
        BY <3>1, <4>1
      <4> QED
        BY <4>2, Bounds DEF Pushes
    <3> QED
      BY <1>0, <2>2, <3>1, <3>2, <3>3
  <2> QED
    BY <2>8, <2>9
<1>3. ASSUME NEW d \in Devices, NEW e \in Devices, d # e, Receive(e, d) PROVE Sent'
  <2>1. /\ net' = [net EXCEPT ![<<e, d>>] = Tail(@)] /\ net[<<e, d>>] # <<>>
        /\ pushed' = pushed
    BY <1>3 DEF Receive, history
  <2>2. <<e, d>> \in Links
    BY <1>3, LinkOf
  <2>3. SUFFICES ASSUME NEW f \in Devices, NEW g \in Others(f), NEW i \in DOMAIN net'[<<f, g>>]
                 PROVE  pushed[f] # 0 /\ net'[<<f, g>>][i].ts <= pushed[f] + Skew
    BY <2>1 DEF Sent
  <2>4. <<f, g>> \in Links
    BY LinkOf DEF Others
  <2>5. \E j \in DOMAIN net[<<f, g>>] : net'[<<f, g>>][i] = net[<<f, g>>][j]
    <3>1. CASE <<f, g>> = <<e, d>>
      <4>1. net'[<<f, g>>] = Tail(net[<<e, d>>])
        BY <1>0, <2>1, <2>2, <3>1
      <4>2. net[<<e, d>>] \in Seq(Pushes) /\ Head(net[<<e, d>>]) \in Pushes
        BY <1>0, <2>1, <2>2, HeadTailProperties
      <4>3. \A j \in DOMAIN Tail(net[<<e, d>>]) :
               j + 1 \in DOMAIN net[<<e, d>>] /\ Tail(net[<<e, d>>])[j] = net[<<e, d>>][j + 1]
        BY <2>1, <4>2, Queues
      <4>4. i + 1 \in DOMAIN net[<<e, d>>] /\ net'[<<f, g>>][i] = net[<<e, d>>][i + 1]
        BY <4>1, <4>3
      <4> QED
        BY <3>1, <4>4
    <3>2. CASE <<f, g>> # <<e, d>>
      BY <1>0, <2>1, <2>4, <3>2
    <3> QED
      BY <3>1, <3>2
  <2> QED
    BY <2>5 DEF Sent
<1>4. ASSUME NEW d \in Devices, NEW e \in Devices, d # e, Lose(e, d) PROVE Sent'
  <2>1. net' = [net EXCEPT ![<<e, d>>] = <<>>, ![<<d, e>>] = <<>>] /\ pushed' = pushed
    BY <1>4 DEF Lose, history
  <2>2. \A f \in Devices : \A g \in Others(f) :
           net'[<<f, g>>] = <<>> \/ net'[<<f, g>>] = net[<<f, g>>]
    <3>1. \A f \in Devices : \A g \in Others(f) : <<f, g>> \in Links
      BY LinkOf DEF Others
    <3> QED
      BY <1>0, <2>1, <3>1
  <2>3. DOMAIN <<>> = {}
    OBVIOUS
  <2>4. ASSUME NEW f \in Devices, NEW g \in Others(f), NEW i \in DOMAIN net'[<<f, g>>]
        PROVE  pushed'[f] # 0 /\ net'[<<f, g>>][i].ts <= pushed'[f] + Skew
    <3>1. net'[<<f, g>>] = net[<<f, g>>]
      BY <2>2, <2>3, <2>4
    <3> QED
      BY <2>1, <2>4, <3>1 DEF Sent
  <2> QED
    BY <2>4 DEF Sent
<1>5. ASSUME NEW d \in Devices, Copy(d) \/ Poll(d) \/ Decide(d) \/ Write(d) \/ WriteFails(d)
      PROVE  Sent'
  BY <1>1, <1>5 DEF Copy, Poll, Decide, Write, WriteFails, history
<1>6. CASE UNCHANGED vars \/ Tick
  BY <1>1, <1>6 DEF vars, Tick, history
<1>7. ASSUME NEW d \in Devices, NEW e \in Devices, Apply(e, d) PROVE Sent'
  BY <1>1, <1>7 DEF Apply
<1> QED
  BY <1>2, <1>3, <1>4, <1>5, <1>6, <1>7, StepOf

LEMMA NextKept == TypeInv /\ Kept /\ [Next]_vars => Kept'
<1> SUFFICES ASSUME TypeInv, Kept, [Next]_vars, mishaps' = 0 PROVE Kept'
  BY DEF Kept
<1>0. /\ mishaps \in Nat /\ copies \in Nat /\ None = 0 /\ None \notin Texts
      /\ clip \in [Devices -> Texts \cup {None}] /\ applied \in [Devices -> Texts \cup {None}]
      /\ writes \in [Devices -> Seq(Texts)] /\ watcher \in [Devices -> Watches]
  BY Typed, Bounds
<1>1. CASE UNCHANGED vars \/ Tick
  BY <1>1 DEF vars, Tick, state, history, Kept
<1>2. ASSUME NEW d \in Devices, Copy(d) PROVE Kept'
  <2>1. copies + 1 # None
    BY <1>0
  <2>2. \A f \in Devices : clip[f] # None => clip'[f] # None
    BY <1>0, <1>2, <2>1 DEF Copy
  <2> QED
    BY <1>2, <2>2 DEF Copy, state, Kept
<1>3. ASSUME NEW d \in Devices, Poll(d) PROVE Kept'
  <2>1. mishaps = 0
    BY <1>0, <1>3 DEF Poll, Mishap
  <2>2. \A f \in Devices : watcher'[f].text = watcher[f].text \/ watcher'[f].text = clip[f]
    BY <1>0, <1>3 DEF Poll
  <2> QED
    BY <1>3, <2>1, <2>2 DEF Poll, state, Kept
<1>4. ASSUME NEW d \in Devices, Decide(d) PROVE Kept'
  <2>1. \A f \in Devices : applied'[f] = applied[f] \/ applied'[f] = watcher[f].text
    BY <1>0, <1>4 DEF Decide, Record, state
  <2>2. \A f \in Devices : watcher'[f].text = watcher[f].text \/ watcher'[f].text = None
    <3>1. CASE WorthSending(d, watcher[d].text)
      <4>1. watcher' = [watcher EXCEPT ![d].pc = "push", ![d].to = Others(d)]
        BY <1>4, <3>1 DEF Decide
      <4>2. watcher'[d] = [[watcher[d] EXCEPT !.pc = "push"] EXCEPT !.to = Others(d)]
        BY <1>0, <4>1
      <4>3. watcher'[d].text = watcher[d].text
        BY <1>0, <4>2 DEF Watches
      <4> QED
        BY <1>0, <4>1, <4>3
    <3>2. CASE ~WorthSending(d, watcher[d].text)
      <4>1. watcher' = [watcher EXCEPT ![d] = Sleeps] /\ Sleeps.text = None
        BY <1>4, <3>2 DEF Decide, Sleeps
      <4> QED
        BY <1>0, <4>1
    <3> QED
      BY <3>1, <3>2
  <2> QED
    BY <1>4, <2>1, <2>2 DEF Decide, Kept
<1>5. ASSUME NEW d \in Devices, Push(d) PROVE Kept'
  <2>1. PICK e \in watcher[d].to : watcher' = [watcher EXCEPT ![d] = Rest(@, e)]
    BY <1>5 DEF Push
  <2>2. Rest(watcher[d], e).text \in {watcher[d].text, None}
    BY <1>0 DEF Rest, Sleeps, Watches
  <2>3. \A f \in Devices : watcher'[f].text = watcher[f].text \/ watcher'[f].text = None
    BY <1>0, <2>1, <2>2
  <2> QED
    BY <1>5, <2>3 DEF Push, state, Kept
<1>6. ASSUME NEW d \in Devices, Write(d) PROVE Kept'
  <2>1. PICK i \in DOMAIN writes[d] : /\ clip' = [clip EXCEPT ![d] = writes[d][i]]
                                      /\ writes' = [writes EXCEPT ![d] = RemoveAt(@, i)]
    BY <1>6 DEF Write
  <2>2. writes[d][i] \in Texts
    BY <1>0, <2>1
  <2>3. clip'[d] # None /\ \A f \in Devices \ {d} : clip'[f] = clip[f] /\ writes'[f] = writes[f]
    BY <1>0, <2>1, <2>2
  <2> QED
    BY <1>6, <2>3 DEF Write, state, Kept
<1>7. ASSUME NEW d \in Devices, WriteFails(d) PROVE Kept'
  BY <1>0, <1>7 DEF WriteFails, Mishap
<1>8. ASSUME NEW d \in Devices, NEW e \in Devices, Receive(e, d) PROVE Kept'
  <2>1. mishaps = 0
    BY <1>0, <1>8 DEF Receive, Mishap
  <2> QED
    BY <1>8, <2>1 DEF Receive, state, Kept
<1>9. ASSUME NEW d \in Devices, NEW e \in Devices, d # e, Apply(e, d) PROVE Kept'
  <2>1. handler[<<e, d>>] \in Texts
    BY <1>9, Typed, LinkOf DEF Apply
  <2>2. writes' = [writes EXCEPT ![d] = Append(@, handler[<<e, d>>])]
    BY <1>9 DEF Apply
  <2>3. Append(writes[d], handler[<<e, d>>]) # <<>>
    BY <1>0, <2>1, AppendProperties
  <2>4. writes'[d] # <<>> /\ \A f \in Devices \ {d} : writes'[f] = writes[f]
    BY <1>0, <2>2, <2>3
  <2>5. \A f \in Devices \ {d} : applied'[f] = applied[f]
    BY <1>0, <1>9 DEF Apply
  <2> QED
    BY <1>9, <2>4, <2>5 DEF Apply, Kept
<1>10. ASSUME NEW d \in Devices, NEW e \in Devices, d # e, Lose(e, d) PROVE Kept'
  BY <1>10 DEF Lose, state, Kept
<1> QED
  BY <1>1, <1>2, <1>3, <1>4, <1>5, <1>6, <1>7, <1>8, <1>9, <1>10, StepOf

\* Without a mishap nothing is being applied while the watcher has something read.
LEMMA NoneOwed ==
    ASSUME TypeInv, EchoInv, mishaps = 0, NEW d \in Devices, watcher[d].pc = "read"
    PROVE  writes[d] = <<>> /\ \A e \in Others(d) : handler[<<e, d>>] = None
<1>1. Readers \subseteq Devices /\ Finders \subseteq Devices
  BY DEF Readers, Finders
<1>2. IsFiniteSet(Readers) /\ IsFiniteSet(Finders)
  BY <1>1, Bounds, FS_Subset
<1>3. Cardinality(Readers) \in Nat /\ Cardinality(Finders) \in Nat /\ echoes \in Nat
  BY <1>2, FS_CardinalityType, Typed
<1>4. Cardinality(Readers) = 0
  BY <1>3 DEF EchoInv
<1>5. Readers = {}
  BY <1>2, <1>4, FS_EmptySet
<1> QED
  BY <1>5 DEF Readers, MayRead, Applying

\* Whoever records a copy while nothing crosses it takes the lead.
LEMMA TakesTheLead ==
    ASSUME TypeInv, EchoInv, Sent, mishaps = 0, NEW d \in Devices, NEW e \in Devices, d # e,
           Others(d) = {e}, watcher[e].pc # "push", Told(e),
           Decide(d), WorthSending(d, watcher[d].text), ~crossed'
    PROVE  Leads(d, e)'
<1> DEFINE text == watcher[d].text
<1>0. /\ now \in Nat /\ now \in 1..MaxTime /\ pushed[e] \in Nat
      /\ watcher \in [Devices -> Watches] /\ net \in [Links -> Seq(Pushes)]
      /\ applied \in [Devices -> Texts \cup {None}]
      /\ localAt \in [Devices -> 0..(MaxTime + Skew)]
      /\ <<e, d>> \in Links /\ Skew \in Nat /\ Grain \in Nat /\ Grain > 0
  <2>1. now \in 1..MaxTime /\ MaxTime \in Nat /\ pushed[e] \in 0..MaxTime
    BY Typed, Bounds
  <2>2. <<e, d>> \in Links
    BY LinkOf
  <2> QED
    BY <2>1, <2>2, Typed, Bounds
<1>1. watcher[d].pc = "read" /\ UNCHANGED <<now, net, handler, writes, pushed>>
  BY DEF Decide
<1>2. PICK t \in Clock : localAt' = [localAt EXCEPT ![d] = t]
  BY DEF Decide, Record
<1>3. /\ watcher' = [watcher EXCEPT ![d].pc = "push", ![d].to = Others(d)]
      /\ applied' = [applied EXCEPT ![d] = text] /\ ~Crossing(d)
  BY DEF Decide, Record
<1>4. watcher'[d].pc = "push" /\ watcher'[d].text = text /\ watcher'[d].to = {e}
  <2>1. watcher'[d] = [[watcher[d] EXCEPT !.pc = "push"] EXCEPT !.to = Others(d)]
    BY <1>0, <1>3
  <2> QED
    BY <1>0, <2>1 DEF Watches
<1>5. /\ applied'[d] = text /\ localAt'[d] = t /\ localAt'[e] = localAt[e]
      /\ watcher'[e] = watcher[e] /\ text # None
  BY <1>0, <1>2, <1>3 DEF WorthSending
<1>6. writes[d] = <<>> /\ handler[<<e, d>>] = None
  BY <1>1, NoneOwed
<1>7. pushed[e] # 0 => pushed[e] + Skew + Grain <= now
  <2>1. pushed[e] # 0 => ~(now < pushed[e] + Skew + Grain)
    BY <1>3 DEF Crossing
  <2> QED
    BY <1>0, <2>1
<1>8. t \in Nat /\ t # 0 /\ now <= t
  BY <1>0, ClockType
<1>9. ASSUME NEW i \in DOMAIN net[<<e, d>>] PROVE net[<<e, d>>][i].ts < t
  <2>1. d \in Others(e)
    BY DEF Others
  <2>2. net[<<e, d>>][i].ts <= pushed[e] + Skew
    BY <2>1 DEF Sent
  <2>3. net[<<e, d>>] \in Seq(Pushes)
    BY <1>0
  <2>4. net[<<e, d>>][i] \in Pushes
    BY <2>3
  <2>5. net[<<e, d>>][i].ts \in Nat
    BY <1>0, <2>4, Bounds DEF Pushes
  <2>6. pushed[e] # 0
    BY <2>1 DEF Sent
  <2> QED
    BY <1>0, <1>7, <1>8, <2>2, <2>5, <2>6
<1> HIDE DEF text
<1> QED
  BY <1>0, <1>1, <1>4, <1>5, <1>6, <1>7, <1>8, <1>9 DEF Leads, Told

\* Who leads depends on what is recorded and on its way.
LEMMA StillLeads ==
    ASSUME TypeInv, NEW d \in Devices, NEW e \in Devices, Leads(d, e),
           UNCHANGED <<applied, localAt, handler, net, pushed>>, writes'[d] = writes[d],
           now' = now \/ now' = now + 1,
           \A f \in {d, e} : /\ watcher'[f].pc = "push" <=> watcher[f].pc = "push"
                             /\ watcher[f].pc = "push" => watcher'[f] = watcher[f]
    PROVE  Leads(d, e)'
<1>1. now \in Nat /\ pushed[e] \in Nat /\ Skew \in Nat /\ Grain \in Nat
  <2>1. now \in 1..MaxTime /\ pushed[e] \in 0..MaxTime /\ MaxTime \in Nat
    BY Typed, Bounds
  <2> QED
    BY <2>1, Bounds
<1>2. (pushed[e] # 0 => pushed[e] + Skew + Grain <= now)'
  <2>1. pushed[e] # 0 => pushed[e] + Skew + Grain <= now
    BY DEF Leads
  <2> QED
    BY <1>1, <2>1
<1>3. Told(d)' = Told(d) /\ Told(e)' = Told(e)
  BY DEF Told
<1> QED
  BY <1>2, <1>3 DEF Leads, Reaches

\* The leader's push.
LEMMA PushedOn ==
    ASSUME TypeInv, NEW d \in Devices, NEW e \in Devices, d # e, Others(d) = {e},
           Leads(d, e), NEW x \in Devices, Push(x)
    PROVE  Leads(d, e)'
<1>0. /\ now \in Nat /\ now \in 1..MaxTime /\ localAt[d] \in Nat /\ localAt[d] <= now + Skew
      /\ localAt[e] \in Nat /\ pushed[e] \in Nat /\ Skew \in Nat /\ Grain \in Nat
      /\ watcher \in [Devices -> Watches] /\ net \in [Links -> Seq(Pushes)]
      /\ pushed \in [Devices -> 0..MaxTime]
      /\ <<e, d>> \in Links /\ <<d, e>> \in Links
  <2>1. /\ localAt[d] \in 0..(MaxTime + Skew) /\ now \in 1..MaxTime /\ MaxTime \in Nat
        /\ localAt[e] \in 0..(MaxTime + Skew) /\ pushed[e] \in 0..MaxTime
        /\ localAt[d] <= now + Skew
    BY Typed, Bounds
  <2>2. <<e, d>> \in Links /\ <<d, e>> \in Links
    BY LinkOf
  <2>3. localAt[d] \in Nat /\ localAt[e] \in Nat /\ pushed[e] \in Nat /\ now \in Nat
    BY <2>1, Bounds
  <2> QED
    BY <2>1, <2>2, <2>3, Typed, Bounds
<1>1. x = d
  <2>1. x \in {d, e}
    BY DEF Others
  <2> QED
    BY <2>1 DEF Push, Leads
<1>2. watcher[d].pc = "push" /\ watcher[d].text = applied[d] /\ watcher[d].to = {e}
  BY <1>1 DEF Push, Leads
<1>3. PICK f \in watcher[d].to, t \in Clock :
         /\ net' = [net EXCEPT ![<<d, f>>] =
                      Append(@, [text |-> watcher[d].text, ts |-> Milli(t)])]
         /\ watcher' = [watcher EXCEPT ![d] = Rest(@, f)]
  BY <1>1 DEF Push
<1> DEFINE p == [text |-> watcher[d].text, ts |-> Milli(t)]
<1>4. /\ net' = [net EXCEPT ![<<d, e>>] = Append(@, p)]
      /\ watcher' = [watcher EXCEPT ![d] = Sleeps]
      /\ pushed' = [pushed EXCEPT ![d] = now]
      /\ UNCHANGED <<now, applied, localAt, handler, writes>>
  <2>1. f = e
    BY <1>2, <1>3
  <2>2. Rest(watcher[d], e) = Sleeps
    BY <1>2 DEF Rest
  <2> HIDE DEF p
  <2>3. watcher' = [watcher EXCEPT ![d] = Sleeps]
    BY <1>0, <1>3, <2>1, <2>2
  <2> QED
    BY <1>1, <1>3, <2>1, <2>3 DEF Push, state, p
<1>5. localAt[e] # 0 => Milli(t) >= localAt[e]
  <2>1. SUFFICES ASSUME localAt[e] # 0 PROVE Milli(t) >= localAt[e]
    OBVIOUS
  <2>2. localAt[e] <= pushed[e] + Skew /\ pushed[e] + Skew + Grain <= now
    BY <2>1 DEF Leads, Told
  <2>3. t \in Nat /\ now <= t /\ Milli(t) \in Nat /\ t < Milli(t) + Grain
    BY <1>0, ClockType
  <2> QED
    BY <1>0, <2>2, <2>3
<1>6. p \in Pushes
  <2>1. watcher[d].text \in Texts
    <3>1. watcher[d] \in Watches /\ watcher[d].text # None
      BY <1>0, <1>2, Typed
    <3> QED
      BY <3>1 DEF Watches
  <2>2. Milli(t) \in 0..(MaxTime + Skew)
    BY <1>0, ClockType
  <2> QED
    BY <2>1, <2>2 DEF Pushes
<1>7. p.text = applied[d] /\ p.ts = Milli(t)
  BY <1>2
<1> HIDE DEF p
<1>8. net'[<<d, e>>] = Append(net[<<d, e>>], p)
  BY <1>0, <1>4
<1>9. net'[<<d, e>>] # <<>> /\ net'[<<d, e>>][Len(net'[<<d, e>>])] = p
  <2>1. net[<<d, e>>] \in Seq(Pushes)
    BY <1>0
  <2> QED
    BY <1>6, <1>8, <2>1, Queues
<1>10. Reaches(d, e, applied[d])'
  BY <1>4, <1>5, <1>7, <1>9 DEF Reaches
<1>11. /\ net'[<<e, d>>] = net[<<e, d>>] /\ watcher'[e] = watcher[e] /\ pushed'[e] = pushed[e]
       /\ watcher'[d].pc # "push" /\ pushed'[d] = now
  BY <1>0, <1>4 DEF Sleeps
<1>12. Told(d)' /\ (Told(e) => Told(e)')
  BY <1>0, <1>4, <1>11 DEF Told
<1> QED
  BY <1>0, <1>4, <1>10, <1>11, <1>12 DEF Leads

\* What the other device receives is the leader's, or leads to it; what the leader
\* receives is too old.
LEMMA ReceivedOn ==
    ASSUME TypeInv, NEW d \in Devices, NEW e \in Devices, d # e, Leads(d, e),
           Receive(d, e) \/ Receive(e, d)
    PROVE  Leads(d, e)'
<1>0. /\ <<d, e>> \in Links /\ <<e, d>> \in Links /\ <<d, e>> # <<e, d>>
      /\ net \in [Links -> Seq(Pushes)] /\ handler \in [Links -> Texts \cup {None}]
      /\ localAt \in [Devices -> 0..(MaxTime + Skew)] /\ pushed \in [Devices -> 0..MaxTime]
      /\ MaxTime \in Nat
  BY Typed, Bounds, LinkOf
<1>1. UNCHANGED <<now, applied, localAt, watcher, writes, pushed>>
  BY DEF Receive, state, history
<1>t. Told(d)' = Told(d) /\ Told(e)' = Told(e)
  BY <1>1 DEF Told
<1>2. ASSUME NEW l \in {<<d, e>>, <<e, d>>}, net[l] # <<>>
      PROVE  /\ Head(net[l]) \in Pushes /\ Head(net[l]) = net[l][1] /\ 1 \in DOMAIN net[l]
             /\ Head(net[l]).ts \in Nat /\ Head(net[l]).text \in Texts
             /\ \A j \in DOMAIN Tail(net[l]) :
                   j + 1 \in DOMAIN net[l] /\ Tail(net[l])[j] = net[l][j + 1]
             /\ Tail(net[l]) = <<>> => net[l][Len(net[l])] = Head(net[l])
             /\ Tail(net[l]) # <<>> => Tail(net[l])[Len(Tail(net[l]))] = net[l][Len(net[l])]
  <2>1. net[l] \in Seq(Pushes)
    BY <1>0
  <2>2. Head(net[l]) \in Pushes /\ Head(net[l]) = net[l][1] /\ 1 \in DOMAIN net[l]
    BY <1>2, <2>1, HeadTailProperties
  <2>3. Head(net[l]).ts \in Nat /\ Head(net[l]).text \in Texts
    BY <1>0, <2>2 DEF Pushes
  <2> QED
    BY <1>2, <2>1, <2>2, <2>3, Queues
<1>3. CASE Receive(d, e)
  <2> DEFINE p == Head(net[<<d, e>>])
             t == applied[d]
  <2>1. /\ handler[<<d, e>>] = None /\ net[<<d, e>>] # <<>>
        /\ net' = [net EXCEPT ![<<d, e>>] = Tail(@)]
        /\ IF ShouldApply(e, p) THEN handler' = [handler EXCEPT ![<<d, e>>] = p.text]
                                ELSE handler' = handler
    BY <1>3 DEF Receive
  <2>2. /\ net'[<<d, e>>] = Tail(net[<<d, e>>]) /\ net'[<<e, d>>] = net[<<e, d>>]
        /\ handler'[<<e, d>>] = handler[<<e, d>>]
        /\ handler'[<<d, e>>] = IF ShouldApply(e, p) THEN p.text ELSE None
    BY <1>0, <2>1
  <2>3. watcher[d].pc # "push" => Reaches(d, e, t)'
    <3>1. SUFFICES ASSUME watcher[d].pc # "push" PROVE Reaches(d, e, t)'
      OBVIOUS
    <3>2. LET q == net[<<d, e>>] IN q[Len(q)].text = t /\ (localAt[e] # 0 => q[Len(q)].ts >= localAt[e])
      BY <2>1, <3>1 DEF Leads, Reaches
    <3>3. CASE Tail(net[<<d, e>>]) # <<>>
      <4>1. LET q == net'[<<d, e>>] IN
               q # <<>> /\ q[Len(q)].text = t /\ (localAt[e] # 0 => q[Len(q)].ts >= localAt[e])
        BY <1>2, <2>1, <2>2, <3>2, <3>3
      <4> QED
        BY <1>1, <4>1 DEF Reaches
    <3>4. CASE Tail(net[<<d, e>>]) = <<>>
      <4>1. p.text = t /\ (localAt[e] # 0 => p.ts >= localAt[e])
        BY <1>2, <2>1, <3>2, <3>4
      <4>3. ShouldApply(e, p) \/ applied[e] = t
        BY <4>1 DEF ShouldApply
      <4>4. net'[<<d, e>>] = <<>>
        BY <2>2, <3>4
      <4>5. handler'[<<d, e>>] = t \/ (handler'[<<d, e>>] = None /\ applied[e] = t)
        BY <2>2, <4>1, <4>3
      <4> QED
        BY <1>1, <4>4, <4>5 DEF Reaches
    <3> QED
      BY <3>3, <3>4
  <2> QED
    BY <1>1, <1>t, <2>2, <2>3 DEF Leads
<1>4. CASE Receive(e, d)
  <2> DEFINE p == Head(net[<<e, d>>])
  <2>1. /\ net[<<e, d>>] # <<>> /\ net' = [net EXCEPT ![<<e, d>>] = Tail(@)]
        /\ ~ShouldApply(d, p) => handler' = handler
    BY <1>4 DEF Receive
  <2>2. p.ts < localAt[d]
    BY <1>2, <2>1 DEF Leads
  <2>3. ~ShouldApply(d, p)
    <3>1. p.ts \in Nat /\ localAt[d] \in Nat /\ localAt[d] # 0
      BY <1>0, <1>2, <2>1 DEF Leads
    <3> HIDE DEF p
    <3> QED
      BY <2>2, <3>1 DEF ShouldApply
  <2>4. /\ net'[<<e, d>>] = Tail(net[<<e, d>>]) /\ net'[<<d, e>>] = net[<<d, e>>]
        /\ handler' = handler
    BY <1>0, <2>1, <2>3
  <2>5. \A i \in DOMAIN net'[<<e, d>>] : net'[<<e, d>>][i].ts < localAt[d]
    <3>1. ASSUME NEW i \in DOMAIN Tail(net[<<e, d>>])
          PROVE  Tail(net[<<e, d>>])[i].ts < localAt[d]
      <4>1. i + 1 \in DOMAIN net[<<e, d>>] /\ Tail(net[<<e, d>>])[i] = net[<<e, d>>][i + 1]
        BY <1>2, <2>1
      <4> QED
        BY <4>1 DEF Leads
    <3> QED
      BY <2>4, <3>1
  <2> QED
    BY <1>1, <1>t, <2>4, <2>5 DEF Leads, Reaches
<1> QED
  BY <1>3, <1>4

\* What is applied of the leader stays the last of it.
LEMMA AppliedOn ==
    ASSUME TypeInv, NEW d \in Devices, NEW e \in Devices, d # e, Leads(d, e),
           Apply(d, e) \/ Apply(e, d)
    PROVE  Leads(d, e)'
<1>0. /\ <<d, e>> \in Links /\ <<e, d>> \in Links /\ <<d, e>> # <<e, d>>
      /\ handler \in [Links -> Texts \cup {None}]
      /\ applied \in [Devices -> Texts \cup {None}] /\ writes \in [Devices -> Seq(Texts)]
  BY Typed, LinkOf
<1>1. /\ handler[<<d, e>>] # None /\ handler' = [handler EXCEPT ![<<d, e>>] = None]
      /\ applied' = [applied EXCEPT ![e] = handler[<<d, e>>]]
      /\ writes' = [writes EXCEPT ![e] = Append(@, handler[<<d, e>>])]
      /\ UNCHANGED <<now, localAt, watcher, net, pushed>>
  BY DEF Apply, Leads
<1>2. /\ applied'[d] = applied[d] /\ applied'[e] = handler[<<d, e>>] /\ writes'[d] = writes[d]
      /\ handler'[<<d, e>>] = None /\ handler'[<<e, d>>] = handler[<<e, d>>]
  BY <1>0, <1>1
<1>3. Reaches(d, e, applied[d]) => Reaches(d, e, applied[d])'
  BY <1>1, <1>2 DEF Reaches
<1>4. Told(d)' = Told(d) /\ Told(e)' = Told(e)
  BY <1>1 DEF Told
<1> QED
  BY <1>1, <1>2, <1>3, <1>4 DEF Leads

\* At most two devices.
TwoDevices == \A d, e \in Devices : d # e => Others(d) = {e}

\* What a step that is not a lost session leaves, when nothing gets in the way.
LEMMA WasCalm ==
    ASSUME TypeInv, [Next]_vars, Calm'
    PROVE  Calm /\ mishaps' = mishaps
<1>0. mishaps \in Nat /\ losses \in Nat /\ crossed \in BOOLEAN
  BY Typed, Bounds
<1>1. CASE UNCHANGED vars \/ Tick
  BY <1>1 DEF Calm, vars, Tick, history
<1>2. ASSUME NEW d \in Devices, Copy(d) \/ Poll(d) \/ Decide(d) \/ Push(d) \/ Write(d) \/ WriteFails(d)
      PROVE  Calm /\ mishaps' = mishaps
  BY <1>0, <1>2 DEF Calm, Copy, Poll, Decide, Push, Write, WriteFails, Mishap, history
<1>3. ASSUME NEW d \in Devices, NEW e \in Devices, Receive(e, d) \/ Apply(e, d) \/ Lose(e, d)
      PROVE  Calm /\ mishaps' = mishaps
  BY <1>0, <1>3 DEF Calm, Receive, Apply, Lose, Mishap, history
<1> QED
  BY <1>1, <1>2, <1>3, StepOf

LEMMA UntouchedGoesOn ==
    ASSUME TypeInv, EchoInv, Sent, TwoDevices, Calm, Calm', Untouched, [Next]_vars
    PROVE  Untouched' \/ \E d, e \in Devices : d # e /\ Leads(d, e)'
<1>0. /\ watcher \in [Devices -> Watches] /\ mishaps = 0 /\ ~crossed'
      /\ \A d \in Devices : Others(d) # {} /\ Others(d) \subseteq Devices \ {d}
  BY Typed, Bounds DEF Calm, Others
<1>1. ASSUME UNCHANGED <<applied, localAt, pushed, net, handler>>,
             \A d \in Devices : watcher'[d].pc # "push"
      PROVE  Untouched'
  BY <1>1 DEF Untouched
<1>2. CASE UNCHANGED vars \/ Tick
  BY <1>1, <1>2 DEF vars, Tick, state, history, Untouched
<1>3. ASSUME NEW d \in Devices, Copy(d) \/ Write(d) \/ WriteFails(d) PROVE Untouched'
  BY <1>1, <1>3 DEF Copy, Write, WriteFails, state, history, Untouched
<1>4. ASSUME NEW d \in Devices, Poll(d) PROVE Untouched'
  <2>1. \A f \in Devices : watcher'[f].pc # "push"
    BY <1>0, <1>4 DEF Poll, Untouched
  <2> QED
    BY <1>1, <1>4, <2>1 DEF Poll, state, history
<1>5. ASSUME NEW d \in Devices, Decide(d)
      PROVE  Untouched' \/ \E f, e \in Devices : f # e /\ Leads(f, e)'
  <2>1. CASE WorthSending(d, watcher[d].text)
    <3>1. PICK e \in Devices : d # e /\ Others(d) = {e}
      BY <1>0 DEF TwoDevices
    <3>2. watcher[e].pc # "push" /\ Told(e)
      BY DEF Untouched, Told
    <3>3. Leads(d, e)'
      BY <1>0, <1>5, <2>1, <3>1, <3>2, TakesTheLead
    <3> QED
      BY <3>1, <3>3
  <2>2. CASE ~WorthSending(d, watcher[d].text)
    <3>1. watcher' = [watcher EXCEPT ![d] = Sleeps] /\ UNCHANGED state
      BY <1>5, <2>2 DEF Decide
    <3>2. \A f \in Devices : watcher'[f].pc # "push"
      BY <1>0, <3>1 DEF Sleeps, Untouched
    <3> QED
      BY <1>1, <1>5, <3>1, <3>2 DEF Decide, state
  <2> QED
    BY <2>1, <2>2
<1>6. ASSUME NEW d \in Devices, Push(d) PROVE FALSE
  BY <1>6 DEF Push, Untouched
<1>7. ASSUME NEW d \in Devices, NEW e \in Devices, d # e, Receive(e, d) \/ Apply(e, d) PROVE FALSE
  <2>1. <<e, d>> \in Links
    BY <1>7, LinkOf
  <2> QED
    BY <1>7, <2>1 DEF Receive, Apply, Untouched
<1>8. ASSUME NEW d \in Devices, NEW e \in Devices, Lose(e, d) PROVE FALSE
  <2>1. losses = 0 /\ losses' = 0
    BY DEF Calm
  <2> QED
    BY <1>8, <2>1 DEF Lose
<1> QED
  BY <1>2, <1>3, <1>4, <1>5, <1>6, <1>7, <1>8, StepOf

LEMMA LeadGoesOn ==
    ASSUME TypeInv, EchoInv, Sent, TwoDevices, Calm, Calm', [Next]_vars,
           NEW d \in Devices, NEW e \in Devices, d # e, Leads(d, e)
    PROVE  Leads(d, e)' \/ Leads(e, d)'
<1>0. /\ watcher \in [Devices -> Watches] /\ writes \in [Devices -> Seq(Texts)]
      /\ mishaps = 0 /\ mishaps' = 0 /\ ~crossed'
      /\ Others(d) = {e} /\ Others(e) = {d} /\ \A f \in Devices : f \in {d, e}
  <2>1. Others(d) = {e} /\ Others(e) = {d}
    BY DEF TwoDevices
  <2> QED
    BY <2>1, Typed DEF Calm, Others
<1>1. CASE UNCHANGED vars \/ Tick
  BY <1>1, StillLeads DEF vars, Tick, state, history
<1>2. ASSUME NEW f \in Devices, Copy(f) PROVE Leads(d, e)'
  BY <1>2, StillLeads DEF Copy, state, history
<1>3. ASSUME NEW f \in Devices, Poll(f) PROVE Leads(d, e)'
  <2>1. \A g \in {d, e} : /\ watcher'[g].pc = "push" <=> watcher[g].pc = "push"
                          /\ watcher[g].pc = "push" => watcher'[g] = watcher[g]
    BY <1>0, <1>3 DEF Poll, Sleeps
  <2> QED
    BY <1>3, <2>1, StillLeads DEF Poll, state, history
<1>4. ASSUME NEW f \in Devices, Decide(f), ~WorthSending(f, watcher[f].text)
      PROVE  Leads(d, e)'
  <2>1. \A g \in {d, e} : /\ watcher'[g].pc = "push" <=> watcher[g].pc = "push"
                          /\ watcher[g].pc = "push" => watcher'[g] = watcher[g]
    BY <1>0, <1>4 DEF Decide, Sleeps
  <2> QED
    BY <1>4, <2>1, StillLeads DEF Decide, state
\* The leader copies again.
<1>5. ASSUME Decide(d), WorthSending(d, watcher[d].text) PROVE Leads(d, e)'
  <2>1. watcher[e].pc # "push" /\ Told(e)
    BY DEF Leads
  <2> QED
    BY <1>0, <1>5, <2>1, TakesTheLead
\* The other one does, when the leader has pushed.
<1>6. ASSUME Decide(e), WorthSending(e, watcher[e].text) PROVE Leads(e, d)'
  <2>1. ~Crossing(e)
    BY <1>0, <1>6 DEF Decide
  <2>2. watcher[d].pc # "push"
    BY <1>0, <2>1 DEF Crossing
  <2>3. Told(d)
    BY <2>2 DEF Leads
  <2> QED
    BY <1>0, <1>6, <2>2, <2>3, TakesTheLead
<1>7. ASSUME NEW f \in Devices, Push(f) PROVE Leads(d, e)'
  BY <1>0, <1>7, PushedOn
<1>8. ASSUME NEW f \in Devices, Write(f) PROVE Leads(d, e)'
  <2>1. f # d
    BY <1>8 DEF Write, Leads
  <2>2. writes'[d] = writes[d]
    BY <1>0, <1>8, <2>1 DEF Write
  <2> QED
    BY <1>8, <2>2, StillLeads DEF Write, state, history
<1>9. ASSUME NEW f \in Devices, WriteFails(f) PROVE FALSE
  BY <1>0, <1>9 DEF WriteFails, Mishap
<1>10. ASSUME NEW f \in Devices, NEW g \in Devices, f # g, Receive(g, f) PROVE Leads(d, e)'
  <2>1. (g = d /\ f = e) \/ (g = e /\ f = d)
    BY <1>0, <1>10
  <2> QED
    BY <1>10, <2>1, ReceivedOn
<1>11. ASSUME NEW f \in Devices, NEW g \in Devices, f # g, Apply(g, f) PROVE Leads(d, e)'
  <2>1. (g = d /\ f = e) \/ (g = e /\ f = d)
    BY <1>0, <1>11
  <2> QED
    BY <1>11, <2>1, AppliedOn
<1>12. ASSUME NEW f \in Devices, NEW g \in Devices, Lose(g, f) PROVE FALSE
  <2>1. losses = 0 /\ losses' = 0
    BY DEF Calm
  <2> QED
    BY <1>12, <2>1 DEF Lose
<1>13. ASSUME NEW f \in Devices, Decide(f) PROVE Leads(d, e)' \/ Leads(e, d)'
  BY <1>0, <1>4, <1>5, <1>6, <1>13
<1> QED
  BY <1>1, <1>2, <1>3, <1>7, <1>8, <1>9, <1>10, <1>11, <1>12, <1>13, StepOf

LEMMA NextFollow ==
    TypeInv /\ EchoInv /\ Sent /\ TwoDevices /\ Follow /\ [Next]_vars => Follow'
<1> SUFFICES ASSUME TypeInv, EchoInv, Sent, TwoDevices, Follow, [Next]_vars, Calm'
             PROVE  Untouched' \/ \E d, e \in Devices : d # e /\ Leads(d, e)'
  BY DEF Follow
<1>1. Calm
  BY WasCalm
<1>2. CASE Untouched
  BY <1>1, <1>2, UntouchedGoesOn
<1>3. CASE \E d, e \in Devices : d # e /\ Leads(d, e)
  <2>1. PICK d \in Devices, e \in Devices : d # e /\ Leads(d, e)
    BY <1>3
  <2>2. Leads(d, e)' \/ Leads(e, d)'
    BY <1>1, <2>1, LeadGoesOn
  <2> QED
    BY <2>1, <2>2
<1> QED
  BY <1>1, <1>2, <1>3 DEF Follow

\* When all is quiet, what the leader recorded is in both clipboards.
LEMMA Converged ==
    ASSUME TypeInv, Kept, Follow, TwoDevices
    PROVE  EditsConverge
<1> SUFFICES ASSUME Quiet, Calm, NEW d \in Devices, NEW e \in Devices PROVE clip[d] = clip[e]
  BY DEF EditsConverge, Calm
<1>1. \A f \in Devices : /\ watcher[f].pc # "push" /\ writes[f] = <<>>
                         /\ clip[f] = None \/ clip[f] = applied[f]
                         /\ applied[f] # None => clip[f] # None
  BY DEF Quiet, Settled, WorthSending, Kept, Calm
<1>2. CASE Untouched
  BY <1>1, <1>2 DEF Untouched
<1>3. ASSUME NEW f \in Devices, NEW g \in Devices, f # g, Leads(f, g) PROVE clip[d] = clip[e]
  <2>1. <<f, g>> \in Links
    BY <1>3, LinkOf
  <2>2. net[<<f, g>>] = <<>> /\ handler[<<f, g>>] = None
    BY <2>1 DEF Quiet
  <2>3. applied[g] = applied[f] /\ applied[f] # None
    BY <1>1, <1>3, <2>2 DEF Leads, Reaches
  <2>4. d \in {f, g} /\ e \in {f, g}
    BY <1>3 DEF TwoDevices, Others
  <2> QED
    BY <1>1, <2>3, <2>4
<1> QED
  BY <1>2, <1>3 DEF Follow

\* Two devices whose copies are further apart than their clocks, and a grain, end with
\* one text in both clipboards, however the clocks run within Skew of each other and
\* in whatever order pushes are received, applied and written (ShouldSend and
\* ShouldApply, origin_ts of one clock against localAt of another).
THEOREM EditsMeet ==
    ASSUME NEW a, NEW b, Devices = {a, b}
    PROVE  Spec => []EditsConverge
<1> DEFINE Inv == TypeInv /\ Numbered /\ EchoInv /\ Sent /\ Kept /\ Follow
<1>1. TwoDevices
  BY DEF TwoDevices, Others
<1>2. Init => Inv
  BY InitTypes, InitNumbered, InitEchoes, InitCalm
<1>3. Inv /\ [Next]_vars => Inv'
  BY <1>1, NextTypes, NextNumbered, NextEchoes, NextSent, NextKept, NextFollow
<1>4. Inv => EditsConverge
  BY <1>1, Converged
<1> HIDE DEF Inv
<1>5. Spec => []Inv
  BY <1>2, <1>3, PTL DEF Spec
<1> QED
  BY <1>4, <1>5, PTL

=============================================================================
