--------------------------- MODULE SessionAuth_proofs ---------------------------
(****************************************************************************)
(* Proofs about SessionAuth, for any capabilities and streams, any bound on *)
(* pending proofs and on queues, any window and any clock skew: types, that *)
(* a nonce is spent once, and what eviction can cost.                       *)
(****************************************************************************)
EXTENDS SessionAuth, SequenceTheorems, FiniteSetTheorems, TLAPS

Channels == {Ctrl} \cup Streams
Frame(p, m) == [kind : {"proof"}, n : 1..p] \cup [kind : {"msg"}, n : 1..m]
Proof == [cap : Caps, issued : Int]
Msg == [cap : Caps, proven : BOOLEAN]

TypePeer ==
    /\ wire \in [Channels -> Seq(Frame(Len(proofs), Len(msgs)))]
    /\ writer \in [Streams -> {"unopened", "proved", "written", "reset"}]
    /\ proofs \in Seq(Proof) /\ Len(proofs) <= MaxProofs
    /\ msgs \in Seq(Msg) /\ Len(msgs) <= MaxMsgs
    /\ repeats \in 0..MaxRepeats
TypeVerifier ==
    /\ pending \in Seq(1..Len(proofs))
    /\ Len(pending) <= MaxPending
    /\ seen \in SUBSET (1..Len(proofs))
    /\ paid \in [Ids -> 0..MaxProofs]
    /\ evicted \in [Caps -> Nat]
TypeServe ==
    /\ loop \in 0..Len(msgs)
    /\ queue \in [Caps -> Seq(1..Len(msgs))]
    /\ \A c \in Caps : Len(queue[c]) <= QueueDepth
    /\ served \in SUBSET Ids
TypeLocal ==
    /\ now \in 0..MaxNow
    /\ record \in Records /\ hello \in Records
    /\ negotiated \in SUBSET Caps
    /\ closed \in BOOLEAN
    /\ changes \in 0..MaxChanges
TypeReader == reader \in [Streams -> {"first", "second", "done"}]
TypeOutcome == outcome \in [Ids -> Outcomes]

\* A nonce that was spent is remembered for as long as its proof is in date.
Remembers ==
    \A i \in Ids : paid[i] # 0 => /\ paid[i] \in 1..Len(proofs)
                                  /\ paid[i] \in seen \/ Age(paid[i]) > Window

IInv ==
    /\ TypePeer /\ TypeVerifier /\ TypeServe /\ TypeLocal /\ TypeReader /\ TypeOutcome
    /\ Remembers /\ SpentOnce

----------------------------------------------------------------------------
(* Sequences.                                                               *)

LEMMA SeqGrows == ASSUME NEW S, NEW T, S \subseteq T, NEW q \in Seq(S) PROVE q \in Seq(T)
  OBVIOUS

LEMMA FramesGrow ==
    ASSUME NEW p \in Nat, NEW m \in Nat, NEW q \in Nat, NEW n \in Nat, p <= q, m <= n
    PROVE  Frame(p, m) \subseteq Frame(q, n)
<1>1. 1..p \subseteq 1..q /\ 1..m \subseteq 1..n
  OBVIOUS
<1> QED
  BY <1>1 DEF Frame

LEMMA Lengths ==
    ASSUME IInv
    PROVE  /\ Len(proofs) \in Nat /\ DOMAIN proofs = 1..Len(proofs)
           /\ Len(msgs) \in Nat /\ DOMAIN msgs = 1..Len(msgs)
           /\ 1..Len(msgs) \subseteq Ids /\ 1..Len(proofs) \subseteq Nonces
<1>1. proofs \in Seq(Proof) /\ msgs \in Seq(Msg) /\ Len(proofs) <= MaxProofs /\ Len(msgs) <= MaxMsgs
  BY DEF IInv, TypePeer
<1>2. Len(proofs) \in Nat /\ DOMAIN proofs = 1..Len(proofs)
  <2> HIDE DEF Proof
  <2> QED
    BY <1>1
<1>3. Len(msgs) \in Nat /\ DOMAIN msgs = 1..Len(msgs)
  <2> HIDE DEF Msg
  <2> QED
    BY <1>1
<1> QED
  BY <1>1, <1>2, <1>3, SessionBounds DEF Ids, Nonces

\* Proofs and messages are of the session's capabilities.
LEMMA CapsKnown ==
    ASSUME IInv
    PROVE  /\ \A n \in 1..Len(proofs) : proofs[n].cap \in Caps
           /\ \A i \in 1..Len(msgs) : msgs[i].cap \in Caps /\ msgs[i].proven \in BOOLEAN
<1>1. proofs \in Seq(Proof) /\ msgs \in Seq(Msg)
  BY DEF IInv, TypePeer
<1>2. \A n \in 1..Len(proofs) : proofs[n] \in Proof
  <2> HIDE DEF Proof
  <2> QED
    BY <1>1
<1>3. \A i \in 1..Len(msgs) : msgs[i] \in Msg
  <2> HIDE DEF Msg
  <2> QED
    BY <1>1
<1> QED
  BY <1>2, <1>3 DEF Proof, Msg

----------------------------------------------------------------------------
(* What the peer writes.                                                    *)

\* Signing adds one proof behind the others.
LEMMA SignKeeps ==
    ASSUME IInv, NEW c \in Caps, Sign(c)
    PROVE  /\ proofs' \in Seq(Proof) /\ Len(proofs') = Len(proofs) + 1
           /\ Len(proofs') <= MaxProofs
           /\ \A n \in 1..Len(proofs) : proofs'[n] = proofs[n]
<1>1. PICK d \in Skews : proofs' = Append(proofs, [cap |-> c, issued |-> now + d])
  BY DEF Sign
<1>2. now + d \in Int
  BY SessionBounds DEF IInv, TypeLocal
<1> DEFINE e == [cap |-> c, issued |-> now + d]
<1>3. e \in Proof
  BY <1>2 DEF Proof
<1>4. Len(proofs) + 1 <= MaxProofs
  BY DEF Sign, NextNonce, Nonces
<1>5. proofs \in Seq(Proof)
  BY DEF IInv, TypePeer
<1> HIDE DEF e, Proof
<1>6. /\ Append(proofs, e) \in Seq(Proof) /\ Len(Append(proofs, e)) = Len(proofs) + 1
      /\ \A n \in 1..Len(proofs) : Append(proofs, e)[n] = proofs[n]
  BY <1>3, <1>5
<1> QED
  BY <1>1, <1>4, <1>6 DEF e

LEMMA IssueKeeps ==
    ASSUME IInv, NEW c \in Caps, NEW b \in BOOLEAN, Issue(c, b)
    PROVE  /\ msgs' \in Seq(Msg) /\ Len(msgs') = Len(msgs) + 1
           /\ Len(msgs') <= MaxMsgs
           /\ TypeOutcome'
<1> DEFINE e == [cap |-> c, proven |-> b]
<1>1. msgs' = Append(msgs, e) /\ outcome' = [outcome EXCEPT ![NextId] = "sent"]
  BY DEF Issue
<1>2. e \in Msg
  BY DEF Msg
<1>3. Len(msgs) + 1 <= MaxMsgs
  BY DEF Issue, NextId
<1>4. msgs \in Seq(Msg)
  BY DEF IInv, TypePeer
<1>5. TypeOutcome'
  BY <1>1 DEF IInv, TypeOutcome, Outcomes
<1> HIDE DEF e, Msg
<1>6. Append(msgs, e) \in Seq(Msg) /\ Len(Append(msgs, e)) = Len(msgs) + 1
  BY <1>2, <1>4
<1> QED
  BY <1>1, <1>3, <1>5, <1>6

\* Frames of what exists are written behind those of what existed.
LEMMA PutKeeps ==
    ASSUME IInv, NEW ch \in Channels, NEW p \in Nat, NEW m \in Nat,
           Len(proofs) <= p, Len(msgs) <= m, NEW fs \in Seq(Frame(p, m)), Put(ch, fs)
    PROVE  wire' \in [Channels -> Seq(Frame(p, m))]
<1>1. Len(proofs) \in Nat /\ Len(msgs) \in Nat
  BY Lengths
<1>2. Frame(Len(proofs), Len(msgs)) \subseteq Frame(p, m)
  BY <1>1, FramesGrow
<1>3. wire \in [Channels -> Seq(Frame(Len(proofs), Len(msgs)))]
  BY DEF IInv, TypePeer
<1>4. \A x \in Channels : wire[x] \in Seq(Frame(p, m))
  BY <1>2, <1>3, SeqGrows
<1>5. wire[ch] \o fs \in Seq(Frame(p, m))
  BY <1>4, ConcatProperties
<1>6. wire' = [wire EXCEPT ![ch] = wire[ch] \o fs]
  BY <1>3 DEF Put
<1> QED
  BY <1>3, <1>4, <1>5, <1>6

\* While the verifier stands still, proofs are only added and time only passes,
\* what was spent stays spent.
LEMMA VerifierStands ==
    ASSUME IInv, seen' = seen, paid' = paid, now' \in Nat, now <= now',
           proofs' \in Seq(Proof), Len(proofs) <= Len(proofs'),
           \A n \in 1..Len(proofs) : proofs'[n] = proofs[n]
    PROVE  Remembers' /\ SpentOnce'
<1>1. \A n \in 1..Len(proofs) : Age(n)' >= Age(n) /\ Age(n) \in Int /\ Age(n)' \in Int
  <2>1. proofs \in Seq(Proof) /\ now \in Nat
    BY SessionBounds DEF IInv, TypePeer, TypeLocal
  <2>2. \A n \in 1..Len(proofs) : proofs[n] \in Proof
    <3> HIDE DEF Proof
    <3> QED
      BY <2>1
  <2>3. \A n \in 1..Len(proofs) : proofs[n].issued \in Int
    BY <2>2 DEF Proof
  <2> QED
    BY <2>1, <2>3 DEF Age
<1>2. Len(proofs) \in Nat /\ Len(proofs') \in Nat
  <2> HIDE DEF Proof
  <2>1. proofs \in Seq(Proof)
    BY DEF IInv, TypePeer
  <2> QED
    BY <2>1
<1>3. \A n \in 1..Len(proofs) : n \in 1..Len(proofs')
  BY <1>2
<1>4. Remembers
  BY DEF IInv
<1>5. Remembers'
  BY <1>1, <1>3, <1>4, SessionBounds DEF Remembers
<1>6. SpentOnce'
  BY DEF IInv, SpentOnce
<1> QED
  BY <1>5, <1>6

\* A step of the peer, given what it wrote.
LEMMA PeerStep ==
    ASSUME IInv, UNCHANGED Elsewhere,
           proofs' \in Seq(Proof), Len(proofs) <= Len(proofs'), Len(proofs') <= MaxProofs,
           \A n \in 1..Len(proofs) : proofs'[n] = proofs[n],
           msgs' \in Seq(Msg), Len(msgs) <= Len(msgs'), Len(msgs') <= MaxMsgs,
           wire' \in [Channels -> Seq(Frame(Len(proofs'), Len(msgs')))],
           writer' \in [Streams -> {"unopened", "proved", "written", "reset"}],
           repeats' \in 0..MaxRepeats, TypeOutcome'
    PROVE  IInv'
<1>1. /\ now' = now /\ record' = record /\ hello' = hello /\ negotiated' = negotiated
      /\ reader' = reader /\ loop' = loop /\ closed' = closed /\ changes' = changes
      /\ pending' = pending /\ seen' = seen /\ paid' = paid /\ evicted' = evicted
      /\ queue' = queue /\ served' = served
  BY DEF Elsewhere, verifier, serve
<1>2. TypePeer'
  BY DEF TypePeer
<1>3. Len(proofs) \in Nat /\ Len(msgs) \in Nat /\ Len(proofs') \in Nat /\ Len(msgs') \in Nat
  <2> HIDE DEF Proof, Msg
  <2>1. proofs \in Seq(Proof) /\ msgs \in Seq(Msg)
    BY DEF IInv, TypePeer
  <2> QED
    BY <2>1
<1>4. 1..Len(proofs) \subseteq 1..Len(proofs') /\ 1..Len(msgs) \subseteq 1..Len(msgs')
  BY <1>3
<1>5. TypeVerifier'
  <2>1. pending \in Seq(1..Len(proofs'))
    BY <1>4, SeqGrows DEF IInv, TypeVerifier
  <2>2. seen \in SUBSET (1..Len(proofs'))
    BY <1>4 DEF IInv, TypeVerifier
  <2> QED
    BY <1>1, <2>1, <2>2 DEF IInv, TypeVerifier
<1>6. TypeServe'
  <2>1. \A c \in Caps : queue[c] \in Seq(1..Len(msgs'))
    BY <1>4, SeqGrows DEF IInv, TypeServe
  <2>2. queue \in [Caps -> Seq(1..Len(msgs'))]
    BY <2>1 DEF IInv, TypeServe
  <2>3. loop \in 0..Len(msgs')
    BY <1>3 DEF IInv, TypeServe
  <2> QED
    BY <1>1, <2>2, <2>3 DEF IInv, TypeServe
<1>7. TypeLocal' /\ TypeReader'
  BY <1>1 DEF IInv, TypeLocal, TypeReader
<1>8. Remembers' /\ SpentOnce'
  <2>1. now \in Nat
    BY SessionBounds DEF IInv, TypeLocal
  <2> QED
    BY <1>1, <2>1, VerifierStands
<1> QED
  BY <1>2, <1>5, <1>6, <1>7, <1>8 DEF IInv

\* Frames for what has just been signed and issued.
LEMMA NewFrames ==
    ASSUME NEW p \in Nat, NEW m \in Nat
    PROVE  /\ \A n \in 1..p : <<ProofFrame(n)>> \in Seq(Frame(p, m))
           /\ \A i \in 1..m : <<MsgFrame(i)>> \in Seq(Frame(p, m))
           /\ \A n \in 1..p, i \in 1..m : <<ProofFrame(n), MsgFrame(i)>> \in Seq(Frame(p, m))
<1>1. \A n \in 1..p : ProofFrame(n) \in Frame(p, m)
  BY DEF Frame, ProofFrame
<1>2. \A i \in 1..m : MsgFrame(i) \in Frame(p, m)
  BY DEF Frame, MsgFrame
<1> QED
  BY <1>1, <1>2

\* The peer's steps, on the control stream and on streams of its own.
LEMMA PeerSteps ==
    ASSUME IInv,
           \/ \E c \in Caps \ StreamCaps : Send(c) \/ SendOwned(c)
           \/ \E s \in Streams : \/ OpenOwnedStream(s) \/ WriteRequest(s) \/ OpenPlainStream(s)
                                  \/ AbandonRequest(s)
           \/ \E n \in Nonces : RepeatProof(n)
    PROVE  IInv'
<1> DEFINE P == Len(proofs)
<1> DEFINE M == Len(msgs)
<1> DEFINE Writing == {"unopened", "proved", "written", "reset"}
<1>0. /\ proofs \in Seq(Proof) /\ P <= MaxProofs /\ msgs \in Seq(Msg) /\ M <= MaxMsgs
      /\ wire \in [Channels -> Seq(Frame(P, M))]
      /\ writer \in [Streams -> Writing]
      /\ repeats \in 0..MaxRepeats /\ TypeOutcome
  BY DEF IInv, TypePeer
<1>n. /\ P \in Nat /\ M \in Nat /\ P + 1 \in Nat /\ M + 1 \in Nat
      /\ P + 1 \in 1..(P + 1) /\ M + 1 \in 1..(M + 1)
      /\ P <= P /\ P <= P + 1 /\ M <= M /\ M <= M + 1
      /\ NextNonce = P + 1 /\ NextId = M + 1
  BY Lengths DEF NextNonce, NextId
<1>c. Ctrl \in Channels /\ Streams \subseteq Channels /\ \A s \in Streams : Purpose[s] \in Caps
  BY CapsAreCaps, StreamsHavePurpose DEF Channels
<1> HIDE DEF P, M
<1>1. ASSUME NEW c \in Caps, Send(c) PROVE IInv'
  <2>1. /\ Issue(c, FALSE) /\ Put(Ctrl, <<MsgFrame(NextId)>>)
        /\ UNCHANGED Elsewhere /\ writer' = writer /\ proofs' = proofs /\ repeats' = repeats
    BY <1>1 DEF Send
  <2>2. /\ msgs' \in Seq(Msg) /\ Len(msgs') = M + 1 /\ Len(msgs') <= MaxMsgs /\ TypeOutcome'
    BY <2>1, IssueKeeps DEF M
  <2>3. <<MsgFrame(NextId)>> \in Seq(Frame(P, M + 1))
    BY <1>n, NewFrames
  <2>4. wire' \in [Channels -> Seq(Frame(P, M + 1))]
    BY <1>n, <1>c, <2>1, <2>3, PutKeeps DEF P, M
  <2>5. Len(proofs') = P
    BY <2>1 DEF P
  <2> QED
    BY <1>0, <1>n, <2>1, <2>2, <2>4, <2>5, PeerStep DEF P, M
<1>2. ASSUME NEW c \in Caps, SendOwned(c) PROVE IInv'
  <2>1. /\ Sign(c) /\ Issue(c, TRUE) /\ Put(Ctrl, <<ProofFrame(NextNonce), MsgFrame(NextId)>>)
        /\ UNCHANGED Elsewhere /\ writer' = writer /\ repeats' = repeats
    BY <1>2 DEF SendOwned
  <2>2. /\ msgs' \in Seq(Msg) /\ Len(msgs') = M + 1 /\ Len(msgs') <= MaxMsgs /\ TypeOutcome'
    BY <2>1, IssueKeeps DEF M
  <2>3. /\ proofs' \in Seq(Proof) /\ Len(proofs') = P + 1 /\ Len(proofs') <= MaxProofs
        /\ \A n \in 1..P : proofs'[n] = proofs[n]
    BY <2>1, SignKeeps DEF P
  <2>4. <<ProofFrame(NextNonce), MsgFrame(NextId)>> \in Seq(Frame(P + 1, M + 1))
    BY <1>n, NewFrames
  <2>5. wire' \in [Channels -> Seq(Frame(P + 1, M + 1))]
    BY <1>n, <1>c, <2>1, <2>4, PutKeeps DEF P, M
  <2> QED
    BY <1>0, <1>n, <2>1, <2>2, <2>3, <2>5, PeerStep DEF P, M
<1>3. ASSUME NEW s \in Streams, OpenOwnedStream(s) PROVE IInv'
  <2>1. /\ Sign(Purpose[s]) /\ Put(s, <<ProofFrame(NextNonce)>>)
        /\ writer' = [writer EXCEPT ![s] = "proved"]
        /\ UNCHANGED Elsewhere /\ msgs' = msgs /\ repeats' = repeats /\ outcome' = outcome
    BY <1>3 DEF OpenOwnedStream
  <2>2. /\ proofs' \in Seq(Proof) /\ Len(proofs') = P + 1 /\ Len(proofs') <= MaxProofs
        /\ \A n \in 1..P : proofs'[n] = proofs[n]
    BY <1>c, <2>1, SignKeeps DEF P
  <2>3. <<ProofFrame(NextNonce)>> \in Seq(Frame(P + 1, M))
    BY <1>n, NewFrames
  <2>4. wire' \in [Channels -> Seq(Frame(P + 1, M))]
    BY <1>n, <1>c, <2>1, <2>3, PutKeeps DEF P, M
  <2>5. Len(msgs') = M /\ TypeOutcome'
    BY <1>0, <2>1 DEF M, TypeOutcome
  <2>6. writer' \in [Streams -> Writing]
    BY <1>0, <2>1
  <2> QED
    BY <1>0, <1>n, <2>1, <2>2, <2>4, <2>5, <2>6, PeerStep DEF P, M
<1>4. ASSUME NEW s \in Streams, WriteRequest(s) \/ OpenPlainStream(s)
      PROVE  IInv'
  <2>1. /\ \E b \in BOOLEAN : Issue(Purpose[s], b)
        /\ Put(s, <<MsgFrame(NextId)>>)
        /\ writer' = [writer EXCEPT ![s] = "written"]
        /\ UNCHANGED Elsewhere /\ proofs' = proofs /\ repeats' = repeats
    BY <1>4 DEF WriteRequest, OpenPlainStream
  <2>2. /\ msgs' \in Seq(Msg) /\ Len(msgs') = M + 1 /\ Len(msgs') <= MaxMsgs /\ TypeOutcome'
    BY <1>c, <2>1, IssueKeeps DEF M
  <2>3. <<MsgFrame(NextId)>> \in Seq(Frame(P, M + 1))
    BY <1>n, NewFrames
  <2>4. wire' \in [Channels -> Seq(Frame(P, M + 1))]
    BY <1>n, <1>c, <2>1, <2>3, PutKeeps DEF P, M
  <2>5. Len(proofs') = P
    BY <2>1 DEF P
  <2>6. writer' \in [Streams -> Writing]
    BY <1>0, <2>1
  <2> QED
    BY <1>0, <1>n, <2>1, <2>2, <2>4, <2>5, <2>6, PeerStep DEF P, M
<1>5. ASSUME NEW s \in Streams, AbandonRequest(s) PROVE IInv'
  <2>1. /\ wire' = [wire EXCEPT ![s] = <<>>]
        /\ writer' = [writer EXCEPT ![s] = "reset"]
        /\ UNCHANGED Elsewhere /\ proofs' = proofs /\ msgs' = msgs /\ repeats' = repeats
        /\ outcome' = outcome
    BY <1>5 DEF AbandonRequest
  <2>2. <<>> \in Seq(Frame(P, M))
    OBVIOUS
  <2>3. wire' \in [Channels -> Seq(Frame(P, M))]
    BY <1>0, <1>c, <2>1, <2>2
  <2>4. writer' \in [Streams -> Writing]
    BY <1>0, <2>1
  <2>5. TypeOutcome' /\ Len(proofs') = P /\ Len(msgs') = M
    BY <1>0, <2>1 DEF TypeOutcome, P, M
  <2> QED
    BY <1>0, <1>n, <2>1, <2>3, <2>4, <2>5, PeerStep DEF P, M
<1>6. ASSUME NEW n \in Nonces, RepeatProof(n) PROVE IInv'
  <2>1. /\ repeats < MaxRepeats /\ n \in DOMAIN proofs /\ repeats' = repeats + 1
        /\ Put(Ctrl, <<ProofFrame(n)>>)
        /\ UNCHANGED Elsewhere /\ writer' = writer /\ proofs' = proofs /\ msgs' = msgs
        /\ outcome' = outcome
    BY <1>6 DEF RepeatProof
  <2>2. n \in 1..P
    BY <2>1, Lengths DEF P
  <2>3. <<ProofFrame(n)>> \in Seq(Frame(P, M))
    BY <1>n, <2>2, NewFrames
  <2>4. wire' \in [Channels -> Seq(Frame(P, M))]
    BY <1>n, <1>c, <2>1, <2>3, PutKeeps DEF P, M
  <2>5. repeats' \in 0..MaxRepeats
    BY <1>0, <2>1, SessionBounds
  <2>6. TypeOutcome' /\ Len(proofs') = P /\ Len(msgs') = M
    BY <1>0, <2>1 DEF TypeOutcome, P, M
  <2> QED
    BY <1>0, <1>n, <2>1, <2>4, <2>5, <2>6, PeerStep DEF P, M
<1> QED
  BY <1>1, <1>2, <1>3, <1>4, <1>5, <1>6

----------------------------------------------------------------------------
(* The verifier.                                                            *)

\* Holding a proof keeps the bound: what was there has made room before.
LEMMA ReceiveKeeps ==
    ASSUME IInv, NEW n \in 1..Len(proofs), Receive(n), proofs' = proofs, now' = now
    PROVE  TypeVerifier' /\ Remembers' /\ SpentOnce'
<1> DEFINE N == 1..Len(proofs)
<1>1. seen' = seen /\ paid' = paid
  BY DEF Receive
<1>2. /\ pending \in Seq(N) /\ Len(pending) <= MaxPending /\ Len(pending) \in Nat
      /\ evicted \in [Caps -> Nat] /\ n \in N
  <2>1. pending \in Seq(N) /\ Len(pending) <= MaxPending /\ evicted \in [Caps -> Nat]
    BY DEF IInv, TypeVerifier
  <2> HIDE DEF N
  <2>2. Len(pending) \in Nat
    BY <2>1
  <2> QED
    BY <2>1, <2>2 DEF N
<1>3. MaxPending \in Nat /\ MaxPending > 0
  BY SessionBounds
<1>4. ASSUME Len(pending) >= MaxPending PROVE TypeVerifier'
  <2>1. /\ pending' = Append(Tail(pending), n)
        /\ evicted' = [evicted EXCEPT ![proofs[Head(pending)].cap] = @ + 1]
    BY <1>4 DEF Receive
  <2>2. Tail(pending) \in Seq(N) /\ Len(Tail(pending)) = Len(pending) - 1
    <3> HIDE DEF N
    <3>1. pending # <<>>
      BY <1>2, <1>3, <1>4
    <3> QED
      BY <1>2, <3>1, HeadTailProperties
  <2>3. pending' \in Seq(N) /\ Len(pending') <= MaxPending
    <3> HIDE DEF N
    <3>1. /\ Append(Tail(pending), n) \in Seq(N)
          /\ Len(Append(Tail(pending), n)) = Len(Tail(pending)) + 1
      BY <1>2, <2>2
    <3> QED
      BY <1>2, <2>1, <2>2, <3>1
  <2>4. evicted' \in [Caps -> Nat]
    <3> DEFINE x == proofs[Head(pending)].cap
    <3>1. evicted' = [evicted EXCEPT ![x] = evicted[x] + 1]
      BY <2>1
    <3>2. Head(pending) \in N
      <4> HIDE DEF N
      <4>1. pending # <<>>
        BY <1>2, <1>3, <1>4
      <4> QED
        BY <1>2, <4>1, HeadTailProperties
    <3>3. x \in Caps
      BY <3>2, CapsKnown
    <3> HIDE DEF x
    <3> QED
      BY <1>2, <3>1, <3>3
  <2> QED
    BY <1>1, <2>3, <2>4 DEF IInv, TypeVerifier
<1>5. ASSUME ~(Len(pending) >= MaxPending) PROVE TypeVerifier'
  <2>1. pending' = Append(pending, n) /\ evicted' = evicted
    BY <1>5 DEF Receive
  <2>2. pending' \in Seq(N) /\ Len(pending') <= MaxPending
    <3> HIDE DEF N
    <3>1. Append(pending, n) \in Seq(N) /\ Len(Append(pending, n)) = Len(pending) + 1
      BY <1>2
    <3> QED
      BY <1>2, <1>3, <1>5, <2>1, <3>1
  <2> QED
    BY <1>1, <1>2, <2>1, <2>2 DEF IInv, TypeVerifier
<1>7. TypeVerifier'
  BY <1>4, <1>5
<1>8. Remembers' /\ SpentOnce'
  <2>1. now \in Nat /\ proofs \in Seq(Proof)
    BY SessionBounds DEF IInv, TypeLocal, TypePeer
  <2> QED
    BY <1>1, <2>1, Lengths, VerifierStands
<1> QED
  BY <1>7, <1>8

\* Taking one proof out of those that wait.
LEMMA WithoutKeeps ==
    ASSUME NEW S, pending \in Seq(S), NEW k \in 1..Len(pending)
    PROVE  Without(k) \in Seq(S) /\ Len(Without(k)) = Len(pending) - 1
<1>1. /\ Len(pending) \in Nat /\ k \in Nat
      /\ \A i \in 1..(k - 1) : pending[i] \in S
      /\ \A i \in (k + 1)..Len(pending) : pending[i] \in S
  OBVIOUS
<1>2. /\ SubSeq(pending, 1, k - 1) \in Seq(S)
      /\ Len(SubSeq(pending, 1, k - 1)) = k - 1
  BY <1>1, SubSeqProperties
<1>3. /\ SubSeq(pending, k + 1, Len(pending)) \in Seq(S)
      /\ Len(SubSeq(pending, k + 1, Len(pending))) = Len(pending) - k
  BY <1>1, SubSeqProperties
<1> DEFINE u == SubSeq(pending, 1, k - 1)
<1> DEFINE v == SubSeq(pending, k + 1, Len(pending))
<1>4. Without(k) = u \o v
  BY DEF Without
<1> HIDE DEF u, v
<1>5. u \o v \in Seq(S) /\ Len(u \o v) = Len(u) + Len(v)
  BY <1>2, <1>3, ConcatProperties DEF u, v
<1>6. Len(u) = k - 1 /\ Len(v) = Len(pending) - k
  BY <1>2, <1>3 DEF u, v
<1> QED
  BY <1>1, <1>4, <1>5, <1>6

LEMMA DecideKeeps ==
    ASSUME IInv, NEW i \in Ids, NEW o \in Outcomes, Decide(i, o)
    PROVE  TypeOutcome'
  BY DEF IInv, TypeOutcome, Decide

LEMMA LadderKeeps ==
    ASSUME IInv, NEW i \in Ids, NEW owned \in BOOLEAN, Ladder(i, owned)
    PROVE  TypeOutcome'
<1>1. PICK o \in Outcomes : Decide(i, o)
  BY DEF Ladder, Outcomes, Allowed, Refused
<1> QED
  BY <1>1, DecideKeeps

\* What pruneLocked drops is out of date for good.
LEMMA PruneKeeps ==
    ASSUME IInv, Remembered \subseteq seen', seen' \subseteq 1..Len(proofs),
           paid' = paid, proofs' = proofs, now' = now
    PROVE  Remembers' /\ SpentOnce'
<1>1. \A n : Age(n)' = Age(n)
  BY DEF Age
<1>2. \A n \in 1..Len(proofs) : Age(n) \in Int
  <2>1. proofs \in Seq(Proof) /\ now \in Nat
    BY SessionBounds DEF IInv, TypePeer, TypeLocal
  <2>2. \A n \in 1..Len(proofs) : proofs[n] \in Proof
    <3> HIDE DEF Proof
    <3> QED
      BY <2>1
  <2> QED
    BY <2>1, <2>2 DEF Age, Proof
<1>3. \A n \in 1..Len(proofs) : n \in seen => n \in seen' \/ Age(n) > Window
  BY <1>2, SessionBounds DEF Remembered
<1>4. Remembers'
  BY <1>1, <1>3 DEF IInv, Remembers
<1>5. SpentOnce'
  BY DEF IInv, SpentOnce
<1> QED
  BY <1>4, <1>5

\* authorizeInbound: every message is decided, and a proof is spent only if its
\* nonce is new to everything still in date.
LEMMA AuthorizeKeeps ==
    ASSUME IInv, NEW i \in 1..Len(msgs), Authorize(i), proofs' = proofs, now' = now
    PROVE  TypeVerifier' /\ TypeOutcome' /\ Remembers' /\ SpentOnce'
<1> DEFINE N == 1..Len(proofs)
<1>0. /\ pending \in Seq(N) /\ Len(pending) <= MaxPending /\ seen \in SUBSET N
      /\ paid \in [Ids -> 0..MaxProofs] /\ evicted \in [Caps -> Nat]
  BY DEF IInv, TypeVerifier
<1>i. i \in Ids
  BY Lengths
<1>r. Remembered \subseteq seen /\ Remembered \in SUBSET N
  BY <1>0 DEF Remembered
<1>1. CASE NoProof(i)
  <2>1. /\ seen' = Remembered /\ Ladder(i, FALSE) /\ pending' = pending /\ paid' = paid
        /\ evicted' = evicted
    BY <1>1 DEF NoProof
  <2> QED
    BY <1>0, <1>i, <1>r, <2>1, LadderKeeps, PruneKeeps DEF TypeVerifier
<1>2. CASE NoPinnedKey(i)
  <2>1. /\ seen' = Remembered /\ Decide(i, "nokey") /\ pending' = pending /\ paid' = paid
        /\ evicted' = evicted
    BY <1>2 DEF NoPinnedKey
  <2>2. "nokey" \in Outcomes
    BY DEF Outcomes, Refused
  <2> QED
    BY <1>0, <1>i, <1>r, <2>1, <2>2, DecideKeeps, PruneKeeps DEF TypeVerifier
<1>3. CASE Spend(i)
  <2>1. PICK k \in DOMAIN pending :
          /\ pending' = Without(k)
          /\ \/ /\ ~InWindow(pending[k]) /\ Decide(i, "expired")
                /\ seen' = Remembered /\ paid' = paid
             \/ /\ InWindow(pending[k]) /\ pending[k] \in Remembered
                /\ Decide(i, "replayed")
                /\ seen' = Remembered /\ paid' = paid
             \/ /\ InWindow(pending[k]) /\ pending[k] \notin Remembered
                /\ Ladder(i, TRUE)
                /\ seen' = Remembered \cup {pending[k]}
                /\ paid' = [paid EXCEPT ![i] = pending[k]]
    BY <1>3 DEF Spend
  <2>2. evicted' = evicted
    BY <1>3 DEF Spend
  <2> DEFINE n == pending[k]
  <2>3. k \in 1..Len(pending) /\ n \in N /\ Len(pending) \in Nat
    <3> HIDE DEF N
    <3> QED
      BY <1>0
  <2>4. pending' \in Seq(N) /\ Len(pending') <= MaxPending
    <3> HIDE DEF N
    <3>1. Without(k) \in Seq(N) /\ Len(Without(k)) = Len(pending) - 1
      BY <1>0, <2>3, WithoutKeeps
    <3> QED
      BY <1>0, <2>1, <2>3, <3>1, SessionBounds
  <2>5. "expired" \in Outcomes /\ "replayed" \in Outcomes
    BY DEF Outcomes, Refused
  <2>6. CASE seen' = Remembered /\ paid' = paid /\ \E o \in {"expired", "replayed"} : Decide(i, o)
    BY <1>0, <1>i, <1>r, <2>2, <2>4, <2>5, <2>6, DecideKeeps, PruneKeeps DEF TypeVerifier
  <2>7. CASE /\ InWindow(n) /\ n \notin Remembered /\ Ladder(i, TRUE)
             /\ seen' = Remembered \cup {n} /\ paid' = [paid EXCEPT ![i] = n]
    <3>1. n \in 0..MaxProofs /\ n # 0
      BY <2>3, Lengths, SessionBounds DEF Nonces
    <3>2. seen' \in SUBSET N /\ paid' \in [Ids -> 0..MaxProofs]
      BY <1>0, <1>r, <2>3, <2>7, <3>1
    <3>3. \A m \in N : Age(m) \in Int /\ Age(m)' = Age(m)
      <4>1. proofs \in Seq(Proof) /\ now \in Nat
        BY SessionBounds DEF IInv, TypePeer, TypeLocal
      <4>2. \A m \in N : proofs[m] \in Proof
        <5> HIDE DEF Proof
        <5> QED
          BY <4>1
      <4> QED
        BY <4>1, <4>2 DEF Age, Proof
    <3>4. Age(n) <= Window
      BY <2>3, <2>7, <3>3, SessionBounds DEF InWindow
    <3>5. n \notin seen
      BY <2>7, <3>4 DEF Remembered
    <3>6. \A j \in Ids : paid[j] # n
      BY <2>3, <3>1, <3>3, <3>4, <3>5, SessionBounds DEF IInv, Remembers
    <3>7. SpentOnce'
      BY <1>0, <1>i, <2>7, <3>6 DEF IInv, SpentOnce
    <3>8. \A m \in seen : m \in seen' \/ Age(m) > Window
      BY <1>0, <2>7, <3>3, SessionBounds DEF Remembered
    <3>9. Remembers'
      BY <1>0, <1>i, <2>3, <2>7, <3>3, <3>8 DEF IInv, Remembers
    <3>10. TypeVerifier'
      BY <1>0, <2>2, <2>4, <3>2 DEF TypeVerifier
    <3>11. TypeOutcome'
      BY <1>i, <2>7, LadderKeeps
    <3> QED
      BY <3>7, <3>9, <3>10, <3>11
  <2> QED
    BY <2>1, <2>6, <2>7
<1> QED
  BY <1>1, <1>2, <1>3 DEF Authorize

----------------------------------------------------------------------------
(* The session's goroutines.                                                *)

\* Reading a frame leaves well-formed ones, and what it names exists.
LEMMA TakeKeeps ==
    ASSUME IInv, NEW ch \in Channels, wire[ch] # <<>>, Take(ch), UNCHANGED Sender
    PROVE  /\ TypePeer' /\ proofs' = proofs /\ msgs' = msgs
           /\ Head(wire[ch]).kind = "proof" => Head(wire[ch]).n \in 1..Len(proofs)
           /\ Head(wire[ch]).kind = "msg" => Head(wire[ch]).n \in 1..Len(msgs)
<1> DEFINE F == Frame(Len(proofs), Len(msgs))
<1>1. wire \in [Channels -> Seq(F)] /\ wire' = [wire EXCEPT ![ch] = Tail(wire[ch])]
  BY DEF IInv, TypePeer, Take
<1>2. wire[ch] \in Seq(F)
  <2> HIDE DEF F
  <2> QED
    BY <1>1
<1>3. Head(wire[ch]) \in F /\ Tail(wire[ch]) \in Seq(F)
  <2> HIDE DEF F
  <2> QED
    BY <1>2, HeadTailProperties
<1>4. wire' \in [Channels -> Seq(F)]
  <2> HIDE DEF F
  <2> QED
    BY <1>1, <1>3
<1>5. writer' = writer /\ proofs' = proofs /\ msgs' = msgs /\ repeats' = repeats
  BY DEF Sender
<1>6. TypePeer'
  BY <1>4, <1>5 DEF IInv, TypePeer
<1> QED
  BY <1>3, <1>5, <1>6 DEF Frame

LEMMA LocalStands == ASSUME IInv, UNCHANGED Local PROVE TypeLocal' /\ now' = now
  BY DEF IInv, TypeLocal, Local

LEMMA ServeStands ==
    ASSUME IInv, loop' = loop, UNCHANGED serve, msgs' = msgs PROVE TypeServe'
<1>1. queue' = queue /\ served' = served
  BY DEF serve
<1> QED
  BY <1>1 DEF IInv, TypeServe

LEMMA VerifierStandsStill ==
    ASSUME IInv, UNCHANGED verifier, proofs' = proofs, now' \in Nat, now <= now'
    PROVE  TypeVerifier' /\ Remembers' /\ SpentOnce'
<1>1. pending' = pending /\ seen' = seen /\ paid' = paid /\ evicted' = evicted
  BY DEF verifier
<1>2. TypeVerifier'
  BY <1>1 DEF IInv, TypeVerifier
<1>3. proofs' \in Seq(Proof) /\ \A n \in 1..Len(proofs) : proofs'[n] = proofs[n]
  BY DEF IInv, TypePeer
<1> QED
  BY <1>1, <1>2, <1>3, Lengths, VerifierStands

\* A queue takes a message it has room for.
LEMMA EnterKeeps ==
    ASSUME IInv, NEW i \in 1..Len(msgs), Enter(i), Room(msgs[i].cap),
           loop' \in 0..Len(msgs), served' = served, msgs' = msgs
    PROVE  TypeServe'
<1> DEFINE c == msgs[i].cap
<1> DEFINE Q == Seq(1..Len(msgs))
<1>1. c \in Caps
  <2>1. msgs \in Seq(Msg)
    BY DEF IInv, TypePeer
  <2>2. msgs[i] \in Msg
    <3> HIDE DEF Msg
    <3> QED
      BY <2>1
  <2> QED
    BY <2>2 DEF Msg
<1>2. queue \in [Caps -> Seq(1..Len(msgs))] /\ \A d \in Caps : Len(queue[d]) <= QueueDepth
  BY DEF IInv, TypeServe
<1>3. queue' = [queue EXCEPT ![c] = Append(queue[c], i)]
  BY <1>1, <1>2 DEF Enter
<1> HIDE DEF c
<1>4. queue[c] \in Seq(1..Len(msgs)) /\ Len(queue[c]) < QueueDepth
  BY <1>1, <1>2 DEF Room, c
<1>5. /\ Append(queue[c], i) \in Seq(1..Len(msgs))
      /\ Len(Append(queue[c], i)) = Len(queue[c]) + 1 /\ Len(queue[c]) \in Nat
  BY <1>4
<1>6. /\ queue' \in [Caps -> Seq(1..Len(msgs))]
      /\ \A d \in Caps : Len(queue'[d]) <= QueueDepth
  BY <1>1, <1>2, <1>3, <1>4, <1>5, SessionBounds
<1> QED
  BY <1>6 DEF IInv, TypeServe

\* The control loop.
LEMMA ControlSteps ==
    ASSUME IInv, ReadProof \/ IgnoreMessage \/ ReadMessage \/ Enqueue
    PROVE  IInv'
<1>c. Ctrl \in Channels
  BY DEF Channels
<1>l. now \in Nat /\ now <= now
  BY SessionBounds DEF IInv, TypeLocal
<1>1. ASSUME ReadProof PROVE IInv'
  <2>1. /\ Receive(Head(wire[Ctrl]).n) /\ Take(Ctrl) /\ UNCHANGED Local /\ UNCHANGED Sender
        /\ UNCHANGED serve /\ reader' = reader /\ loop' = loop /\ outcome' = outcome
        /\ wire[Ctrl] # <<>> /\ Head(wire[Ctrl]).kind = "proof"
    BY <1>1 DEF ReadProof, Arrives
  <2>2. /\ TypePeer' /\ proofs' = proofs /\ msgs' = msgs
        /\ Head(wire[Ctrl]).n \in 1..Len(proofs)
    BY <1>c, <2>1, TakeKeeps
  <2>3. TypeLocal' /\ now' = now
    BY <2>1, LocalStands
  <2>4. TypeVerifier' /\ Remembers' /\ SpentOnce'
    BY <2>1, <2>2, <2>3, ReceiveKeeps
  <2>5. TypeServe' /\ TypeReader' /\ TypeOutcome'
    BY <2>1, <2>2, ServeStands DEF IInv, TypeReader, TypeOutcome
  <2> QED
    BY <2>2, <2>3, <2>4, <2>5 DEF IInv
<1>2. ASSUME IgnoreMessage PROVE IInv'
  <2>1. /\ Decide(Head(wire[Ctrl]).n, "ignored") /\ Take(Ctrl) /\ UNCHANGED Local
        /\ UNCHANGED Sender /\ UNCHANGED serve /\ UNCHANGED verifier
        /\ reader' = reader /\ loop' = loop
        /\ wire[Ctrl] # <<>> /\ Head(wire[Ctrl]).kind = "msg"
    BY <1>2 DEF IgnoreMessage, Arrives
  <2>2. /\ TypePeer' /\ proofs' = proofs /\ msgs' = msgs
        /\ Head(wire[Ctrl]).n \in 1..Len(msgs)
    BY <1>c, <2>1, TakeKeeps
  <2>3. TypeLocal' /\ now' = now
    BY <2>1, LocalStands
  <2>4. TypeVerifier' /\ Remembers' /\ SpentOnce'
    BY <1>l, <2>1, <2>2, <2>3, VerifierStandsStill
  <2>5. TypeOutcome'
    <3>1. Head(wire[Ctrl]).n \in Ids /\ "ignored" \in Outcomes
      BY <2>2, Lengths DEF Outcomes
    <3> QED
      BY <2>1, <3>1, DecideKeeps
  <2>6. TypeServe' /\ TypeReader'
    BY <2>1, <2>2, ServeStands DEF IInv, TypeReader
  <2> QED
    BY <2>2, <2>3, <2>4, <2>5, <2>6 DEF IInv
<1>3. ASSUME ReadMessage PROVE IInv'
  <2> DEFINE i == Head(wire[Ctrl]).n
  <2> DEFINE allowed == outcome'[i] \in Allowed
  <2>1. /\ Authorize(i) /\ Take(Ctrl) /\ UNCHANGED Local /\ UNCHANGED Sender
        /\ reader' = reader /\ served' = served
        /\ wire[Ctrl] # <<>> /\ Head(wire[Ctrl]).kind = "msg"
        /\ IF allowed /\ Room(msgs[i].cap) THEN Enter(i) ELSE UNCHANGED queue
        /\ loop' = IF allowed /\ ~Room(msgs[i].cap) THEN i ELSE 0
    BY <1>3 DEF ReadMessage, Arrives
  <2>2. TypePeer' /\ proofs' = proofs /\ msgs' = msgs /\ i \in 1..Len(msgs)
    BY <1>c, <2>1, TakeKeeps
  <2>3. TypeLocal' /\ now' = now
    BY <2>1, LocalStands
  <2>4. TypeVerifier' /\ TypeOutcome' /\ Remembers' /\ SpentOnce'
    BY <2>1, <2>2, <2>3, AuthorizeKeeps
  <2>5. loop' \in 0..Len(msgs)
    BY <2>1, <2>2, Lengths
  <2>6. TypeServe'
    <3>1. CASE allowed /\ Room(msgs[i].cap)
      BY <2>1, <2>2, <2>5, <3>1, EnterKeeps
    <3>2. CASE ~(allowed /\ Room(msgs[i].cap))
      <4>1. queue' = queue
        BY <2>1, <3>2
      <4> QED
        BY <2>1, <2>2, <2>5, <4>1 DEF IInv, TypeServe
    <3> QED
      BY <3>1, <3>2
  <2>7. TypeReader'
    BY <2>1 DEF IInv, TypeReader
  <2> QED
    BY <2>2, <2>3, <2>4, <2>6, <2>7 DEF IInv
<1>4. ASSUME Enqueue PROVE IInv'
  <2>1. /\ loop # 0 /\ Room(msgs[loop].cap) /\ Enter(loop) /\ loop' = 0
        /\ UNCHANGED Local /\ UNCHANGED peer /\ UNCHANGED verifier
        /\ reader' = reader /\ served' = served /\ outcome' = outcome
    BY <1>4 DEF Enqueue
  <2>2. /\ wire' = wire /\ writer' = writer /\ proofs' = proofs /\ msgs' = msgs
        /\ repeats' = repeats
    BY <2>1 DEF peer
  <2>3. TypePeer' /\ TypeReader' /\ TypeOutcome'
    BY <2>1, <2>2 DEF IInv, TypePeer, TypeReader, TypeOutcome
  <2>4. TypeLocal' /\ now' = now
    BY <2>1, LocalStands
  <2>5. TypeVerifier' /\ Remembers' /\ SpentOnce'
    BY <1>l, <2>1, <2>2, <2>4, VerifierStandsStill
  <2>6. loop \in 1..Len(msgs) /\ loop' \in 0..Len(msgs)
    BY <2>1, Lengths DEF IInv, TypeServe
  <2>7. TypeServe'
    BY <2>1, <2>2, <2>6, EnterKeeps
  <2> QED
    BY <2>3, <2>4, <2>5, <2>7 DEF IInv
<1> QED
  BY <1>1, <1>2, <1>3, <1>4

\* The queues' handlers and the capability streams.
LEMMA ServingSteps ==
    ASSUME IInv, (\E c \in Caps : Serve(c)) \/ \E s \in Streams : ServeStream(s)
    PROVE  IInv'
<1>c. Streams \subseteq Channels
  BY DEF Channels
<1>l. now \in Nat /\ now <= now
  BY SessionBounds DEF IInv, TypeLocal
<1>1. ASSUME NEW c \in Caps, Serve(c) PROVE IInv'
  <2>1. /\ queue[c] # <<>> /\ queue' = [queue EXCEPT ![c] = Tail(queue[c])]
        /\ served' = served \cup {Head(queue[c])}
        /\ UNCHANGED Local /\ UNCHANGED peer /\ UNCHANGED verifier
        /\ reader' = reader /\ loop' = loop /\ outcome' = outcome
    BY <1>1 DEF Serve, IInv, TypeServe
  <2>2. /\ wire' = wire /\ writer' = writer /\ proofs' = proofs /\ msgs' = msgs
        /\ repeats' = repeats
    BY <2>1 DEF peer
  <2>3. TypePeer' /\ TypeReader' /\ TypeOutcome'
    BY <2>1, <2>2 DEF IInv, TypePeer, TypeReader, TypeOutcome
  <2>4. TypeLocal' /\ now' = now
    BY <2>1, LocalStands
  <2>5. TypeVerifier' /\ Remembers' /\ SpentOnce'
    BY <1>l, <2>1, <2>2, <2>4, VerifierStandsStill
  <2>6. queue[c] \in Seq(1..Len(msgs)) /\ Len(queue[c]) <= QueueDepth
    BY DEF IInv, TypeServe
  <2>7. /\ Head(queue[c]) \in 1..Len(msgs) /\ Tail(queue[c]) \in Seq(1..Len(msgs))
        /\ Len(Tail(queue[c])) = Len(queue[c]) - 1 /\ Len(queue[c]) \in Nat
    <3>1. queue[c] # <<>>
      BY <2>1
    <3>2. \A q \in Seq(1..Len(msgs)) :
            q # <<>> => /\ Head(q) \in 1..Len(msgs) /\ Tail(q) \in Seq(1..Len(msgs))
                        /\ Len(Tail(q)) = Len(q) - 1 /\ Len(q) \in Nat
      BY HeadTailProperties
    <3> QED
      BY <2>6, <3>1, <3>2
  <2>8. Len(Tail(queue[c])) <= QueueDepth
    BY <2>6, <2>7, SessionBounds
  <2>9. /\ queue' \in [Caps -> Seq(1..Len(msgs))]
        /\ \A d \in Caps : Len(queue'[d]) <= QueueDepth
    BY <2>1, <2>7, <2>8 DEF IInv, TypeServe
  <2>10. served' \in SUBSET Ids
    BY <2>1, <2>7, Lengths DEF IInv, TypeServe
  <2>11. TypeServe'
    BY <2>1, <2>2, <2>9, <2>10 DEF IInv, TypeServe
  <2> QED
    BY <2>3, <2>4, <2>5, <2>11 DEF IInv
<1>2. ASSUME NEW s \in Streams, StreamProof(s) PROVE IInv'
  <2>1. /\ Receive(Head(wire[s]).n) /\ Take(s) /\ UNCHANGED Local /\ UNCHANGED Sender
        /\ UNCHANGED serve /\ reader' = [reader EXCEPT ![s] = "second"] /\ loop' = loop
        /\ outcome' = outcome
        /\ wire[s] # <<>> /\ Head(wire[s]).kind = "proof"
    BY <1>2 DEF StreamProof, Arrives
  <2>2. /\ TypePeer' /\ proofs' = proofs /\ msgs' = msgs
        /\ Head(wire[s]).n \in 1..Len(proofs)
    BY <1>c, <2>1, TakeKeeps
  <2>3. TypeLocal' /\ now' = now
    BY <2>1, LocalStands
  <2>4. TypeVerifier' /\ Remembers' /\ SpentOnce'
    BY <2>1, <2>2, <2>3, ReceiveKeeps
  <2>5. TypeServe' /\ TypeReader' /\ TypeOutcome'
    BY <2>1, <2>2, ServeStands DEF IInv, TypeReader, TypeOutcome
  <2> QED
    BY <2>2, <2>3, <2>4, <2>5 DEF IInv
<1>3. ASSUME NEW s \in Streams, StreamMessage(s) PROVE IInv'
  <2> DEFINE i == Head(wire[s]).n
  <2>1. /\ \/ Authorize(i)
           \/ Decide(i, "ignored") /\ UNCHANGED verifier
        /\ Take(s) /\ UNCHANGED Local /\ UNCHANGED Sender /\ UNCHANGED serve
        /\ reader' = [reader EXCEPT ![s] = "done"] /\ loop' = loop
        /\ wire[s] # <<>> /\ Head(wire[s]).kind = "msg"
    BY <1>3 DEF StreamMessage, Arrives
  <2>2. TypePeer' /\ proofs' = proofs /\ msgs' = msgs /\ i \in 1..Len(msgs)
    BY <1>c, <2>1, TakeKeeps
  <2>3. TypeLocal' /\ now' = now
    BY <2>1, LocalStands
  <2>4. TypeServe' /\ TypeReader'
    BY <2>1, <2>2, ServeStands DEF IInv, TypeReader
  <2>5. TypeVerifier' /\ TypeOutcome' /\ Remembers' /\ SpentOnce'
    <3>1. CASE Authorize(i)
      BY <2>2, <2>3, <3>1, AuthorizeKeeps
    <3>2. CASE Decide(i, "ignored") /\ UNCHANGED verifier
      <4>1. i \in Ids /\ "ignored" \in Outcomes
        BY <2>2, Lengths DEF Outcomes
      <4>2. TypeOutcome'
        BY <3>2, <4>1, DecideKeeps
      <4> QED
        BY <1>l, <2>2, <2>3, <3>2, <4>2, VerifierStandsStill
    <3> QED
      BY <2>1, <3>1, <3>2
  <2> QED
    BY <2>2, <2>3, <2>4, <2>5 DEF IInv
<1>4. ASSUME NEW s \in Streams, StreamReset(s) PROVE IInv'
  <2>1. /\ reader' = [reader EXCEPT ![s] = "done"] /\ UNCHANGED Local /\ UNCHANGED peer
        /\ UNCHANGED verifier /\ UNCHANGED serve /\ loop' = loop /\ outcome' = outcome
    BY <1>4 DEF StreamReset
  <2>2. /\ wire' = wire /\ writer' = writer /\ proofs' = proofs /\ msgs' = msgs
        /\ repeats' = repeats
    BY <2>1 DEF peer
  <2>3. TypePeer' /\ TypeReader' /\ TypeOutcome' /\ TypeServe'
    BY <2>1, <2>2, ServeStands DEF IInv, TypePeer, TypeReader, TypeOutcome
  <2>4. TypeLocal' /\ now' = now
    BY <2>1, LocalStands
  <2>5. TypeVerifier' /\ Remembers' /\ SpentOnce'
    BY <1>l, <2>1, <2>2, <2>4, VerifierStandsStill
  <2> QED
    BY <2>3, <2>4, <2>5 DEF IInv
<1> QED
  BY <1>1, <1>2, <1>3, <1>4 DEF ServeStream

\* The rest of the device.
LEMMA DeviceSteps ==
    ASSUME IInv, Close \/ Tick \/ \E r \in Records : ChangeRecord(r)
    PROVE  IInv'
<1>l. now \in Nat /\ now <= now /\ now + 1 \in Nat /\ now <= now + 1
  BY SessionBounds DEF IInv, TypeLocal
<1>1. ASSUME Close PROVE IInv'
  <2>1. /\ closed' = TRUE /\ wire' = [ch \in Channels |-> <<>>]
        /\ now' = now /\ record' = record /\ hello' = hello /\ negotiated' = negotiated
        /\ changes' = changes /\ UNCHANGED Sender /\ reader' = reader
        /\ UNCHANGED verifier /\ loop' = loop /\ UNCHANGED serve /\ outcome' = outcome
    BY <1>1 DEF Close, Channels
  <2>2. writer' = writer /\ proofs' = proofs /\ msgs' = msgs /\ repeats' = repeats
    BY <2>1 DEF Sender
  <2>3. wire' \in [Channels -> Seq(Frame(Len(proofs'), Len(msgs')))]
    <3>1. <<>> \in Seq(Frame(Len(proofs'), Len(msgs')))
      OBVIOUS
    <3> QED
      BY <2>1, <3>1
  <2>4. TypePeer' /\ TypeReader' /\ TypeOutcome' /\ TypeServe'
    BY <2>1, <2>2, <2>3, ServeStands DEF IInv, TypePeer, TypeReader, TypeOutcome
  <2>5. TypeLocal'
    BY <2>1 DEF IInv, TypeLocal
  <2>6. TypeVerifier' /\ Remembers' /\ SpentOnce'
    BY <1>l, <2>1, <2>2, VerifierStandsStill
  <2> QED
    BY <2>4, <2>5, <2>6 DEF IInv
<1>2. ASSUME Tick \/ \E r \in Records : ChangeRecord(r) PROVE IInv'
  <2>1. /\ hello' = hello /\ negotiated' = negotiated /\ closed' = closed
        /\ UNCHANGED peer /\ reader' = reader /\ UNCHANGED verifier /\ loop' = loop
        /\ UNCHANGED serve /\ outcome' = outcome
    BY <1>2 DEF Tick, ChangeRecord
  <2>2. /\ wire' = wire /\ writer' = writer /\ proofs' = proofs /\ msgs' = msgs
        /\ repeats' = repeats
    BY <2>1 DEF peer
  <2>3. TypePeer' /\ TypeReader' /\ TypeOutcome' /\ TypeServe'
    BY <2>1, <2>2, ServeStands DEF IInv, TypePeer, TypeReader, TypeOutcome
  <2>4. TypeLocal' /\ now' \in {now, now + 1}
    <3>1. CASE Tick
      <4>1. now < MaxNow /\ now' = now + 1 /\ record' = record /\ changes' = changes
        BY <3>1 DEF Tick
      <4>2. now' \in 0..MaxNow
        BY <4>1, SessionBounds DEF IInv, TypeLocal
      <4> QED
        BY <2>1, <4>1, <4>2 DEF IInv, TypeLocal
    <3>2. ASSUME NEW r \in Records, ChangeRecord(r) PROVE TypeLocal' /\ now' = now
      <4>1. changes < MaxChanges /\ record' = r /\ changes' = changes + 1 /\ now' = now
        BY <3>2 DEF ChangeRecord
      <4>2. changes' \in 0..MaxChanges
        BY <4>1, SessionBounds DEF IInv, TypeLocal
      <4> QED
        BY <2>1, <4>1, <4>2 DEF IInv, TypeLocal
    <3> QED
      BY <1>2, <3>1, <3>2
  <2>5. now' \in Nat /\ now <= now'
    BY <1>l, <2>4
  <2>6. TypeVerifier' /\ Remembers' /\ SpentOnce'
    BY <2>1, <2>2, <2>5, VerifierStandsStill
  <2> QED
    BY <2>3, <2>4, <2>6 DEF IInv
<1> QED
  BY <1>1, <1>2

----------------------------------------------------------------------------
(* The theorems.                                                            *)

LEMMA InitIInv == Init => IInv
<1> SUFFICES ASSUME Init PROVE IInv
  OBVIOUS
<1>1. /\ proofs = <<>> /\ msgs = <<>> /\ pending = <<>> /\ seen = {} /\ loop = 0
      /\ paid = [i \in Ids |-> 0] /\ evicted = [c \in Caps |-> 0]
  BY DEF Init
<1>2. Len(proofs) = 0 /\ Len(msgs) = 0 /\ Len(pending) = 0 /\ 0 \in 0..MaxProofs
      /\ 0 \in 0..MaxNow /\ 0 \in 0..MaxChanges /\ 0 \in 0..MaxRepeats
  BY <1>1, SessionBounds
<1>3. TypePeer
  <2>1. proofs \in Seq(Proof) /\ msgs \in Seq(Msg)
    <3> HIDE DEF Proof, Msg
    <3> QED
      BY <1>1
  <2>2. wire \in [Channels -> Seq(Frame(Len(proofs), Len(msgs)))]
    <3>1. wire = [ch \in Channels |-> <<>>]
      BY DEF Init, Channels
    <3> QED
      BY <3>1
  <2> QED
    BY <1>2, <2>1, <2>2, SessionBounds DEF Init, TypePeer
<1>4. TypeVerifier
  BY <1>1, <1>2, SessionBounds DEF TypeVerifier
<1>5. TypeServe
  BY <1>2, SessionBounds DEF Init, TypeServe
<1>6. TypeLocal
  BY <1>2, SessionsBeginSoundly DEF Init, TypeLocal
<1>7. TypeReader /\ TypeOutcome
  BY DEF Init, TypeReader, TypeOutcome, Outcomes
<1>8. Remembers /\ SpentOnce
  BY <1>1 DEF Remembers, SpentOnce
<1> QED
  BY <1>3, <1>4, <1>5, <1>6, <1>7, <1>8 DEF IInv

LEMMA StepIInv == IInv /\ [Next]_vars => IInv'
<1> SUFFICES ASSUME IInv, [Next]_vars PROVE IInv'
  OBVIOUS
<1>1. CASE UNCHANGED vars
  <2>1. /\ now' = now /\ record' = record /\ hello' = hello /\ negotiated' = negotiated
        /\ UNCHANGED peer /\ reader' = reader /\ UNCHANGED verifier /\ loop' = loop
        /\ UNCHANGED serve /\ closed' = closed /\ changes' = changes /\ outcome' = outcome
    BY <1>1 DEF vars
  <2>2. /\ wire' = wire /\ writer' = writer /\ proofs' = proofs /\ msgs' = msgs
        /\ repeats' = repeats
    BY <2>1 DEF peer
  <2>3. TypePeer' /\ TypeReader' /\ TypeOutcome' /\ TypeServe'
    BY <2>1, <2>2, ServeStands DEF IInv, TypePeer, TypeReader, TypeOutcome
  <2>4. TypeLocal' /\ now' \in Nat /\ now <= now'
    BY <2>1, SessionBounds DEF IInv, TypeLocal
  <2>5. TypeVerifier' /\ Remembers' /\ SpentOnce'
    BY <2>1, <2>2, <2>4, VerifierStandsStill
  <2> QED
    BY <2>3, <2>4, <2>5 DEF IInv
<1>2. CASE Next
  BY <1>2, PeerSteps, ControlSteps, ServingSteps, DeviceSteps DEF Next, ReadControl
<1> QED
  BY <1>1, <1>2

\* What waits, is queued or is on its way always names a proof or a message of
\* the peer, and the cache and the queues stay within their bounds.
THEOREM SessionTypeCorrect == Spec => []TypeOK
<1>1. IInv => TypeOK
  <2> SUFFICES ASSUME IInv PROVE TypeOK
    OBVIOUS
  <2>1. DOMAIN proofs = 1..Len(proofs) /\ DOMAIN msgs = 1..Len(msgs)
    BY Lengths
  <2>2. Frames = Frame(Len(proofs), Len(msgs))
    BY <2>1 DEF Frames, Frame
  <2> QED
    BY <2>1, <2>2 DEF IInv, TypePeer, TypeVerifier, TypeServe, TypeLocal, TypeReader,
                      TypeOutcome, TypeOK, Channels, Proof, Msg
<1> QED
  BY <1>1, InitIInv, StepIInv, PTL DEF Spec

\* No two messages spend one nonce, whatever the peer repeats, whichever stream
\* it arrives on, and however pruning and eviction fall.
THEOREM NoncesAreSpentOnce == Spec => []SpentOnce
<1>1. IInv => SpentOnce
  BY DEF IInv
<1> QED
  BY <1>1, InitIInv, StepIInv, PTL DEF Spec

----------------------------------------------------------------------------
(* Counting: the proofs that wait, and the messages that lack or take one.  *)

\* Where a sequence holds a member of a set.
PlacesOf(q, T) == {k \in DOMAIN q : q[k] \in T}
One(b) == IF b THEN 1 ELSE 0

LEMMA PlacesAreFinite ==
    ASSUME NEW S, NEW q \in Seq(S), NEW T
    PROVE  IsFiniteSet(PlacesOf(q, T)) /\ Cardinality(PlacesOf(q, T)) \in Nat
<1>1. PlacesOf(q, T) \subseteq 1..Len(q) /\ Len(q) \in Nat
  BY DEF PlacesOf
<1>2. IsFiniteSet(1..Len(q))
  BY <1>1, FS_Interval
<1> QED
  BY <1>1, <1>2, FS_Subset, FS_CardinalityType

LEMMA OneMorePlace ==
    ASSUME NEW S, NEW q \in Seq(S), NEW e \in S, NEW T
    PROVE  Cardinality(PlacesOf(Append(q, e), T)) = Cardinality(PlacesOf(q, T)) + One(e \in T)
<1> DEFINE n == Len(q) + 1
<1>1. /\ Len(q) \in Nat /\ DOMAIN q = 1..Len(q) /\ DOMAIN Append(q, e) = 1..n
      /\ Append(q, e)[n] = e /\ \A k \in 1..Len(q) : Append(q, e)[k] = q[k]
  OBVIOUS
<1>2. PlacesOf(Append(q, e), T) = IF e \in T THEN PlacesOf(q, T) \cup {n} ELSE PlacesOf(q, T)
  BY <1>1 DEF PlacesOf
<1>3. n \notin PlacesOf(q, T)
  BY <1>1 DEF PlacesOf
<1>4. IsFiniteSet(PlacesOf(q, T)) /\ Cardinality(PlacesOf(q, T)) \in Nat
  BY PlacesAreFinite
<1> HIDE DEF n
<1>5. CASE e \in T
  <2>1. Cardinality(PlacesOf(q, T) \cup {n}) = Cardinality(PlacesOf(q, T)) + 1
    BY <1>3, <1>4, FS_AddElement
  <2> QED
    BY <1>2, <1>5, <2>1 DEF One
<1>6. CASE e \notin T
  BY <1>2, <1>4, <1>6 DEF One
<1> QED
  BY <1>5, <1>6

\* Sequence r is q without the member at place k.
LEMMA OnePlaceLess ==
    ASSUME NEW S, NEW q \in Seq(S), NEW r \in Seq(S), NEW k \in 1..Len(q), NEW T,
           Len(r) = Len(q) - 1,
           \A j \in 1..Len(r) : r[j] = IF j < k THEN q[j] ELSE q[j + 1]
    PROVE  Cardinality(PlacesOf(q, T)) = Cardinality(PlacesOf(r, T)) + One(q[k] \in T)
<1> DEFINE A == PlacesOf(r, T)
<1> DEFINE B == PlacesOf(q, T) \ {k}
<1> DEFINE f == [j \in A |-> IF j < k THEN j ELSE j + 1]
<1>1. /\ Len(q) \in Nat /\ DOMAIN q = 1..Len(q) /\ Len(r) \in Nat /\ DOMAIN r = 1..Len(r)
  OBVIOUS
<1>2. A \subseteq 1..Len(r) /\ \A j \in 1..Len(r) : j \in A <=> r[j] \in T
  BY <1>1 DEF PlacesOf
<1>3. B \subseteq 1..Len(q) /\ \A j \in 1..Len(q) : j \in B <=> j # k /\ q[j] \in T
  BY <1>1 DEF PlacesOf
<1> HIDE DEF A, B
<1>4. f \in [A -> B]
  <2>1. ASSUME NEW j \in A PROVE f[j] \in B
    BY <1>1, <1>2, <1>3, <2>1
  <2> QED
    BY <2>1
<1>5. \A i, j \in A : f[i] = f[j] => i = j
  BY <1>1, <1>2
<1>6. \A x \in B : \E j \in A : f[j] = x
  <2> SUFFICES ASSUME NEW x \in B PROVE \E j \in A : f[j] = x
    OBVIOUS
  <2>1. x \in 1..Len(q) /\ x # k /\ q[x] \in T
    BY <1>3
  <2>2. CASE x < k
    <3>1. x \in A
      BY <1>1, <1>2, <2>1, <2>2
    <3> QED
      BY <2>2, <3>1
  <2>3. CASE x > k
    <3> DEFINE j == x - 1
    <3>1. j \in 1..Len(r) /\ ~(j < k) /\ j + 1 = x
      BY <1>1, <2>1, <2>3
    <3>2. r[j] = q[x]
      BY <3>1
    <3>3. j \in A
      BY <1>2, <2>1, <3>1, <3>2
    <3>4. f[j] = x
      BY <3>1, <3>3
    <3> QED
      BY <3>3, <3>4
  <2> QED
    BY <1>1, <2>1, <2>2, <2>3
<1>7. f \in Bijection(A, B)
  <2> HIDE DEF f
  <2> QED
    BY <1>4, <1>5, <1>6 DEF Bijection, Injection, Surjection, IsInjective
<1>8. IsFiniteSet(A) /\ IsFiniteSet(PlacesOf(q, T)) /\ Cardinality(A) \in Nat
  BY PlacesAreFinite DEF A
<1>9. Cardinality(B) = Cardinality(A) /\ IsFiniteSet(B)
  BY <1>7, <1>8, FS_Bijection DEF ExistsBijection
<1>10. CASE q[k] \in T
  <2>1. k \in PlacesOf(q, T)
    BY <1>1, <1>10 DEF PlacesOf
  <2>2. Cardinality(B) = Cardinality(PlacesOf(q, T)) - 1 /\ Cardinality(PlacesOf(q, T)) \in Nat
    BY <1>8, <2>1, FS_RemoveElement, FS_CardinalityType DEF B
  <2> QED
    BY <1>8, <1>9, <1>10, <2>2 DEF A, One
<1>11. CASE q[k] \notin T
  <2>1. B = PlacesOf(q, T)
    BY <1>11 DEF B, PlacesOf
  <2> QED
    BY <1>8, <1>9, <1>11, <2>1 DEF A, One
<1> QED
  BY <1>10, <1>11

LEMMA WithoutIs ==
    ASSUME NEW S, pending \in Seq(S), NEW k \in 1..Len(pending),
           NEW j \in 1..(Len(pending) - 1)
    PROVE  Without(k)[j] = IF j < k THEN pending[j] ELSE pending[j + 1]
<1> DEFINE u == SubSeq(pending, 1, k - 1)
<1> DEFINE v == SubSeq(pending, k + 1, Len(pending))
<1>1. /\ Len(pending) \in Nat /\ k \in Nat /\ j \in Nat
      /\ \A i \in 1..(k - 1) : pending[i] \in S
      /\ \A i \in (k + 1)..Len(pending) : pending[i] \in S
  OBVIOUS
<1>2. /\ u \in Seq(S) /\ Len(u) = k - 1
      /\ \A i \in 1..(k - 1) : u[i] = pending[i]
  BY <1>1, SubSeqProperties
<1>3. /\ v \in Seq(S) /\ Len(v) = Len(pending) - k
      /\ \A i \in 1..(Len(pending) - k) : v[i] = pending[k + i]
  BY <1>1, SubSeqProperties
<1> HIDE DEF u, v
<1>4. Without(k) = u \o v
  BY DEF Without, u, v
<1>5. (u \o v)[j] = IF j <= Len(u) THEN u[j] ELSE v[j - Len(u)]
  BY <1>1, <1>2, <1>3, ConcatProperties
<1>6. CASE j < k
  BY <1>1, <1>2, <1>4, <1>5, <1>6
<1>7. CASE ~(j < k)
  <2>1. j - Len(u) \in 1..(Len(pending) - k) /\ k + (j - Len(u)) = j + 1
    BY <1>1, <1>2, <1>7
  <2>2. v[j - Len(u)] = pending[j + 1]
    BY <1>3, <2>1
  <2> QED
    BY <1>1, <1>2, <1>4, <1>5, <1>7, <2>2
<1> QED
  BY <1>6, <1>7

\* The proofs of a capability; those that wait are where the queue holds one.
ProofsOf(c) == {n \in 1..Len(proofs) : proofs[n].cap = c}

LEMMA VerifyingIs ==
    ASSUME IInv, NEW c
    PROVE  /\ Verifying(c) = PlacesOf(pending, ProofsOf(c))
           /\ IsFiniteSet(Verifying(c)) /\ Cardinality(Verifying(c)) \in Nat
<1>1. pending \in Seq(1..Len(proofs))
  BY DEF IInv, TypeVerifier
<1>2. \A k \in DOMAIN pending : pending[k] \in 1..Len(proofs)
  BY <1>1
<1>3. Verifying(c) = PlacesOf(pending, ProofsOf(c))
  BY <1>2 DEF Verifying, PlacesOf, ProofsOf
<1> QED
  BY <1>1, <1>3, PlacesAreFinite

\* A proof that arrives is counted once, with those that wait or with those dropped.
LEMMA ReceiveCounts ==
    ASSUME IInv, NEW n \in 1..Len(proofs), Receive(n), proofs' = proofs, NEW c \in Caps
    PROVE  /\ Cardinality(Verifying(c)') + evicted'[c]
                = Cardinality(Verifying(c)) + evicted[c] + One(proofs[n].cap = c)
           /\ evicted[c] <= evicted'[c] /\ evicted[c] \in Nat /\ evicted'[c] \in Nat
           /\ Cardinality(Verifying(c)) \in Nat /\ Cardinality(Verifying(c)') \in Nat
<1> DEFINE N == 1..Len(proofs)
<1> DEFINE T == ProofsOf(c)
<1>0. /\ pending \in Seq(N) /\ evicted \in [Caps -> Nat] /\ n \in N
      /\ MaxPending \in Nat /\ MaxPending > 0
  BY SessionBounds DEF IInv, TypeVerifier
<1>1. Verifying(c) = PlacesOf(pending, T) /\ Cardinality(Verifying(c)) \in Nat
  BY VerifyingIs
<1>2. \A m \in N : m \in T <=> proofs[m].cap = c
  BY DEF ProofsOf
<1>3. ASSUME pending' \in Seq(N) PROVE Verifying(c)' = PlacesOf(pending', T)
  <2>1. \A k \in DOMAIN pending' : pending'[k] \in 1..Len(proofs)
    BY <1>3
  <2> QED
    BY <2>1 DEF Verifying, PlacesOf, ProofsOf
<1> HIDE DEF N, T
<1>4. CASE Len(pending) >= MaxPending
  <2> DEFINE t == Tail(pending)
  <2> DEFINE x == proofs[Head(pending)].cap
  <2>1. pending' = Append(t, n) /\ evicted' = [evicted EXCEPT ![x] = evicted[x] + 1]
    BY <1>4 DEF Receive
  <2>2. pending # <<>> /\ Len(pending) \in Nat /\ 1 \in 1..Len(pending)
    BY <1>0, <1>4
  <2>3. /\ Head(pending) \in N /\ t \in Seq(N) /\ Len(t) = Len(pending) - 1
        /\ Head(pending) = pending[1]
        /\ \A j \in 1..Len(t) : t[j] = pending[j + 1]
    BY <1>0, <2>2, HeadTailProperties
  <2>4. x \in Caps
    BY <2>3, CapsKnown DEF N
  <2>5. \A j \in 1..Len(t) : t[j] = IF j < 1 THEN pending[j] ELSE pending[j + 1]
    BY <2>2, <2>3
  <2> HIDE DEF t, x
  <2>6. Cardinality(PlacesOf(pending, T))
          = Cardinality(PlacesOf(t, T)) + One(pending[1] \in T)
    <3>1. t \in Seq(N) /\ Len(t) = Len(pending) - 1 /\ pending \in Seq(N)
      BY <1>0, <2>3
    <3> QED
      BY <2>2, <2>5, <3>1, OnePlaceLess
  <2>7. Cardinality(PlacesOf(Append(t, n), T)) = Cardinality(PlacesOf(t, T)) + One(n \in T)
    BY <1>0, <2>3, OneMorePlace
  <2>8. /\ Append(t, n) \in Seq(N) /\ Cardinality(PlacesOf(t, T)) \in Nat
        /\ Cardinality(PlacesOf(Append(t, n), T)) \in Nat
    <3>1. Append(t, n) \in Seq(N)
      BY <1>0, <2>3
    <3> QED
      BY <2>3, <3>1, PlacesAreFinite
  <2>9. Verifying(c)' = PlacesOf(Append(t, n), T)
    BY <1>3, <2>1, <2>8
  <2>10. evicted'[c] = evicted[c] + One(x = c) /\ evicted[c] \in Nat
    BY <1>0, <2>1, <2>4 DEF One
  <2>11. One(x = c) = One(pending[1] \in T) /\ One(n \in T) = One(proofs[n].cap = c)
    <3>1. x = c <=> pending[1] \in T
      BY <1>2, <2>3 DEF x
    <3>2. n \in T <=> proofs[n].cap = c
      BY <1>0, <1>2
    <3> QED
      BY <3>1, <3>2 DEF One
  <2>12. One(x = c) \in {0, 1} /\ One(proofs[n].cap = c) \in {0, 1}
    BY DEF One
  <2> DEFINE before == Cardinality(Verifying(c))
             rest == Cardinality(PlacesOf(t, T))
             after == Cardinality(Verifying(c)')
             out == One(x = c)
             in == One(proofs[n].cap = c)
  <2>13. /\ before = rest + out /\ after = rest + in
         /\ before \in Nat /\ rest \in Nat /\ after \in Nat /\ out \in Nat /\ in \in Nat
    BY <1>1, <2>6, <2>7, <2>8, <2>9, <2>11, <2>12
  <2>14. evicted'[c] = evicted[c] + out /\ evicted[c] \in Nat
    BY <2>10
  <2> HIDE DEF before, rest, after, out, in
  <2>15. /\ after + evicted'[c] = before + evicted[c] + in
         /\ evicted[c] <= evicted'[c] /\ evicted'[c] \in Nat
    BY <2>13, <2>14
  <2> QED
    BY <2>13, <2>14, <2>15 DEF before, after, in
<1>5. CASE ~(Len(pending) >= MaxPending)
  <2>1. pending' = Append(pending, n) /\ evicted' = evicted
    BY <1>5 DEF Receive
  <2>2. Append(pending, n) \in Seq(N)
    BY <1>0
  <2>3. Verifying(c)' = PlacesOf(Append(pending, n), T)
    BY <1>3, <2>1, <2>2
  <2>4. Cardinality(PlacesOf(Append(pending, n), T))
          = Cardinality(PlacesOf(pending, T)) + One(n \in T)
    BY <1>0, OneMorePlace
  <2>5. One(n \in T) = One(proofs[n].cap = c) /\ One(proofs[n].cap = c) \in {0, 1}
    BY <1>0, <1>2 DEF One
  <2>6. evicted[c] \in Nat /\ evicted'[c] = evicted[c]
    BY <1>0, <2>1
  <2> QED
    BY <1>1, <2>3, <2>4, <2>5, <2>6
<1> QED
  BY <1>4, <1>5

Lacking == {"plain", "unproven"}
Borrowing == {"owned", "demoted", "expired", "replayed"}
Mine(i, c) == msgs[i].cap = c

LEMMA TalliesAreFinite ==
    ASSUME IInv, NEW c
    PROVE  /\ IsFiniteSet(Starved(c)) /\ Cardinality(Starved(c)) \in Nat
           /\ IsFiniteSet(Borrowers(c)) /\ Cardinality(Borrowers(c)) \in Nat
<1>1. Starved(c) \subseteq 1..Len(msgs) /\ Borrowers(c) \subseteq 1..Len(msgs)
  BY Lengths DEF Starved, Borrowers, Of
<1>2. IsFiniteSet(1..Len(msgs))
  BY Lengths, FS_Interval
<1> QED
  BY <1>1, <1>2, FS_Subset, FS_CardinalityType

\* A message that is decided adds to at most one of the tallies of its capability.
LEMMA DecideCounts ==
    ASSUME IInv, NEW i \in 1..Len(msgs), outcome[i] = "sent", NEW o, Decide(i, o), msgs' = msgs,
           NEW c
    PROVE  /\ Cardinality(Starved(c)')
                = Cardinality(Starved(c)) + One(Mine(i, c) /\ msgs[i].proven /\ o \in Lacking)
           /\ Cardinality(Borrowers(c)')
                = Cardinality(Borrowers(c)) + One(Mine(i, c) /\ ~msgs[i].proven /\ o \in Borrowing)
<1>1. i \in Ids /\ outcome \in [Ids -> Outcomes] /\ DOMAIN msgs = 1..Len(msgs)
      /\ 1..Len(msgs) \subseteq Ids
  BY Lengths DEF IInv, TypeOutcome
<1>2. /\ outcome'[i] = o
      /\ \A j \in 1..Len(msgs) : j # i => outcome'[j] = outcome[j]
  BY <1>1 DEF Decide
<1>3. i \notin Starved(c) /\ i \notin Borrowers(c)
  BY DEF Starved, Borrowers
<1>4. Starved(c)' = IF Mine(i, c) /\ msgs[i].proven /\ o \in Lacking
                    THEN Starved(c) \cup {i} ELSE Starved(c)
  BY <1>1, <1>2, <1>3 DEF Starved, Of, Mine, Lacking
<1>5. Borrowers(c)' = IF Mine(i, c) /\ ~msgs[i].proven /\ o \in Borrowing
                      THEN Borrowers(c) \cup {i} ELSE Borrowers(c)
  BY <1>1, <1>2, <1>3 DEF Borrowers, Of, Mine, Borrowing
<1>6. /\ IsFiniteSet(Starved(c)) /\ Cardinality(Starved(c)) \in Nat
      /\ IsFiniteSet(Borrowers(c)) /\ Cardinality(Borrowers(c)) \in Nat
  BY TalliesAreFinite
<1>7. /\ Cardinality(Starved(c) \cup {i}) = Cardinality(Starved(c)) + 1
      /\ Cardinality(Borrowers(c) \cup {i}) = Cardinality(Borrowers(c)) + 1
  BY <1>3, <1>6, FS_AddElement
<1>8. Cardinality(Starved(c)')
        = Cardinality(Starved(c)) + One(Mine(i, c) /\ msgs[i].proven /\ o \in Lacking)
  <2>1. CASE Mine(i, c) /\ msgs[i].proven /\ o \in Lacking
    BY <1>4, <1>7, <2>1 DEF One
  <2>2. CASE ~(Mine(i, c) /\ msgs[i].proven /\ o \in Lacking)
    BY <1>4, <1>6, <2>2 DEF One
  <2> QED
    BY <2>1, <2>2
<1>9. Cardinality(Borrowers(c)')
        = Cardinality(Borrowers(c)) + One(Mine(i, c) /\ ~msgs[i].proven /\ o \in Borrowing)
  <2>1. CASE Mine(i, c) /\ ~msgs[i].proven /\ o \in Borrowing
    BY <1>5, <1>7, <2>1 DEF One
  <2>2. CASE ~(Mine(i, c) /\ ~msgs[i].proven /\ o \in Borrowing)
    BY <1>5, <1>6, <2>2 DEF One
  <2> QED
    BY <2>1, <2>2
<1> QED
  BY <1>8, <1>9

\* A message that came behind its proof goes without only when none is left; any other
\* use of a proof is of a message that is paid for, or of one that borrows.
Settled(i, c) ==
    /\ evicted'[c] = evicted[c]
    /\ Cardinality(Starved(c)') + Cardinality(Verifying(c)) + Cardinality(Borrowers(c))
         <= Cardinality(Starved(c)) + Cardinality(Verifying(c)') + Cardinality(Borrowers(c)')
            + One(Mine(i, c) /\ msgs[i].proven)
    /\ \/ Cardinality(Starved(c)') = Cardinality(Starved(c))
       \/ /\ Cardinality(Starved(c)') = Cardinality(Starved(c)) + 1
          /\ Cardinality(Verifying(c)) = 0 /\ Mine(i, c) /\ msgs[i].proven
    /\ Cardinality(Borrowers(c)) <= Cardinality(Borrowers(c)')
    /\ Cardinality(Starved(c)') \in Nat /\ Cardinality(Verifying(c)') \in Nat
    /\ Cardinality(Borrowers(c)') \in Nat

LEMMA AuthorizeCounts ==
    ASSUME IInv, NEW i \in 1..Len(msgs), outcome[i] = "sent", Authorize(i), msgs' = msgs,
           proofs' = proofs, NEW c \in Caps
    PROVE  Settled(i, c)
<1> DEFINE N == 1..Len(proofs)
<1> DEFINE T == ProofsOf(c)
<1> DEFINE V == Verifying(c)
<1> DEFINE S == Starved(c)
<1> DEFINE B == Borrowers(c)
<1>0. pending \in Seq(N) /\ msgs[i].proven \in BOOLEAN
  BY CapsKnown DEF IInv, TypeVerifier
<1>1. V = PlacesOf(pending, T) /\ Cardinality(V) \in Nat
  BY VerifyingIs
<1>2. Cardinality(S) \in Nat /\ Cardinality(B) \in Nat
  BY TalliesAreFinite
<1>3. \A b : One(b) \in {0, 1}
  BY DEF One
<1>4. CASE NoProof(i) \/ NoPinnedKey(i)
  <2>1. PICK o : Decide(i, o) /\ o \in {"owned", "plain", "demoted", "unproven", "nokey"}
                 /\ (o = "owned" => FALSE)
    BY <1>4 DEF NoProof, NoPinnedKey, Ladder
  <2>2. V' = V /\ evicted' = evicted
    BY <1>4 DEF NoProof, NoPinnedKey, Verifying
  <2>3. ASSUME Mine(i, c), o \in Lacking PROVE Cardinality(V) = 0
    <3>1. NoProof(i)
      <4>1. CASE NoPinnedKey(i)
        <5>1. outcome'[i] = "nokey" /\ outcome'[i] = o
          BY <2>1, <4>1, Lengths DEF NoPinnedKey, Decide, IInv, TypeOutcome
        <5> QED
          BY <2>3, <5>1 DEF Lacking
      <4> QED
        BY <1>4, <4>1
    <3>2. V = {}
      <4>1. CASE pending = <<>>
        BY <4>1 DEF Verifying
      <4>2. CASE Verifying(msgs[i].cap) = {}
        BY <2>3, <4>2 DEF Mine
      <4> QED
        BY <3>1, <4>1, <4>2 DEF NoProof
    <3> QED
      BY <3>2, FS_EmptySet
  <2>4. /\ Cardinality(S') = Cardinality(S) + One(Mine(i, c) /\ msgs[i].proven /\ o \in Lacking)
        /\ Cardinality(B') = Cardinality(B) + One(Mine(i, c) /\ ~msgs[i].proven /\ o \in Borrowing)
    BY <2>1, DecideCounts
  <2> HIDE DEF S, B, V
  <2>5. CASE Mine(i, c) /\ msgs[i].proven /\ o \in Lacking
    BY <1>1, <1>2, <1>3, <2>2, <2>3, <2>4, <2>5 DEF One, Settled, S, B, V
  <2>6. CASE ~(Mine(i, c) /\ msgs[i].proven /\ o \in Lacking)
    BY <1>1, <1>2, <1>3, <2>2, <2>4, <2>6 DEF One, Settled, S, B, V
  <2> QED
    BY <2>5, <2>6
<1>5. CASE Spend(i)
  <2>1. PICK k \in DOMAIN pending :
          /\ First(Verifying(msgs[i].cap), k) /\ pending' = Without(k)
          /\ \/ Decide(i, "expired") \/ Decide(i, "replayed") \/ Ladder(i, TRUE)
    BY <1>5 DEF Spend
  <2>2. PICK o \in Borrowing : Decide(i, o)
    BY <2>1 DEF Ladder, Borrowing
  <2>3. evicted' = evicted
    BY <1>5 DEF Spend
  <2>4. k \in 1..Len(pending) /\ pending[k] \in N /\ proofs[pending[k]].cap = msgs[i].cap
    BY <1>0, <2>1 DEF First, Verifying
  <2>5. pending[k] \in T <=> Mine(i, c)
    BY <2>4 DEF ProofsOf, Mine
  <2> DEFINE r == Without(k)
  <2>6. /\ r \in Seq(N) /\ Len(r) = Len(pending) - 1
        /\ \A j \in 1..Len(r) : r[j] = IF j < k THEN pending[j] ELSE pending[j + 1]
    BY <1>0, <2>4, WithoutKeeps, WithoutIs
  <2>7. V' = PlacesOf(r, T)
    <3>1. pending' = r
      BY <2>1
    <3>2. \A j \in DOMAIN r : r[j] \in 1..Len(proofs)
      BY <2>6
    <3> HIDE DEF r
    <3> QED
      BY <3>1, <3>2 DEF Verifying, PlacesOf, ProofsOf
  <2> HIDE DEF r, T, N
  <2>8. Cardinality(PlacesOf(pending, T)) = Cardinality(PlacesOf(r, T)) + One(pending[k] \in T)
    <3>1. pending \in Seq(N)
      BY <1>0
    <3>2. r \in Seq(N)
      BY <2>6
    <3>3. k \in 1..Len(pending)
      BY <2>4
    <3>4. Len(r) = Len(pending) - 1
      BY <2>6
    <3>5. \A j \in 1..Len(r) : r[j] = IF j < k THEN pending[j] ELSE pending[j + 1]
      BY <2>6
    <3> QED
      BY <3>1, <3>2, <3>3, <3>4, <3>5, OnePlaceLess
  <2>9. Cardinality(PlacesOf(r, T)) \in Nat
    BY <2>6, PlacesAreFinite
  <2>10. /\ Cardinality(S') = Cardinality(S) + One(Mine(i, c) /\ msgs[i].proven /\ o \in Lacking)
         /\ Cardinality(B') = Cardinality(B) + One(Mine(i, c) /\ ~msgs[i].proven /\ o \in Borrowing)
    BY <2>2, DecideCounts
  <2>11. o \notin Lacking
    BY <2>2 DEF Borrowing, Lacking
  <2> HIDE DEF S, B, V
  <2>12. CASE ~Mine(i, c)
    BY <1>1, <1>2, <2>2, <2>3, <2>5, <2>7, <2>8, <2>9, <2>10, <2>11, <2>12
       DEF One, Settled, S, B, V
  <2>13. CASE Mine(i, c) /\ msgs[i].proven
    BY <1>1, <1>2, <2>2, <2>3, <2>5, <2>7, <2>8, <2>9, <2>10, <2>11, <2>13
       DEF One, Settled, S, B, V
  <2>14. CASE Mine(i, c) /\ ~msgs[i].proven
    BY <1>1, <1>2, <2>2, <2>3, <2>5, <2>7, <2>8, <2>9, <2>10, <2>11, <2>14
       DEF One, Settled, S, B, V
  <2> QED
    BY <2>12, <2>13, <2>14
<1> QED
  BY <1>4, <1>5 DEF Authorize

----------------------------------------------------------------------------
(* Where frames stand on the channels, and the balance over them.            *)

\* What stands at place k of a channel.
Named(ch, k) == wire[ch][k].n
MsgAt(ch, k) == k \in 1..Len(wire[ch]) /\ wire[ch][k].kind = "msg"
ProofAt(ch, k) == k \in 1..Len(wire[ch]) /\ wire[ch][k].kind = "proof"
\* A message of capability c that was sent behind a proof; a proof of capability c.
Proven(ch, k, c) == MsgAt(ch, k) /\ msgs[Named(ch, k)].proven /\ msgs[Named(ch, k)].cap = c
ProofOf(ch, k, c) == ProofAt(ch, k) /\ proofs[Named(ch, k)].cap = c

Places == Nat \ {0}

\* A message is on one channel once, and is undecided while it is there.
Unread == \A ch \in Channels, k \in Places : MsgAt(ch, k) => outcome[Named(ch, k)] = "sent"
Singly ==
    \A ch, x \in Channels, j, k \in Places :
        MsgAt(ch, j) /\ MsgAt(x, k) /\ Named(ch, j) = Named(x, k) => ch = x /\ j = k

LEMMA FramesAre ==
    ASSUME IInv
    PROVE  \A ch \in Channels :
             /\ Len(wire[ch]) \in Nat
             /\ \A k \in Places :
                  /\ MsgAt(ch, k) => Named(ch, k) \in 1..Len(msgs)
                  /\ ProofAt(ch, k) => Named(ch, k) \in 1..Len(proofs)
<1> SUFFICES ASSUME NEW ch \in Channels
             PROVE  /\ Len(wire[ch]) \in Nat
                    /\ \A k \in Places :
                         /\ MsgAt(ch, k) => Named(ch, k) \in 1..Len(msgs)
                         /\ ProofAt(ch, k) => Named(ch, k) \in 1..Len(proofs)
  OBVIOUS
<1> DEFINE F == Frame(Len(proofs), Len(msgs))
<1>1. wire[ch] \in Seq(F)
  BY DEF IInv, TypePeer
<1>2. Len(wire[ch]) \in Nat /\ \A k \in 1..Len(wire[ch]) : wire[ch][k] \in F
  <2> HIDE DEF F
  <2> QED
    BY <1>1
<1> QED
  BY <1>2 DEF MsgAt, ProofAt, Named, Frame

\* A write leaves the other channels, and adds its frames behind those of its own.
LEMMA PutAdds ==
    ASSUME IInv, NEW ch \in Channels, NEW F, NEW fs \in Seq(F), Put(ch, fs)
    PROVE  /\ \A x \in Channels : x # ch => wire'[x] = wire[x]
           /\ Len(wire'[ch]) = Len(wire[ch]) + Len(fs)
           /\ Len(fs) \in Nat /\ Len(wire[ch]) \in Nat
           /\ \A k \in 1..Len(wire[ch]) : wire'[ch][k] = wire[ch][k]
           /\ \A k \in 1..Len(fs) : wire'[ch][Len(wire[ch]) + k] = fs[k]
<1> DEFINE G == Frame(Len(proofs), Len(msgs))
<1>1. wire \in [Channels -> Seq(G)]
  BY DEF IInv, TypePeer
<1>2. wire' = [wire EXCEPT ![ch] = wire[ch] \o fs]
  BY <1>1 DEF Put
<1> DEFINE w == wire[ch]
<1>3. w \in Seq(G)
  <2> HIDE DEF G
  <2> QED
    BY <1>1
<1> HIDE DEF G, w
<1>4. w \in Seq(F \cup G) /\ fs \in Seq(F \cup G)
  BY <1>3, SeqGrows
<1>5. /\ Len(w \o fs) = Len(w) + Len(fs) /\ Len(w) \in Nat /\ Len(fs) \in Nat
      /\ \A k \in 1..(Len(w) + Len(fs)) :
           (w \o fs)[k] = IF k <= Len(w) THEN w[k] ELSE fs[k - Len(w)]
  BY <1>4, ConcatProperties, LenProperties
<1>6. \A k \in 1..Len(w) : (w \o fs)[k] = w[k]
  BY <1>5
<1>7. \A k \in 1..Len(fs) : (w \o fs)[Len(w) + k] = fs[k]
  <2> SUFFICES ASSUME NEW k \in 1..Len(fs) PROVE (w \o fs)[Len(w) + k] = fs[k]
    OBVIOUS
  <2>1. /\ Len(w) + k \in 1..(Len(w) + Len(fs)) /\ ~(Len(w) + k <= Len(w))
        /\ Len(w) + k - Len(w) = k
    BY <1>5
  <2> QED
    BY <1>5, <2>1
<1>8. wire'[ch] = w \o fs /\ \A x \in Channels : x # ch => wire'[x] = wire[x]
  BY <1>1, <1>2 DEF w
<1> QED
  BY <1>5, <1>6, <1>7, <1>8 DEF w

\* Reading moves what stands behind the frame one place up.
LEMMA TakeShifts ==
    ASSUME IInv, NEW ch \in Channels, wire[ch] # <<>>, Take(ch)
    PROVE  /\ \A x \in Channels : x # ch => wire'[x] = wire[x]
           /\ Len(wire'[ch]) = Len(wire[ch]) - 1
           /\ Len(wire[ch]) \in Nat /\ Len(wire[ch]) > 0 /\ Head(wire[ch]) = wire[ch][1]
           /\ \A k \in 1..Len(wire'[ch]) : wire'[ch][k] = wire[ch][k + 1]
<1> DEFINE G == Frame(Len(proofs), Len(msgs))
<1>1. wire \in [Channels -> Seq(G)]
  BY DEF IInv, TypePeer
<1>2. wire' = [wire EXCEPT ![ch] = Tail(wire[ch])]
  BY <1>1 DEF Take
<1> DEFINE w == wire[ch]
<1>3. w \in Seq(G) /\ w # <<>>
  <2> HIDE DEF G
  <2> QED
    BY <1>1
<1> HIDE DEF G, w
<1>4. /\ Len(Tail(w)) = Len(w) - 1 /\ Head(w) = w[1]
      /\ \A k \in 1..Len(Tail(w)) : Tail(w)[k] = w[k + 1]
      /\ Len(w) \in Nat /\ Len(w) > 0
  BY <1>3, HeadTailProperties, LenProperties, EmptySeq
<1>5. wire'[ch] = Tail(w) /\ \A x \in Channels : x # ch => wire'[x] = wire[x]
  BY <1>1, <1>2 DEF w
<1> QED
  BY <1>4, <1>5 DEF w

\* The place that what stands at place k of channel x after a read had before.
Before(ch, x, k) == IF x = ch THEN k + 1 ELSE k

LEMMA TakeMoves ==
    ASSUME IInv, NEW ch \in Channels, wire[ch] # <<>>, Take(ch), proofs' = proofs, msgs' = msgs,
           NEW x \in Channels, NEW k \in Places
    PROVE  /\ Before(ch, x, k) \in Places
           /\ MsgAt(x, k)' => MsgAt(x, Before(ch, x, k)) /\ Named(x, k)' = Named(x, Before(ch, x, k))
           /\ ProofAt(x, k)' <=> ProofAt(x, Before(ch, x, k))
           /\ \A c : /\ Proven(x, k, c)' <=> Proven(x, Before(ch, x, k), c)
                     /\ ProofOf(x, k, c)' <=> ProofOf(x, Before(ch, x, k), c)
<1>1. /\ \A y \in Channels : y # ch => wire'[y] = wire[y]
      /\ Len(wire'[ch]) = Len(wire[ch]) - 1 /\ Len(wire[ch]) \in Nat
      /\ \A j \in 1..Len(wire'[ch]) : wire'[ch][j] = wire[ch][j + 1]
  BY TakeShifts
<1>2. CASE x # ch
  <2>1. wire'[x] = wire[x] /\ Before(ch, x, k) = k
    BY <1>1, <1>2 DEF Before
  <2> QED
    BY <2>1 DEF MsgAt, ProofAt, Named, Proven, ProofOf
<1>3. CASE x = ch
  <2>1. Before(ch, x, k) = k + 1 /\ k + 1 \in Places
    BY <1>3 DEF Before, Places
  <2>2. k \in 1..Len(wire'[x]) <=> k + 1 \in 1..Len(wire[x])
    BY <1>1, <1>3 DEF Places
  <2>3. k \in 1..Len(wire'[x]) => wire'[x][k] = wire[x][k + 1]
    BY <1>1, <1>3
  <2> QED
    BY <2>1, <2>2, <2>3 DEF MsgAt, ProofAt, Named, Proven, ProofOf
<1> QED
  BY <1>2, <1>3

LEMMA TakeKeepsSingly ==
    ASSUME IInv, Unread, Singly, NEW ch \in Channels, wire[ch] # <<>>, Take(ch),
           proofs' = proofs, msgs' = msgs,
           \A i \in 1..Len(msgs) :
               (MsgAt(ch, 1) /\ i = Named(ch, 1)) \/ outcome'[i] = outcome[i]
    PROVE  Unread' /\ Singly'
<1>1. \A x \in Channels, k \in Places :
        /\ Before(ch, x, k) \in Places
        /\ MsgAt(x, k)' => MsgAt(x, Before(ch, x, k)) /\ Named(x, k)' = Named(x, Before(ch, x, k))
  BY TakeMoves
<1>2. ASSUME NEW x \in Channels, NEW k \in Places, MsgAt(x, k)'
      PROVE  outcome'[Named(x, k)'] = "sent"
  <2> DEFINE b == Before(ch, x, k)
  <2>1. b \in Places /\ MsgAt(x, b) /\ Named(x, k)' = Named(x, b)
    BY <1>1, <1>2
  <2>2. outcome[Named(x, b)] = "sent" /\ Named(x, b) \in 1..Len(msgs)
    BY <2>1, FramesAre DEF Unread
  <2>3. ~(x = ch /\ b = 1)
    BY DEF Before, Places
  <2>4. 1 \in Places
    BY DEF Places
  <2>5. ~(MsgAt(ch, 1) /\ Named(x, b) = Named(ch, 1))
    BY <2>1, <2>3, <2>4 DEF Singly
  <2> QED
    BY <2>1, <2>2, <2>5
<1>3. Unread'
  BY <1>2 DEF Unread
<1>4. ASSUME NEW x \in Channels, NEW y \in Channels, NEW j \in Places, NEW k \in Places,
             MsgAt(x, j)', MsgAt(y, k)', Named(x, j)' = Named(y, k)'
      PROVE  x = y /\ j = k
  <2>1. /\ Before(ch, x, j) \in Places /\ Before(ch, y, k) \in Places
        /\ MsgAt(x, Before(ch, x, j)) /\ MsgAt(y, Before(ch, y, k))
        /\ Named(x, Before(ch, x, j)) = Named(y, Before(ch, y, k))
    BY <1>1, <1>4
  <2>2. x = y /\ Before(ch, x, j) = Before(ch, y, k)
    BY <2>1 DEF Singly
  <2> QED
    BY <2>2 DEF Before, Places
<1>5. Singly'
  BY <1>4 DEF Singly
<1> QED
  BY <1>3, <1>5

\* On the control stream a message that was sent behind a proof has it in front, unless
\* that was read; what a stream carries is of its capability; its first frame is no message
\* that was sent behind a proof; and one that is to carry a proof does until it is read.
Escorted ==
    \A k \in Places, c \in Caps : k > 1 /\ Proven(Ctrl, k, c) => ProofOf(Ctrl, k - 1, c)
OnPurpose ==
    \A s \in Streams, k \in Places, c \in Caps :
        Proven(s, k, c) \/ ProofOf(s, k, c) => c = Purpose[s]
Unheralded == \A s \in Streams, c \in Caps : reader[s] = "first" => ~Proven(s, 1, c)
Heralded ==
    \A s \in Streams : writer[s] = "proved" /\ reader[s] = "first" /\ ~closed => ProofAt(s, 1)
Fresh == \A s \in Streams : writer[s] = "unopened" => Len(wire[s]) = 0 /\ reader[s] = "first"
InPlace ==
    /\ Unread /\ Singly /\ Escorted /\ OnPurpose
    /\ Unheralded /\ Heralded /\ Fresh

\* Streams whose proof was read and whose operation was not; proofs cover both them and
\* the message at the head of the control stream.
Expecting(c) == {s \in Streams : reader[s] = "second" /\ Purpose[s] = c}
Even(c) ==
    /\ IsFiniteSet(Expecting(c))
    /\ Cardinality(Starved(c)) + Cardinality(Expecting(c)) + One(Proven(Ctrl, 1, c))
         <= Cardinality(Verifying(c)) + evicted[c] + Cardinality(Borrowers(c))
    /\ Cardinality(Starved(c)) <= evicted[c] + Cardinality(Borrowers(c))

CoverInv == InPlace /\ \A c \in Caps : Even(c)

LEMMA TakeKeepsInPlace ==
    ASSUME IInv, InPlace, NEW ch \in Channels, wire[ch] # <<>>, Take(ch),
           proofs' = proofs, msgs' = msgs, writer' = writer, closed' = closed,
           \A i \in 1..Len(msgs) :
               (MsgAt(ch, 1) /\ i = Named(ch, 1)) \/ outcome'[i] = outcome[i],
           \A s \in Streams :
               IF s = ch THEN reader'[s] # "first" ELSE reader'[s] = reader[s]
    PROVE  InPlace'
<1>1. \A x \in Channels, k \in Places :
        \A c : /\ Proven(x, k, c)' <=> Proven(x, Before(ch, x, k), c)
               /\ ProofOf(x, k, c)' <=> ProofOf(x, Before(ch, x, k), c)
  BY TakeMoves
<1>2. Unread' /\ Singly'
  BY TakeKeepsSingly DEF InPlace
<1>c. Ctrl \in Channels /\ Streams \subseteq Channels /\ 1 \in Places
  BY DEF Channels, Places
<1>3. Escorted'
  <2> SUFFICES ASSUME NEW k \in Places, NEW c \in Caps, k > 1, Proven(Ctrl, k, c)'
               PROVE  ProofOf(Ctrl, k - 1, c)'
    BY DEF Escorted
  <2> DEFINE b == Before(ch, Ctrl, k)
  <2>1. k - 1 \in Places /\ b \in Places /\ b > 1 /\ b - 1 = Before(ch, Ctrl, k - 1)
    BY DEF Before, Places
  <2>2. Proven(Ctrl, b, c)
    BY <1>1, <1>c
  <2>3. ProofOf(Ctrl, b - 1, c)
    BY <2>1, <2>2 DEF InPlace, Escorted
  <2> QED
    BY <1>1, <1>c, <2>1, <2>3
<1>4. OnPurpose'
  <2> SUFFICES ASSUME NEW s \in Streams, NEW k \in Places, NEW c \in Caps,
                      Proven(s, k, c)' \/ ProofOf(s, k, c)'
               PROVE  c = Purpose[s]
    BY DEF OnPurpose
  <2>1. Before(ch, s, k) \in Places
    BY DEF Before, Places
  <2>2. Proven(s, Before(ch, s, k), c) \/ ProofOf(s, Before(ch, s, k), c)
    BY <1>1, <1>c
  <2> QED
    BY <2>1, <2>2 DEF InPlace, OnPurpose
<1>5. \A s \in Streams : s # ch => wire'[s] = wire[s]
  BY <1>c, TakeShifts
<1>6. Unheralded'
  <2> SUFFICES ASSUME NEW s \in Streams, NEW c \in Caps, reader'[s] = "first"
               PROVE  ~Proven(s, 1, c)'
    BY DEF Unheralded
  <2>1. s # ch /\ reader[s] = "first"
    OBVIOUS
  <2>2. Before(ch, s, 1) = 1
    BY <2>1 DEF Before
  <2>3. Proven(s, 1, c)' <=> Proven(s, 1, c)
    BY <1>1, <1>c, <2>2
  <2> QED
    BY <2>1, <2>3 DEF InPlace, Unheralded
<1>7. Heralded'
  <2> SUFFICES ASSUME NEW s \in Streams, writer[s] = "proved", reader'[s] = "first", ~closed
               PROVE  ProofAt(s, 1)'
    BY DEF Heralded
  <2>1. s # ch /\ reader[s] = "first"
    OBVIOUS
  <2> QED
    BY <1>5, <2>1 DEF InPlace, Heralded, ProofAt
<1>8. Fresh'
  <2> SUFFICES ASSUME NEW s \in Streams, writer[s] = "unopened"
               PROVE  Len(wire'[s]) = 0 /\ reader'[s] = "first"
    BY DEF Fresh
  <2>1. Len(wire[s]) = 0 /\ reader[s] = "first"
    BY DEF InPlace, Fresh
  <2>2. s # ch
    BY <2>1, TakeShifts
  <2> QED
    BY <1>5, <2>1, <2>2
<1> QED
  BY <1>2, <1>3, <1>4, <1>6, <1>7, <1>8 DEF InPlace

\* The peer's records only grow.
Kept == /\ \A n \in 1..Len(proofs) : proofs'[n] = proofs[n]
        /\ \A i \in 1..Len(msgs) : msgs'[i] = msgs[i]

LEMMA WriteMoves ==
    ASSUME IInv, NEW ch \in Channels, NEW F, NEW fs \in Seq(F), Put(ch, fs), Kept
    PROVE  /\ Len(wire[ch]) \in Nat /\ Len(fs) \in Nat
           /\ \A x \in Channels, k \in Places :
                ~(x = ch /\ k > Len(wire[ch])) =>
                  /\ MsgAt(x, k)' <=> MsgAt(x, k)
                  /\ ProofAt(x, k)' <=> ProofAt(x, k)
                  /\ MsgAt(x, k) => Named(x, k)' = Named(x, k)
                  /\ \A c : /\ Proven(x, k, c)' <=> Proven(x, k, c)
                            /\ ProofOf(x, k, c)' <=> ProofOf(x, k, c)
           /\ \A k \in Places : k > Len(wire[ch]) =>
                LET q == k - Len(wire[ch]) IN
                /\ MsgAt(ch, k)' <=> q \in 1..Len(fs) /\ fs[q].kind = "msg"
                /\ ProofAt(ch, k)' <=> q \in 1..Len(fs) /\ fs[q].kind = "proof"
                /\ q \in 1..Len(fs) => Named(ch, k)' = fs[q].n
<1>1. /\ \A x \in Channels : x # ch => wire'[x] = wire[x]
      /\ Len(wire'[ch]) = Len(wire[ch]) + Len(fs)
      /\ Len(fs) \in Nat /\ Len(wire[ch]) \in Nat
      /\ \A k \in 1..Len(wire[ch]) : wire'[ch][k] = wire[ch][k]
      /\ \A k \in 1..Len(fs) : wire'[ch][Len(wire[ch]) + k] = fs[k]
  BY PutAdds
<1>2. ASSUME NEW x \in Channels, NEW k \in Places, ~(x = ch /\ k > Len(wire[ch]))
      PROVE  /\ MsgAt(x, k)' <=> MsgAt(x, k)
             /\ ProofAt(x, k)' <=> ProofAt(x, k)
             /\ MsgAt(x, k) => Named(x, k)' = Named(x, k)
             /\ \A c : /\ Proven(x, k, c)' <=> Proven(x, k, c)
                       /\ ProofOf(x, k, c)' <=> ProofOf(x, k, c)
  <2>1. (k \in 1..Len(wire'[x]) <=> k \in 1..Len(wire[x])) /\ Len(wire[x]) \in Nat
    BY <1>1, <1>2, FramesAre DEF Places
  <2>2. k \in 1..Len(wire[x]) => wire'[x][k] = wire[x][k]
    BY <1>1, <1>2
  <2>3. /\ MsgAt(x, k) => Named(x, k) \in 1..Len(msgs)
        /\ ProofAt(x, k) => Named(x, k) \in 1..Len(proofs)
    BY FramesAre
  <2>4. /\ MsgAt(x, k)' <=> MsgAt(x, k)
        /\ ProofAt(x, k)' <=> ProofAt(x, k)
        /\ MsgAt(x, k) \/ ProofAt(x, k) => Named(x, k)' = Named(x, k)
    BY <2>1, <2>2 DEF MsgAt, ProofAt, Named
  <2> QED
    BY <2>3, <2>4 DEF Kept, Proven, ProofOf
<1>3. ASSUME NEW k \in Places, k > Len(wire[ch])
      PROVE  LET q == k - Len(wire[ch]) IN
             /\ MsgAt(ch, k)' <=> q \in 1..Len(fs) /\ fs[q].kind = "msg"
             /\ ProofAt(ch, k)' <=> q \in 1..Len(fs) /\ fs[q].kind = "proof"
             /\ q \in 1..Len(fs) => Named(ch, k)' = fs[q].n
  <2> DEFINE q == k - Len(wire[ch])
  <2>1. k = Len(wire[ch]) + q /\ (k \in 1..Len(wire'[ch]) <=> q \in 1..Len(fs))
    BY <1>1, <1>3 DEF Places
  <2>2. q \in 1..Len(fs) => wire'[ch][k] = fs[q]
    BY <1>1, <2>1
  <2> HIDE DEF q
  <2>3. /\ MsgAt(ch, k)' <=> q \in 1..Len(fs) /\ fs[q].kind = "msg"
        /\ ProofAt(ch, k)' <=> q \in 1..Len(fs) /\ fs[q].kind = "proof"
        /\ q \in 1..Len(fs) => Named(ch, k)' = fs[q].n
    BY <2>1, <2>2 DEF MsgAt, ProofAt, Named
  <2> QED
    BY <2>3 DEF q
<1> QED
  BY <1>1, <1>2, <1>3

\* What a write may hold: at most one message, which is new, and is undecided.
OneNew(fs) ==
    /\ \A k \in 1..Len(fs) : fs[k].kind = "msg" =>
         fs[k].n = Len(msgs) + 1 /\ outcome'[Len(msgs) + 1] = "sent"
    /\ \A j, k \in 1..Len(fs) : fs[j].kind = "msg" /\ fs[k].kind = "msg" => j = k
Undisturbed == \A i \in 1..Len(msgs) : outcome'[i] = outcome[i]

LEMMA WriteKeepsSingly ==
    ASSUME IInv, Unread, Singly, NEW ch \in Channels, NEW F, NEW fs \in Seq(F), Put(ch, fs),
           Kept, OneNew(fs), Undisturbed
    PROVE  Unread' /\ Singly'
<1> DEFINE L == Len(wire[ch])
<1> DEFINE New(x, k) == x = ch /\ k > L
<1>0. L \in Nat /\ Len(fs) \in Nat /\ Len(msgs) \in Nat
  BY PutAdds, Lengths
<1>1. \A x \in Channels, k \in Places : ~New(x, k) /\ MsgAt(x, k)' =>
        /\ MsgAt(x, k) /\ Named(x, k)' = Named(x, k) /\ Named(x, k) \in 1..Len(msgs)
  BY WriteMoves, FramesAre
<1>2. \A k \in Places : k > L /\ MsgAt(ch, k)' =>
        /\ k - L \in 1..Len(fs) /\ fs[k - L].kind = "msg" /\ Named(ch, k)' = fs[k - L].n
  BY WriteMoves
<1> HIDE DEF L
<1>3. \A x \in Channels, k \in Places : New(x, k) /\ MsgAt(x, k)' =>
        /\ Named(x, k)' = Len(msgs) + 1 /\ outcome'[Len(msgs) + 1] = "sent"
  BY <1>2 DEF OneNew
<1>4. \A x, y \in Channels, j, k \in Places :
        New(x, j) /\ New(y, k) /\ MsgAt(x, j)' /\ MsgAt(y, k)' => x = y /\ j = k
  <2> SUFFICES ASSUME NEW j \in Places, NEW k \in Places, j > L, k > L,
                      MsgAt(ch, j)', MsgAt(ch, k)'
               PROVE  j = k
    OBVIOUS
  <2>1. j - L = k - L
    BY <1>2 DEF OneNew
  <2> QED
    BY <1>0, <2>1 DEF Places
<1> HIDE DEF New
<1>5. Unread'
  <2> SUFFICES ASSUME NEW x \in Channels, NEW k \in Places, MsgAt(x, k)'
               PROVE  outcome'[Named(x, k)'] = "sent"
    BY DEF Unread
  <2>1. CASE New(x, k)
    BY <1>3, <2>1
  <2>2. CASE ~New(x, k)
    BY <1>1, <2>2 DEF Unread, Undisturbed
  <2> QED
    BY <2>1, <2>2
<1>6. Singly'
  <2> SUFFICES ASSUME NEW x \in Channels, NEW y \in Channels, NEW j \in Places, NEW k \in Places,
                      MsgAt(x, j)', MsgAt(y, k)', Named(x, j)' = Named(y, k)'
               PROVE  x = y /\ j = k
    BY DEF Singly
  <2>1. CASE New(x, j) /\ New(y, k)
    BY <1>4, <2>1
  <2>2. CASE ~New(x, j) /\ ~New(y, k)
    BY <1>1, <2>2 DEF Singly
  <2>3. CASE New(x, j) /\ ~New(y, k)
    BY <1>0, <1>1, <1>3, <2>3
  <2>4. CASE ~New(x, j) /\ New(y, k)
    BY <1>0, <1>1, <1>3, <2>4
  <2> QED
    BY <2>1, <2>2, <2>3, <2>4
<1> QED
  BY <1>5, <1>6

\* A write on the control stream puts a proof in front of a message that has one.
Escorts(fs) ==
    \A k \in 1..Len(fs) : fs[k].kind = "msg" /\ msgs'[fs[k].n].proven =>
        /\ k > 1 /\ fs[k - 1].kind = "proof"
        /\ proofs'[fs[k - 1].n].cap = msgs'[fs[k].n].cap

LEMMA ControlWriteKeeps ==
    ASSUME IInv, InPlace, NEW F, NEW fs \in Seq(F), Put(Ctrl, fs), Kept, OneNew(fs),
           Undisturbed, Escorts(fs), writer' = writer, reader' = reader, closed' = closed
    PROVE  InPlace' /\ \A c : Proven(Ctrl, 1, c)' => Proven(Ctrl, 1, c)
<1> DEFINE L == Len(wire[Ctrl])
<1>c. Ctrl \in Channels /\ Streams \subseteq Channels /\ Ctrl \notin Streams /\ 1 \in Places
  BY CtrlIsNoStream DEF Channels, Places
<1>0. L \in Nat /\ Len(fs) \in Nat
  BY <1>c, PutAdds
<1>1. \A x \in Channels, k \in Places : ~(x = Ctrl /\ k > L) =>
        /\ ProofAt(x, k)' <=> ProofAt(x, k)
        /\ \A c : /\ Proven(x, k, c)' <=> Proven(x, k, c)
                  /\ ProofOf(x, k, c)' <=> ProofOf(x, k, c)
  BY <1>c, WriteMoves
<1>2. \A k \in Places : k > L =>
        /\ MsgAt(Ctrl, k)' <=> k - L \in 1..Len(fs) /\ fs[k - L].kind = "msg"
        /\ ProofAt(Ctrl, k)' <=> k - L \in 1..Len(fs) /\ fs[k - L].kind = "proof"
        /\ k - L \in 1..Len(fs) => Named(Ctrl, k)' = fs[k - L].n
  BY <1>c, WriteMoves
<1>3. \A s \in Streams : wire'[s] = wire[s]
  BY <1>c, PutAdds
<1> HIDE DEF L
<1>4. \A k \in Places : \A c : k > L /\ Proven(Ctrl, k, c)' =>
        /\ k - L \in 1..Len(fs) /\ k - L > 1
        /\ ProofOf(Ctrl, k - 1, c)'
  <2> SUFFICES ASSUME NEW k \in Places, NEW c, k > L, Proven(Ctrl, k, c)'
               PROVE  /\ k - L \in 1..Len(fs) /\ k - L > 1
                      /\ ProofOf(Ctrl, k - 1, c)'
    OBVIOUS
  <2>1. /\ k - L \in 1..Len(fs) /\ fs[k - L].kind = "msg"
        /\ msgs'[fs[k - L].n].proven /\ msgs'[fs[k - L].n].cap = c
    BY <1>2 DEF Proven
  <2>2. /\ k - L > 1 /\ fs[k - L - 1].kind = "proof"
        /\ proofs'[fs[k - L - 1].n].cap = c
    BY <2>1 DEF Escorts
  <2>3. /\ k - 1 \in Places /\ k - 1 > L /\ (k - 1) - L = k - L - 1
        /\ (k - 1) - L \in 1..Len(fs)
    BY <1>0, <2>1, <2>2 DEF Places
  <2>4. ProofAt(Ctrl, k - 1)' /\ Named(Ctrl, k - 1)' = fs[k - L - 1].n
    BY <1>2, <2>2, <2>3
  <2> QED
    BY <2>1, <2>2, <2>4 DEF ProofOf
<1>5. Unread' /\ Singly'
  BY <1>c, WriteKeepsSingly DEF InPlace
<1>6. Escorted'
  <2> SUFFICES ASSUME NEW k \in Places, NEW c \in Caps, k > 1, Proven(Ctrl, k, c)'
               PROVE  ProofOf(Ctrl, k - 1, c)'
    BY DEF Escorted
  <2>1. CASE k > L
    BY <1>4, <2>1
  <2>2. CASE ~(k > L)
    <3>1. k - 1 \in Places /\ ~(k - 1 > L)
      BY <1>0, <2>2 DEF Places
    <3>2. ProofOf(Ctrl, k - 1, c)
      BY <1>1, <1>c, <2>2 DEF InPlace, Escorted
    <3> QED
      BY <1>1, <1>c, <3>1, <3>2
  <2> QED
    BY <2>1, <2>2
<1>7. \A s \in Streams, k \in Places :
        /\ ProofAt(s, k)' <=> ProofAt(s, k)
        /\ \A c : /\ Proven(s, k, c)' <=> Proven(s, k, c)
                  /\ ProofOf(s, k, c)' <=> ProofOf(s, k, c)
  BY <1>1, <1>c
<1>8. OnPurpose'
  <2> SUFFICES ASSUME NEW s \in Streams, NEW k \in Places, NEW c \in Caps,
                      Proven(s, k, c)' \/ ProofOf(s, k, c)'
               PROVE  c = Purpose[s]
    BY DEF OnPurpose
  <2> QED
    BY <1>7 DEF InPlace, OnPurpose
<1>9. Unheralded'
  <2> SUFFICES ASSUME NEW s \in Streams, NEW c \in Caps, reader[s] = "first"
               PROVE  ~Proven(s, 1, c)'
    BY DEF Unheralded
  <2> QED
    BY <1>7, <1>c DEF InPlace, Unheralded
<1>10. Heralded'
  <2> SUFFICES ASSUME NEW s \in Streams, writer[s] = "proved", reader[s] = "first", ~closed
               PROVE  ProofAt(s, 1)'
    BY DEF Heralded
  <2> QED
    BY <1>7, <1>c DEF InPlace, Heralded
<1>11. Fresh'
  BY <1>3 DEF InPlace, Fresh
<1>12. ASSUME NEW c, Proven(Ctrl, 1, c)' PROVE Proven(Ctrl, 1, c)
  <2>1. ~(1 > L)
    BY <1>0, <1>4, <1>12, <1>c
  <2> QED
    BY <1>1, <1>12, <1>c, <2>1
<1> QED
  BY <1>5, <1>6, <1>8, <1>9, <1>10, <1>11, <1>12 DEF InPlace

\* A write on a stream is of its capability: a proof on a fresh one, an operation
\* behind a proof or without one.
LEMMA StreamWriteKeeps ==
    ASSUME IInv, InPlace, NEW s \in Streams, NEW F, NEW f \in F, Put(s, <<f>>), Kept,
           OneNew(<<f>>), Undisturbed, reader' = reader, closed' = closed, ~closed,
           f.kind = "proof" => /\ writer[s] = "unopened" /\ proofs'[f.n].cap = Purpose[s],
           f.kind = "msg" =>
               /\ writer'[s] = "written" /\ msgs'[f.n].cap = Purpose[s]
               /\ writer[s] = "proved" \/ ~msgs'[f.n].proven,
           f.kind \in {"proof", "msg"},
           writer'[s] # "unopened", \A t \in Streams : t # s => writer'[t] = writer[t]
    PROVE  InPlace' /\ \A c : Proven(Ctrl, 1, c)' => Proven(Ctrl, 1, c)
<1> DEFINE L == Len(wire[s])
<1>c. /\ Ctrl \in Channels /\ Streams \subseteq Channels /\ s # Ctrl /\ 1 \in Places
      /\ s \in Channels
  BY CtrlIsNoStream DEF Channels, Places
<1>s. <<f>> \in Seq(F) /\ Len(<<f>>) = 1 /\ <<f>>[1] = f /\ 1 \in 1..1
  OBVIOUS
<1>0. L \in Nat
  BY <1>c, FramesAre
<1>1. \A x \in Channels, k \in Places : ~(x = s /\ k > L) =>
        /\ ProofAt(x, k)' <=> ProofAt(x, k)
        /\ \A c : /\ Proven(x, k, c)' <=> Proven(x, k, c)
                  /\ ProofOf(x, k, c)' <=> ProofOf(x, k, c)
  BY <1>c, <1>s, WriteMoves
<1>2. \A k \in Places : k > L =>
        /\ MsgAt(s, k)' <=> k - L = 1 /\ f.kind = "msg"
        /\ ProofAt(s, k)' <=> k - L = 1 /\ f.kind = "proof"
        /\ k - L = 1 => Named(s, k)' = f.n
  <2> SUFFICES ASSUME NEW k \in Places, k > L
               PROVE  /\ MsgAt(s, k)' <=> k - L = 1 /\ f.kind = "msg"
                      /\ ProofAt(s, k)' <=> k - L = 1 /\ f.kind = "proof"
                      /\ k - L = 1 => Named(s, k)' = f.n
    OBVIOUS
  <2> DEFINE q == k - L
  <2> DEFINE fs == <<f>>
  <2>0. fs \in Seq(F) /\ Put(s, fs) /\ Len(fs) = 1 /\ fs[1] = f
    BY <1>s
  <2> HIDE DEF fs
  <2>1. /\ MsgAt(s, k)' <=> q \in 1..Len(fs) /\ fs[q].kind = "msg"
        /\ ProofAt(s, k)' <=> q \in 1..Len(fs) /\ fs[q].kind = "proof"
        /\ q \in 1..Len(fs) => Named(s, k)' = fs[q].n
    <3>1. fs \in Seq(F) /\ Put(s, fs) /\ s \in Channels
      BY <1>c, <2>0
    <3>2. \A j \in Places : j > Len(wire[s]) =>
            /\ MsgAt(s, j)' <=> j - Len(wire[s]) \in 1..Len(fs) /\ fs[j - Len(wire[s])].kind = "msg"
            /\ ProofAt(s, j)' <=> j - Len(wire[s]) \in 1..Len(fs) /\ fs[j - Len(wire[s])].kind = "proof"
            /\ j - Len(wire[s]) \in 1..Len(fs) => Named(s, j)' = fs[j - Len(wire[s])].n
      BY <3>1, WriteMoves
    <3> QED
      BY <3>2 DEF L
  <2>2. q \in 1..1 <=> q = 1
    BY <1>0 DEF Places
  <2> HIDE DEF q
  <2>3. MsgAt(s, k)' <=> q = 1 /\ f.kind = "msg"
    BY <2>0, <2>1, <2>2
  <2>4. ProofAt(s, k)' <=> q = 1 /\ f.kind = "proof"
    BY <2>0, <2>1, <2>2
  <2>5. q = 1 => Named(s, k)' = f.n
    BY <2>0, <2>1, <2>2
  <2> QED
    BY <2>3, <2>4, <2>5 DEF q
<1>3. \A x \in Channels : x # s => wire'[x] = wire[x]
  BY <1>c, <1>s, PutAdds
<1>l. Len(wire'[s]) = L + 1
  BY <1>c, <1>s, PutAdds
<1> HIDE DEF L
<1>4. Unread' /\ Singly'
  BY <1>c, <1>s, WriteKeepsSingly DEF InPlace
<1>5. Escorted'
  <2> SUFFICES ASSUME NEW k \in Places, NEW c \in Caps, k > 1, Proven(Ctrl, k, c)'
               PROVE  ProofOf(Ctrl, k - 1, c)'
    BY DEF Escorted
  <2>1. k - 1 \in Places
    BY DEF Places
  <2> QED
    BY <1>1, <1>c, <2>1 DEF InPlace, Escorted
<1>6. OnPurpose'
  <2> SUFFICES ASSUME NEW t \in Streams, NEW k \in Places, NEW c \in Caps,
                      Proven(t, k, c)' \/ ProofOf(t, k, c)'
               PROVE  c = Purpose[t]
    BY DEF OnPurpose
  <2>1. CASE t = s /\ k > L
    BY <1>2, <2>1 DEF Proven, ProofOf
  <2>2. CASE ~(t = s /\ k > L)
    <3>1. Proven(t, k, c) \/ ProofOf(t, k, c)
      BY <1>1, <1>c, <2>2
    <3> QED
      BY <3>1 DEF InPlace, OnPurpose
  <2> QED
    BY <2>1, <2>2
<1>7. Unheralded'
  <2> SUFFICES ASSUME NEW t \in Streams, NEW c \in Caps, reader[t] = "first", Proven(t, 1, c)'
               PROVE  FALSE
    BY DEF Unheralded
  <2>1. CASE t = s /\ 1 > L
    <3>1. f.kind = "msg" /\ msgs'[f.n].proven
      BY <1>2, <1>c, <2>1 DEF Proven
    <3>2. ProofAt(s, 1)
      BY <2>1, <3>1 DEF InPlace, Heralded
    <3> QED
      BY <1>0, <2>1, <3>2 DEF ProofAt, L
  <2>2. CASE ~(t = s /\ 1 > L)
    BY <1>1, <1>c, <2>2 DEF InPlace, Unheralded
  <2> QED
    BY <2>1, <2>2
<1>8. Heralded'
  <2> SUFFICES ASSUME NEW t \in Streams, writer'[t] = "proved", reader[t] = "first"
               PROVE  ProofAt(t, 1)'
    BY DEF Heralded
  <2>1. CASE t = s
    <3>1. f.kind = "proof" /\ writer[s] = "unopened"
      BY <2>1
    <3>2. L = 0
      BY <3>1 DEF InPlace, Fresh, L
    <3> QED
      BY <1>2, <1>c, <2>1, <3>1, <3>2
  <2>2. CASE t # s
    <3>1. ProofAt(t, 1)
      BY <2>2 DEF InPlace, Heralded
    <3> QED
      BY <1>1, <1>c, <2>2, <3>1
  <2> QED
    BY <2>1, <2>2
<1>9. Fresh'
  <2> SUFFICES ASSUME NEW t \in Streams, writer'[t] = "unopened"
               PROVE  Len(wire'[t]) = 0 /\ reader[t] = "first"
    BY DEF Fresh
  <2> QED
    BY <1>3, <1>c DEF InPlace, Fresh
<1>10. ASSUME NEW c, Proven(Ctrl, 1, c)' PROVE Proven(Ctrl, 1, c)
  BY <1>1, <1>10, <1>c
<1> QED
  BY <1>4, <1>5, <1>6, <1>7, <1>8, <1>9, <1>10 DEF InPlace

\* A channel that is emptied, whole, has lost nothing that others refer to.
LEMMA EmptyKeepsInPlace ==
    ASSUME IInv, InPlace, proofs' = proofs, msgs' = msgs, outcome' = outcome,
           \A x \in Channels : wire'[x] = wire[x] \/ wire'[x] = <<>>,
           \A s \in Streams : reader'[s] = "first" => reader[s] = "first",
           \A s \in Streams :
               \/ writer'[s] = "reset"
               \/ closed'
               \/ writer'[s] = writer[s] /\ wire'[s] = wire[s],
           \A s \in Streams :
               writer'[s] = "unopened" => writer[s] = "unopened" /\ reader'[s] = reader[s],
           closed => closed'
    PROVE  InPlace' /\ \A c : Proven(Ctrl, 1, c)' => Proven(Ctrl, 1, c)
<1>1. ASSUME NEW x \in Channels, NEW k \in Places, MsgAt(x, k)' \/ ProofAt(x, k)'
      PROVE  wire'[x] = wire[x]
  <2>1. wire'[x] # <<>>
    <3>1. ASSUME wire'[x] = <<>> PROVE FALSE
      <4>1. Len(wire'[x]) = 0
        BY <3>1
      <4> QED
        BY <1>1, <4>1 DEF MsgAt, ProofAt
    <3> QED
      BY <3>1
  <2> QED
    BY <2>1
<1>c. Ctrl \in Channels /\ Streams \subseteq Channels /\ 1 \in Places
  BY DEF Channels, Places
<1>2. \A x \in Channels, k \in Places :
        /\ MsgAt(x, k)' => MsgAt(x, k) /\ Named(x, k)' = Named(x, k)
        /\ \A c : /\ Proven(x, k, c)' => Proven(x, k, c) /\ wire'[x] = wire[x]
                  /\ ProofOf(x, k, c)' => ProofOf(x, k, c)
  BY <1>1 DEF MsgAt, ProofAt, Named, Proven, ProofOf
<1>3. Unread' /\ Singly'
  BY <1>2 DEF InPlace, Unread, Singly
<1>4. Escorted'
  <2> SUFFICES ASSUME NEW k \in Places, NEW c \in Caps, k > 1, Proven(Ctrl, k, c)'
               PROVE  ProofOf(Ctrl, k - 1, c)'
    BY DEF Escorted
  <2>1. Proven(Ctrl, k, c) /\ wire'[Ctrl] = wire[Ctrl]
    BY <1>2, <1>c
  <2>2. ProofOf(Ctrl, k - 1, c)
    BY <2>1 DEF InPlace, Escorted
  <2> QED
    BY <2>1, <2>2 DEF ProofOf, ProofAt, Named
<1>5. OnPurpose'
  <2> SUFFICES ASSUME NEW s \in Streams, NEW k \in Places, NEW c \in Caps,
                      Proven(s, k, c)' \/ ProofOf(s, k, c)'
               PROVE  c = Purpose[s]
    BY DEF OnPurpose
  <2> QED
    BY <1>2, <1>c DEF InPlace, OnPurpose
<1>6. Unheralded'
  <2> SUFFICES ASSUME NEW s \in Streams, NEW c \in Caps, reader'[s] = "first", Proven(s, 1, c)'
               PROVE  FALSE
    BY DEF Unheralded
  <2> QED
    BY <1>2, <1>c DEF InPlace, Unheralded
<1>7. Heralded'
  <2> SUFFICES ASSUME NEW s \in Streams, writer'[s] = "proved", reader'[s] = "first", ~closed'
               PROVE  ProofAt(s, 1)'
    BY DEF Heralded
  <2>1. writer[s] = "proved" /\ wire'[s] = wire[s] /\ reader[s] = "first"
    OBVIOUS
  <2> QED
    BY <2>1 DEF InPlace, Heralded, ProofAt
<1>8. Fresh'
  <2> SUFFICES ASSUME NEW s \in Streams, writer'[s] = "unopened"
               PROVE  Len(wire'[s]) = 0 /\ reader'[s] = "first"
    BY DEF Fresh
  <2>1. Len(wire[s]) = 0 /\ reader'[s] = "first"
    BY DEF InPlace, Fresh
  <2>2. Len(<<>>) = 0
    OBVIOUS
  <2> QED
    BY <1>c, <2>1, <2>2
<1> QED
  BY <1>2, <1>3, <1>4, <1>5, <1>6, <1>7, <1>8, <1>c DEF InPlace

\* What the peer says, and what does not concern the verifier, leaves the balance.
LEMMA CountsStand ==
    ASSUME IInv, NEW c \in Caps, Even(c), Kept, Undisturbed,
           msgs' \in Seq(Msg), Len(msgs) <= Len(msgs'),
           \A i \in 1..Len(msgs') : i > Len(msgs) => outcome'[i] = "sent",
           pending' = pending, evicted' = evicted,
           \A s \in Streams : reader'[s] = "second" => reader[s] = "second",
           Proven(Ctrl, 1, c)' => Proven(Ctrl, 1, c)
    PROVE  Even(c)'
<1>1. /\ Len(msgs) \in Nat /\ DOMAIN msgs = 1..Len(msgs)
      /\ Len(msgs') \in Nat /\ DOMAIN msgs' = 1..Len(msgs')
  <2>1. Len(msgs') \in Nat /\ DOMAIN msgs' = 1..Len(msgs')
    <3> HIDE DEF Msg
    <3> QED
      OBVIOUS
  <2> QED
    BY <2>1, Lengths
<1>2. Starved(c)' = Starved(c) /\ Borrowers(c)' = Borrowers(c)
  <2>1. \A i \in 1..Len(msgs) : i \in 1..Len(msgs') /\ msgs'[i] = msgs[i] /\ outcome'[i] = outcome[i]
    BY <1>1 DEF Kept, Undisturbed
  <2>2. \A i \in 1..Len(msgs') : i \in 1..Len(msgs) \/ outcome'[i] = "sent"
    BY <1>1
  <2>3. Starved(c)' = Starved(c)
    BY <1>1, <2>1, <2>2 DEF Starved, Of
  <2>4. Borrowers(c)' = Borrowers(c)
    BY <1>1, <2>1, <2>2 DEF Borrowers, Of
  <2> QED
    BY <2>3, <2>4
<1>3. Verifying(c)' = Verifying(c)
  <2>1. pending \in Seq(1..Len(proofs))
    BY DEF IInv, TypeVerifier
  <2>2. \A k \in DOMAIN pending : proofs'[pending[k]] = proofs[pending[k]]
    <3>1. \A k \in DOMAIN pending : pending[k] \in 1..Len(proofs)
      BY <2>1
    <3> QED
      BY <3>1 DEF Kept
  <2> QED
    BY <2>2 DEF Verifying
<1>4. Expecting(c)' \subseteq Expecting(c)
  BY DEF Expecting
<1>5. /\ IsFiniteSet(Expecting(c)') /\ Cardinality(Expecting(c)') <= Cardinality(Expecting(c))
      /\ Cardinality(Expecting(c)') \in Nat /\ Cardinality(Expecting(c)) \in Nat
  BY <1>4, FS_Subset, FS_CardinalityType DEF Even
<1>6. One(Proven(Ctrl, 1, c)') <= One(Proven(Ctrl, 1, c))
      /\ One(Proven(Ctrl, 1, c)') \in {0, 1} /\ One(Proven(Ctrl, 1, c)) \in {0, 1}
  <2>1. CASE Proven(Ctrl, 1, c)'
    BY <2>1 DEF One
  <2>2. CASE ~Proven(Ctrl, 1, c)'
    BY <2>2 DEF One
  <2> QED
    BY <2>1, <2>2
<1>7. /\ Cardinality(Starved(c)) \in Nat /\ Cardinality(Borrowers(c)) \in Nat
      /\ Cardinality(Verifying(c)) \in Nat /\ evicted[c] \in Nat
  BY TalliesAreFinite, VerifyingIs DEF IInv, TypeVerifier
<1>8. /\ Cardinality(Starved(c)) + Cardinality(Expecting(c)) + One(Proven(Ctrl, 1, c))
           <= Cardinality(Verifying(c)) + evicted[c] + Cardinality(Borrowers(c))
      /\ Cardinality(Starved(c)) <= evicted[c] + Cardinality(Borrowers(c))
  BY DEF Even
<1>9. Cardinality(Starved(c)) + Cardinality(Expecting(c)') + One(Proven(Ctrl, 1, c)')
        <= Cardinality(Verifying(c)) + evicted[c] + Cardinality(Borrowers(c))
  BY <1>5, <1>6, <1>7, <1>8
<1> QED
  BY <1>2, <1>3, <1>5, <1>8, <1>9 DEF Even

LEMMA Balance ==
    ASSUME NEW s \in Nat, NEW b \in Nat, NEW v \in Nat, NEW e \in Nat, NEW p \in Nat,
           NEW m \in Nat, NEW z \in Nat,
           NEW t \in Nat, NEW d \in Nat, NEW w \in Nat, NEW f \in Nat, NEW q \in Nat,
           s + e + p <= v + z + b, s <= z + b,
           t + v + b <= s + w + d + m, b <= d, m + f + q <= e + p,
           t = s \/ (t = s + 1 /\ v = 0 /\ m = 1)
    PROVE  t + f + q <= w + z + d /\ t <= z + d
  OBVIOUS

\* Deciding a message leaves the balance, if it was at the head of the control stream or
\* of a stream, and is not there any more.
LEMMA SettledIsEven ==
    ASSUME IInv, NEW c \in Caps, NEW i \in 1..Len(msgs), Even(c), Settled(i, c),
           IsFiniteSet(Expecting(c)'),
           One(Mine(i, c) /\ msgs[i].proven) + Cardinality(Expecting(c)') + One(Proven(Ctrl, 1, c)')
             <= Cardinality(Expecting(c)) + One(Proven(Ctrl, 1, c))
    PROVE  Even(c)'
<1>1. /\ Cardinality(Starved(c)) \in Nat /\ Cardinality(Borrowers(c)) \in Nat
      /\ Cardinality(Verifying(c)) \in Nat /\ evicted[c] \in Nat
  BY TalliesAreFinite, VerifyingIs DEF IInv, TypeVerifier
<1>2. Cardinality(Expecting(c)) \in Nat /\ Cardinality(Expecting(c)') \in Nat
  BY FS_CardinalityType DEF Even
<1>3. /\ One(Proven(Ctrl, 1, c)) \in Nat /\ One(Proven(Ctrl, 1, c)') \in Nat
      /\ One(Mine(i, c) /\ msgs[i].proven) \in Nat
  BY DEF One
<1>4. /\ Cardinality(Starved(c)') \in Nat /\ Cardinality(Verifying(c)') \in Nat
      /\ Cardinality(Borrowers(c)') \in Nat /\ evicted'[c] = evicted[c]
  BY DEF Settled
<1>5. PICK s \in Nat, b \in Nat, v \in Nat, e \in Nat, p \in Nat, m \in Nat, z \in Nat :
        /\ s = Cardinality(Starved(c)) /\ b = Cardinality(Borrowers(c))
        /\ v = Cardinality(Verifying(c)) /\ e = Cardinality(Expecting(c))
        /\ p = One(Proven(Ctrl, 1, c)) /\ z = evicted[c]
        /\ m = One(Mine(i, c) /\ msgs[i].proven)
  BY <1>1, <1>2, <1>3
<1>6. PICK t \in Nat, d \in Nat, w \in Nat, f \in Nat, q \in Nat :
        /\ t = Cardinality(Starved(c)') /\ d = Cardinality(Borrowers(c)')
        /\ w = Cardinality(Verifying(c)') /\ f = Cardinality(Expecting(c)')
        /\ q = One(Proven(Ctrl, 1, c)')
  BY <1>2, <1>3, <1>4
<1>7. s + e + p <= v + z + b /\ s <= z + b
  BY <1>5 DEF Even
<1>8. t + v + b <= s + w + d + m /\ b <= d
  BY <1>5, <1>6 DEF Settled
<1>9. t = s \/ (t = s + 1 /\ v = 0 /\ m = 1)
  BY <1>5, <1>6 DEF Settled, One
<1>10. m + f + q <= e + p
  BY <1>5, <1>6
<1>11. t + f + q <= w + z + d /\ t <= z + d
  BY <1>7, <1>8, <1>9, <1>10, Balance
<1> QED
  BY <1>4, <1>5, <1>6, <1>11 DEF Even

LEMMA IgnoreCounts ==
    ASSUME IInv, NEW i \in 1..Len(msgs), outcome[i] = "sent", Decide(i, "ignored"),
           UNCHANGED verifier, msgs' = msgs, proofs' = proofs, NEW c \in Caps
    PROVE  Settled(i, c)
<1>1. pending' = pending /\ evicted' = evicted
  BY DEF verifier
<1>2. Verifying(c)' = Verifying(c)
  BY <1>1 DEF Verifying
<1>3. /\ Cardinality(Starved(c)')
           = Cardinality(Starved(c)) + One(Mine(i, c) /\ msgs[i].proven /\ "ignored" \in Lacking)
      /\ Cardinality(Borrowers(c)')
           = Cardinality(Borrowers(c)) + One(Mine(i, c) /\ ~msgs[i].proven /\ "ignored" \in Borrowing)
  BY DecideCounts
<1>4. Cardinality(Starved(c)) \in Nat /\ Cardinality(Borrowers(c)) \in Nat
      /\ Cardinality(Verifying(c)) \in Nat
  BY TalliesAreFinite, VerifyingIs
<1>5. "ignored" \notin Lacking /\ "ignored" \notin Borrowing
  BY DEF Lacking, Borrowing
<1>6. Cardinality(Starved(c)') = Cardinality(Starved(c))
      /\ Cardinality(Borrowers(c)') = Cardinality(Borrowers(c))
  BY <1>3, <1>4, <1>5 DEF One
<1>7. One(Mine(i, c) /\ msgs[i].proven) \in {0, 1}
  BY DEF One
<1> QED
  BY <1>1, <1>2, <1>4, <1>6, <1>7 DEF Settled

----------------------------------------------------------------------------
(* The steps keep it.                                                       *)

LEMMA SignAdds ==
    ASSUME IInv, NEW c \in Caps, Sign(c)
    PROVE  /\ \A n \in 1..Len(proofs) : proofs'[n] = proofs[n]
           /\ proofs'[Len(proofs) + 1].cap = c
<1>1. PICK d \in Skews : proofs' = Append(proofs, [cap |-> c, issued |-> now + d])
  BY DEF Sign
<1> DEFINE e == [cap |-> c, issued |-> now + d]
<1>2. proofs \in Seq(Proof) /\ e.cap = c
  BY DEF IInv, TypePeer
<1> HIDE DEF e, Proof
<1>3. /\ \A n \in 1..Len(proofs) : Append(proofs, e)[n] = proofs[n]
      /\ Append(proofs, e)[Len(proofs) + 1] = e
  BY <1>2
<1> QED
  BY <1>1, <1>2, <1>3 DEF e

LEMMA IssueAdds ==
    ASSUME IInv, NEW c \in Caps, NEW b \in BOOLEAN, Issue(c, b)
    PROVE  /\ \A i \in 1..Len(msgs) : msgs'[i] = msgs[i]
           /\ msgs'[Len(msgs) + 1].cap = c /\ msgs'[Len(msgs) + 1].proven = b
           /\ msgs' \in Seq(Msg) /\ Len(msgs') = Len(msgs) + 1
           /\ Undisturbed /\ outcome'[Len(msgs) + 1] = "sent"
<1> DEFINE e == [cap |-> c, proven |-> b]
<1>1. msgs' = Append(msgs, e) /\ outcome' = [outcome EXCEPT ![NextId] = "sent"]
  BY DEF Issue
<1>2. msgs \in Seq(Msg) /\ e.cap = c /\ e.proven = b
  BY DEF IInv, TypePeer
<1>3. msgs' \in Seq(Msg) /\ Len(msgs') = Len(msgs) + 1 /\ Len(msgs') <= MaxMsgs
  BY IssueKeeps
<1>4. Len(msgs) \in Nat /\ Len(msgs) + 1 \in Ids /\ 1..Len(msgs) \subseteq Ids
  BY <1>3, Lengths DEF Ids
<1>5. outcome'[Len(msgs) + 1] = "sent" /\ Undisturbed
  BY <1>1, <1>4 DEF IInv, TypeOutcome, NextId, Undisturbed
<1> HIDE DEF e, Msg
<1>6. /\ \A i \in 1..Len(msgs) : Append(msgs, e)[i] = msgs[i]
      /\ Append(msgs, e)[Len(msgs) + 1] = e
  BY <1>2
<1> QED
  BY <1>1, <1>2, <1>3, <1>5, <1>6 DEF e

LEMMA PeerCovers ==
    ASSUME IInv, CoverInv, InPlace', \A c : Proven(Ctrl, 1, c)' => Proven(Ctrl, 1, c),
           UNCHANGED Elsewhere, Kept, Undisturbed,
           msgs' \in Seq(Msg), Len(msgs) <= Len(msgs'),
           \A i \in 1..Len(msgs') : i > Len(msgs) => outcome'[i] = "sent"
    PROVE  CoverInv'
<1>1. pending' = pending /\ evicted' = evicted /\ reader' = reader
  BY DEF Elsewhere, verifier
<1>2. \A c \in Caps : Even(c)'
  BY <1>1, CountsStand DEF CoverInv
<1> QED
  BY <1>2 DEF CoverInv

LEMMA PeerStepsCover ==
    ASSUME IInv, CoverInv,
           \/ \E c \in Caps \ StreamCaps : Send(c) \/ SendOwned(c)
           \/ \E s \in Streams : OpenOwnedStream(s) \/ WriteRequest(s) \/ OpenPlainStream(s)
           \/ \E n \in Nonces : RepeatProof(n)
    PROVE  CoverInv'
<1> DEFINE P == Len(proofs)
<1> DEFINE M == Len(msgs)
<1>0. InPlace /\ P \in Nat /\ M \in Nat /\ NextNonce = P + 1 /\ NextId = M + 1
      /\ msgs \in Seq(Msg) /\ \A s \in Streams : Purpose[s] \in Caps
  BY Lengths, CapsAreCaps, StreamsHavePurpose DEF CoverInv, NextNonce, NextId, IInv, TypePeer
<1>e. ASSUME UNCHANGED Elsewhere PROVE reader' = reader /\ closed' = closed
  BY <1>e DEF Elsewhere
<1>m. \A k \in 1..(M + 1) : k > M => k = M + 1
  BY <1>0
<1>f. \A n : /\ ProofFrame(n).kind = "proof" /\ ProofFrame(n).n = n
             /\ MsgFrame(n).kind = "msg" /\ MsgFrame(n).n = n
  BY DEF ProofFrame, MsgFrame
<1> HIDE DEF P, M
<1>1. ASSUME NEW c \in Caps, Send(c) PROVE CoverInv'
  <2>1. /\ Issue(c, FALSE) /\ Put(Ctrl, <<MsgFrame(NextId)>>) /\ UNCHANGED Elsewhere
        /\ writer' = writer /\ proofs' = proofs
    BY <1>1 DEF Send
  <2>2. /\ \A i \in 1..M : msgs'[i] = msgs[i]
        /\ ~msgs'[M + 1].proven
        /\ msgs' \in Seq(Msg) /\ Len(msgs') = M + 1
        /\ Undisturbed /\ outcome'[M + 1] = "sent"
    BY <2>1, IssueAdds DEF M
  <2>3. Kept
    BY <2>1, <2>2 DEF Kept, M
  <2> DEFINE fs == <<MsgFrame(NextId)>>
  <2>4. /\ fs \in Seq({MsgFrame(NextId)}) /\ Len(fs) = 1
        /\ \A k \in 1..Len(fs) : k = 1 /\ fs[k].kind = "msg" /\ fs[k].n = M + 1
    BY <1>0, <1>f
  <2>5. Put(Ctrl, fs)
    BY <2>1
  <2> HIDE DEF fs
  <2>6. OneNew(fs) /\ Escorts(fs)
    BY <2>2, <2>4 DEF OneNew, Escorts, M
  <2>7. InPlace' /\ \A d : Proven(Ctrl, 1, d)' => Proven(Ctrl, 1, d)
    BY <1>0, <1>e, <2>1, <2>2, <2>3, <2>4, <2>5, <2>6, ControlWriteKeeps
  <2> QED
    BY <1>0, <1>m, <2>1, <2>2, <2>3, <2>7, PeerCovers DEF M
<1>2. ASSUME NEW c \in Caps, SendOwned(c) PROVE CoverInv'
  <2>1. /\ Sign(c) /\ Issue(c, TRUE) /\ UNCHANGED Elsewhere /\ writer' = writer
        /\ Put(Ctrl, <<ProofFrame(NextNonce), MsgFrame(NextId)>>)
    BY <1>2 DEF SendOwned
  <2>2. /\ \A i \in 1..M : msgs'[i] = msgs[i]
        /\ msgs'[M + 1].cap = c
        /\ msgs' \in Seq(Msg) /\ Len(msgs') = M + 1
        /\ Undisturbed /\ outcome'[M + 1] = "sent"
    BY <2>1, IssueAdds DEF M
  <2>3. Kept /\ proofs'[P + 1].cap = c
    BY <2>1, <2>2, SignAdds DEF Kept, M, P
  <2> DEFINE a == ProofFrame(NextNonce)
  <2> DEFINE b == MsgFrame(NextId)
  <2>4. a.kind = "proof" /\ a.n = P + 1 /\ b.kind = "msg" /\ b.n = M + 1
    BY <1>0, <1>f
  <2> DEFINE fs == <<a, b>>
  <2>5. Put(Ctrl, fs)
    BY <2>1
  <2> HIDE DEF a, b
  <2>6. /\ fs \in Seq({a, b}) /\ Len(fs) = 2 /\ fs[1] = a /\ fs[2] = b
        /\ \A k \in 1..Len(fs) : k = 1 \/ k = 2
    OBVIOUS
  <2> HIDE DEF fs
  <2>7. OneNew(fs) /\ Escorts(fs)
    <3>1. \A k \in 1..Len(fs) : fs[k].kind = "msg" => k = 2 /\ fs[k].n = M + 1
      BY <2>4, <2>6
    <3> QED
      BY <2>2, <2>3, <2>4, <2>6, <3>1 DEF OneNew, Escorts, M
  <2>8. InPlace' /\ \A d : Proven(Ctrl, 1, d)' => Proven(Ctrl, 1, d)
    BY <1>0, <1>e, <2>1, <2>2, <2>3, <2>5, <2>6, <2>7, ControlWriteKeeps
  <2> QED
    BY <1>0, <1>m, <2>1, <2>2, <2>3, <2>8, PeerCovers DEF M
<1>3. ASSUME NEW s \in Streams, OpenOwnedStream(s) PROVE CoverInv'
  <2>1. /\ Sign(Purpose[s]) /\ Put(s, <<ProofFrame(NextNonce)>>) /\ UNCHANGED Elsewhere
        /\ writer' = [writer EXCEPT ![s] = "proved"] /\ writer[s] = "unopened"
        /\ msgs' = msgs /\ outcome' = outcome /\ ~closed
    BY <1>3 DEF OpenOwnedStream
  <2>2. Kept /\ proofs'[P + 1].cap = Purpose[s] /\ Undisturbed
    BY <1>0, <2>1, SignAdds DEF Kept, P, Undisturbed
  <2> DEFINE f == ProofFrame(NextNonce)
  <2>3. f.kind = "proof" /\ f.n = P + 1 /\ f \in {f}
    BY <1>0, <1>f
  <2>4. Put(s, <<f>>)
    BY <2>1
  <2>5. writer'[s] = "proved" /\ \A t \in Streams : t # s => writer'[t] = writer[t]
    BY <2>1 DEF IInv, TypePeer
  <2> HIDE DEF f
  <2>6. OneNew(<<f>>)
    BY <2>3 DEF OneNew
  <2>7. InPlace' /\ \A d : Proven(Ctrl, 1, d)' => Proven(Ctrl, 1, d)
    BY <1>0, <1>e, <2>1, <2>2, <2>3, <2>4, <2>5, <2>6, StreamWriteKeeps
  <2>8. \A k \in 1..Len(msgs') : ~(k > Len(msgs)) /\ Len(msgs) <= Len(msgs')
    BY <1>0, <2>1 DEF M
  <2>9. Len(msgs) <= Len(msgs')
    BY <1>0, <2>1 DEF M
  <2> QED
    BY <1>0, <2>1, <2>2, <2>7, <2>8, <2>9, PeerCovers
<1>4. ASSUME NEW s \in Streams, NEW b \in BOOLEAN, Issue(Purpose[s], b),
             Put(s, <<MsgFrame(NextId)>>), UNCHANGED Elsewhere, ~closed,
             writer' = [writer EXCEPT ![s] = "written"], proofs' = proofs,
             writer[s] = "proved" \/ ~b
      PROVE  CoverInv'
  <2>2. /\ \A i \in 1..M : msgs'[i] = msgs[i]
        /\ msgs'[M + 1].cap = Purpose[s] /\ msgs'[M + 1].proven = b
        /\ msgs' \in Seq(Msg) /\ Len(msgs') = M + 1
        /\ Undisturbed /\ outcome'[M + 1] = "sent"
    BY <1>0, <1>4, IssueAdds DEF M
  <2>1. Kept
    BY <1>4, <2>2 DEF Kept, M
  <2> DEFINE f == MsgFrame(NextId)
  <2>3. f.kind = "msg" /\ f.n = M + 1 /\ f \in {f}
    BY <1>0, <1>f
  <2>4. Put(s, <<f>>)
    BY <1>4
  <2>5. writer'[s] = "written" /\ \A t \in Streams : t # s => writer'[t] = writer[t]
    BY <1>4 DEF IInv, TypePeer
  <2> HIDE DEF f
  <2>6. OneNew(<<f>>)
    <3>1. \A k \in 1..Len(<<f>>) : k = 1 /\ <<f>>[k] = f
      OBVIOUS
    <3> QED
      BY <2>2, <2>3, <3>1 DEF OneNew, M
  <2>7. InPlace' /\ \A d : Proven(Ctrl, 1, d)' => Proven(Ctrl, 1, d)
    BY <1>0, <1>e, <1>4, <2>1, <2>2, <2>3, <2>4, <2>5, <2>6, StreamWriteKeeps
  <2> QED
    BY <1>0, <1>m, <1>4, <2>1, <2>2, <2>7, PeerCovers DEF M
<1>5. ASSUME NEW s \in Streams, WriteRequest(s) PROVE CoverInv'
  BY <1>4, <1>5 DEF WriteRequest
<1>6. ASSUME NEW s \in Streams, OpenPlainStream(s) PROVE CoverInv'
  BY <1>4, <1>6 DEF OpenPlainStream
<1>7. ASSUME NEW n \in Nonces, RepeatProof(n) PROVE CoverInv'
  <2>1. /\ Put(Ctrl, <<ProofFrame(n)>>) /\ UNCHANGED Elsewhere /\ writer' = writer
        /\ proofs' = proofs /\ msgs' = msgs /\ outcome' = outcome
    BY <1>7 DEF RepeatProof
  <2>2. Kept /\ Undisturbed
    BY <2>1 DEF Kept, Undisturbed
  <2> DEFINE fs == <<ProofFrame(n)>>
  <2>4. /\ fs \in Seq({ProofFrame(n)}) /\ Len(fs) = 1
        /\ \A k \in 1..Len(fs) : fs[k].kind = "proof"
    BY <1>f
  <2>5. Put(Ctrl, fs)
    BY <2>1
  <2> HIDE DEF fs
  <2>6. OneNew(fs) /\ Escorts(fs)
    BY <2>4 DEF OneNew, Escorts
  <2>7. InPlace' /\ \A d : Proven(Ctrl, 1, d)' => Proven(Ctrl, 1, d)
    BY <1>0, <1>e, <2>1, <2>2, <2>4, <2>5, <2>6, ControlWriteKeeps
  <2>8. \A k \in 1..Len(msgs') : ~(k > Len(msgs))
    BY <1>0, <2>1 DEF M
  <2>9. Len(msgs) <= Len(msgs')
    BY <1>0, <2>1 DEF M
  <2> QED
    BY <1>0, <2>1, <2>2, <2>7, <2>8, <2>9, PeerCovers
<1> QED
  BY <1>1, <1>2, <1>3, <1>5, <1>6, <1>7

\* The steps that read no frame.
LEMMA OtherStepsCover ==
    ASSUME IInv, CoverInv,
           \/ \E s \in Streams : AbandonRequest(s) \/ StreamReset(s)
           \/ Enqueue \/ Close \/ Tick
           \/ \E c \in Caps : Serve(c)
           \/ \E r \in Records : ChangeRecord(r)
           \/ UNCHANGED vars
    PROVE  CoverInv'
<1> DEFINE Quiet == /\ proofs' = proofs /\ msgs' = msgs /\ outcome' = outcome
                    /\ pending' = pending /\ evicted' = evicted
<1>c. Streams \subseteq Channels
  BY DEF Channels
<1>w. /\ DOMAIN writer = Streams /\ DOMAIN reader = Streams /\ DOMAIN wire = Channels
      /\ closed \in BOOLEAN
  BY DEF IInv, TypePeer, TypeReader, TypeLocal
<1>1. ASSUME Quiet, InPlace', \A c : Proven(Ctrl, 1, c)' => Proven(Ctrl, 1, c),
             \A s \in Streams : reader'[s] = "second" => reader[s] = "second"
      PROVE  CoverInv'
  <2>1. /\ Kept /\ Undisturbed /\ msgs' \in Seq(Msg) /\ Len(msgs) <= Len(msgs')
        /\ \A i \in 1..Len(msgs') : ~(i > Len(msgs))
    BY <1>1, Lengths DEF Kept, Undisturbed, IInv, TypePeer
  <2>2. ASSUME NEW c \in Caps PROVE Even(c)'
    BY <1>1, <2>1, CountsStand DEF CoverInv
  <2> QED
    BY <1>1, <2>2 DEF CoverInv
<1>2. ASSUME NEW s \in Streams, AbandonRequest(s) PROVE CoverInv'
  <2>1. /\ wire' = [wire EXCEPT ![s] = <<>>] /\ writer' = [writer EXCEPT ![s] = "reset"]
        /\ reader' = reader /\ closed' = closed /\ Quiet
    BY <1>2 DEF AbandonRequest, Elsewhere, verifier
  <2>2. \A x \in Channels : wire'[x] = wire[x] \/ wire'[x] = <<>>
    BY <1>w, <2>1
  <2>3. \A t \in Streams : IF t = s THEN writer'[t] = "reset"
                           ELSE writer'[t] = writer[t] /\ wire'[t] = wire[t]
    BY <1>c, <1>w, <2>1
  <2>4. InPlace' /\ \A c : Proven(Ctrl, 1, c)' => Proven(Ctrl, 1, c)
    BY <2>1, <2>2, <2>3, EmptyKeepsInPlace DEF CoverInv
  <2> QED
    BY <1>1, <2>1, <2>4
<1>3. ASSUME Close PROVE CoverInv'
  <2>1. /\ wire' = [ch \in Channels |-> <<>>] /\ closed' /\ writer' = writer
        /\ reader' = reader /\ Quiet
    BY <1>3 DEF Close, Sender, verifier, Channels
  <2>2. \A x \in Channels : wire'[x] = <<>>
    BY <2>1
  <2>3. InPlace' /\ \A c : Proven(Ctrl, 1, c)' => Proven(Ctrl, 1, c)
    BY <2>1, <2>2, EmptyKeepsInPlace DEF CoverInv
  <2> QED
    BY <1>1, <2>1, <2>3
<1>4. ASSUME NEW s \in Streams, StreamReset(s) PROVE CoverInv'
  <2>1. /\ wire' = wire /\ writer' = writer /\ closed' = closed /\ Quiet
        /\ reader' = [reader EXCEPT ![s] = "done"] /\ writer[s] = "reset"
    BY <1>4 DEF StreamReset, Local, peer, verifier
  <2>2. \A t \in Streams : IF t = s THEN reader'[t] = "done" ELSE reader'[t] = reader[t]
    BY <1>w, <2>1
  <2>3. InPlace' /\ \A c : Proven(Ctrl, 1, c)' => Proven(Ctrl, 1, c)
    BY <2>1, <2>2, EmptyKeepsInPlace DEF CoverInv
  <2> QED
    BY <1>1, <2>1, <2>2, <2>3
<1>5. ASSUME \/ Enqueue \/ Tick \/ \E c \in Caps : Serve(c)
             \/ \E r \in Records : ChangeRecord(r)
             \/ UNCHANGED vars
      PROVE  CoverInv'
  <2>1. /\ wire' = wire /\ writer' = writer /\ reader' = reader /\ closed' = closed /\ Quiet
    BY <1>5 DEF Enqueue, Tick, Serve, ChangeRecord, Local, peer, verifier, vars
  <2>2. InPlace' /\ \A c : Proven(Ctrl, 1, c)' => Proven(Ctrl, 1, c)
    BY <2>1, EmptyKeepsInPlace DEF CoverInv
  <2> QED
    BY <1>1, <2>1, <2>2
<1> QED
  BY <1>2, <1>3, <1>4, <1>5

\* What is at the head of a channel, and what comes after it.
LEMMA HeadIs ==
    ASSUME IInv, NEW ch \in Channels, wire[ch] # <<>>, Take(ch), proofs' = proofs, msgs' = msgs
    PROVE  /\ Head(wire[ch]).kind = "msg" <=> MsgAt(ch, 1)
           /\ Head(wire[ch]).kind = "proof" <=> ProofAt(ch, 1)
           /\ Head(wire[ch]).n = Named(ch, 1)
           /\ ch # Ctrl => \A c : Proven(Ctrl, 1, c)' <=> Proven(Ctrl, 1, c)
           /\ ch = Ctrl /\ InPlace => \A c \in Caps : Proven(Ctrl, 1, c)' => ProofOf(Ctrl, 1, c)
<1>1. Len(wire[ch]) \in Nat /\ Len(wire[ch]) > 0 /\ Head(wire[ch]) = wire[ch][1]
  BY TakeShifts
<1>2. 1 \in 1..Len(wire[ch]) /\ 1 \in Places /\ 2 \in Places /\ Ctrl \in Channels /\ 2 - 1 = 1
  BY <1>1 DEF Places, Channels
<1>3. ch # Ctrl => \A c : Proven(Ctrl, 1, c)' <=> Proven(Ctrl, 1, c)
  BY <1>2, TakeMoves DEF Before
<1>4. ASSUME ch = Ctrl, InPlace, NEW c \in Caps, Proven(Ctrl, 1, c)' PROVE ProofOf(Ctrl, 1, c)
  <2>1. Before(ch, Ctrl, 1) = 2
    BY <1>4 DEF Before
  <2>2. Proven(Ctrl, 2, c)
    BY <1>2, <1>4, <2>1, TakeMoves
  <2> QED
    BY <1>2, <1>4, <2>2 DEF InPlace, Escorted
<1> QED
  BY <1>1, <1>2, <1>3, <1>4 DEF MsgAt, ProofAt, Named

\* A proof that is read is for the message behind it, or for the stream's operation.
LEMMA ProofStepsCover ==
    ASSUME IInv, CoverInv, ReadProof \/ \E s \in Streams : StreamProof(s)
    PROVE  CoverInv'
<1>c. Ctrl \in Channels /\ Streams \subseteq Channels /\ Ctrl \notin Streams /\ 1 \in Places
  BY CtrlIsNoStream DEF Channels, Places
<1>r. reader \in [Streams -> {"first", "second", "done"}]
  BY DEF IInv, TypeReader
<1>1. ASSUME NEW ch \in Channels, wire[ch] # <<>>, Take(ch), Head(wire[ch]).kind = "proof",
             Receive(Head(wire[ch]).n), UNCHANGED Local, UNCHANGED Sender, outcome' = outcome,
             ch = Ctrl => reader' = reader,
             ch \in Streams => /\ reader' = [reader EXCEPT ![ch] = "second"]
                               /\ reader[ch] = "first"
      PROVE  CoverInv'
  <2>1. proofs' = proofs /\ msgs' = msgs /\ writer' = writer /\ closed' = closed
    BY <1>1 DEF Local, Sender
  <2>2. ProofAt(ch, 1) /\ Head(wire[ch]).n = Named(ch, 1) /\ ch \in {Ctrl} \cup Streams
    BY <1>1, <2>1, HeadIs DEF Channels
  <2>3. Named(ch, 1) \in 1..Len(proofs)
    BY <1>c, <2>2, FramesAre
  <2>4. \A s \in Streams : IF s = ch THEN reader'[s] = "second" ELSE reader'[s] = reader[s]
    BY <1>1, <1>c, <1>r, <2>2
  <2>5. \A s \in Streams : IF s = ch THEN reader'[s] # "first" ELSE reader'[s] = reader[s]
    BY <2>4
  <2>6. InPlace'
    BY <1>1, <2>1, <2>5, TakeKeepsInPlace DEF CoverInv
  <2> DEFINE n == Named(ch, 1)
  <2>7. ASSUME NEW c \in Caps PROVE Even(c)'
    <3>1. /\ Cardinality(Verifying(c)') + evicted'[c]
               = Cardinality(Verifying(c)) + evicted[c] + One(proofs[n].cap = c)
          /\ evicted[c] <= evicted'[c] /\ evicted[c] \in Nat /\ evicted'[c] \in Nat
          /\ Cardinality(Verifying(c)) \in Nat /\ Cardinality(Verifying(c)') \in Nat
      BY <1>1, <2>1, <2>2, <2>3, ReceiveCounts
    <3>2. Starved(c)' = Starved(c) /\ Borrowers(c)' = Borrowers(c)
      BY <1>1, <2>1 DEF Starved, Borrowers, Of
    <3>3. Cardinality(Starved(c)) \in Nat /\ Cardinality(Borrowers(c)) \in Nat
      BY TalliesAreFinite
    <3>4. IsFiniteSet(Expecting(c)) /\ Cardinality(Expecting(c)) \in Nat
      BY FS_CardinalityType DEF CoverInv, Even
    <3>5. One(proofs[n].cap = c) \in {0, 1} /\ One(Proven(Ctrl, 1, c)) \in {0, 1}
          /\ One(Proven(Ctrl, 1, c)') \in {0, 1}
      BY DEF One
    <3>6. /\ Cardinality(Starved(c)) + Cardinality(Expecting(c)) + One(Proven(Ctrl, 1, c))
               <= Cardinality(Verifying(c)) + evicted[c] + Cardinality(Borrowers(c))
          /\ Cardinality(Starved(c)) <= evicted[c] + Cardinality(Borrowers(c))
      BY DEF CoverInv, Even
    <3>7. /\ IsFiniteSet(Expecting(c)') /\ Cardinality(Expecting(c)') \in Nat
          /\ Cardinality(Expecting(c)') + One(Proven(Ctrl, 1, c)')
               <= Cardinality(Expecting(c)) + One(Proven(Ctrl, 1, c)) + One(proofs[n].cap = c)
      <4>1. CASE ch = Ctrl
        <5>1. Expecting(c)' = Expecting(c)
          BY <1>c, <2>4, <4>1 DEF Expecting
        <5>2. Proven(Ctrl, 1, c)' => proofs[n].cap = c
          BY <1>1, <2>1, <4>1, HeadIs DEF CoverInv, ProofOf
        <5>3. One(Proven(Ctrl, 1, c)') <= One(proofs[n].cap = c)
          <6>1. CASE Proven(Ctrl, 1, c)'
            BY <5>2, <6>1 DEF One
          <6>2. CASE ~Proven(Ctrl, 1, c)'
            BY <6>2 DEF One
          <6> QED
            BY <6>1, <6>2
        <5> QED
          BY <3>4, <3>5, <5>1, <5>3
      <4>2. CASE ch \in Streams
        <5>1. Proven(Ctrl, 1, c)' <=> Proven(Ctrl, 1, c)
          BY <1>1, <1>c, <2>1, <4>2, HeadIs
        <5>2. proofs[n].cap = Purpose[ch]
          <6>1. proofs[n].cap \in Caps /\ ProofOf(ch, 1, proofs[n].cap)
            BY <2>2, <2>3, CapsKnown DEF ProofOf
          <6> QED
            BY <1>c, <4>2, <6>1 DEF CoverInv, InPlace, OnPurpose
        <5>3. One(Proven(Ctrl, 1, c)') = One(Proven(Ctrl, 1, c))
          BY <5>1 DEF One
        <5>4. CASE Purpose[ch] = c
          <6>1. Expecting(c)' = Expecting(c) \cup {ch} /\ ch \notin Expecting(c)
            BY <1>1, <2>4, <4>2, <5>4 DEF Expecting
          <6>2. /\ IsFiniteSet(Expecting(c)')
                /\ Cardinality(Expecting(c)') = Cardinality(Expecting(c)) + 1
            BY <3>4, <6>1, FS_AddElement
          <6>3. One(proofs[n].cap = c) = 1
            BY <5>2, <5>4 DEF One
          <6> QED
            BY <3>4, <3>5, <5>3, <6>2, <6>3
        <5>5. CASE Purpose[ch] # c
          <6>1. Expecting(c)' = Expecting(c)
            BY <2>4, <5>5 DEF Expecting
          <6> QED
            BY <3>4, <3>5, <5>3, <6>1
        <5> QED
          BY <5>4, <5>5
      <4> QED
        BY <2>2, <4>1, <4>2
    <3>8. PICK v \in Nat, w \in Nat, z \in Nat, y \in Nat, a \in Nat, b \in Nat, e \in Nat,
               f \in Nat, p \in Nat, q \in Nat, m \in Nat :
            /\ v = Cardinality(Verifying(c)) /\ w = Cardinality(Verifying(c)')
            /\ z = evicted[c] /\ y = evicted'[c]
            /\ a = Cardinality(Starved(c)) /\ b = Cardinality(Borrowers(c))
            /\ e = Cardinality(Expecting(c)) /\ f = Cardinality(Expecting(c)')
            /\ p = One(Proven(Ctrl, 1, c)) /\ q = One(Proven(Ctrl, 1, c)')
            /\ m = One(proofs[n].cap = c)
      BY <3>1, <3>3, <3>4, <3>5, <3>7
    <3>9. w + y = v + z + m /\ z <= y
      BY <3>1, <3>8
    <3>10. a + e + p <= v + z + b /\ a <= z + b
      BY <3>6, <3>8
    <3>11. f + q <= e + p + m
      BY <3>7, <3>8
    <3>12. a + f + q <= w + y + b /\ a <= y + b
      BY <3>9, <3>10, <3>11
    <3> QED
      BY <3>2, <3>7, <3>8, <3>12 DEF Even
  <2> QED
    BY <2>6, <2>7 DEF CoverInv
<1>2. ASSUME ReadProof PROVE CoverInv'
  BY <1>1, <1>2, <1>c DEF ReadProof, Arrives
<1>3. ASSUME NEW s \in Streams, StreamProof(s) PROVE CoverInv'
  <2>1. s \in Channels /\ s # Ctrl
    BY <1>c
  <2> QED
    BY <1>1, <1>3, <2>1 DEF StreamProof, Arrives
<1> QED
  BY <1>2, <1>3

LEMMA AuthorizeDecides ==
    ASSUME NEW i, Authorize(i)
    PROVE  \E o : Decide(i, o)
BY DEF Authorize, NoProof, NoPinnedKey, Spend, Ladder

\* A message that is read was at the head of the control stream, behind its proof, or on a
\* stream whose proof was read: its proof waits, or is accounted for.
LEMMA MessageStepsCover ==
    ASSUME IInv, CoverInv, IgnoreMessage \/ ReadMessage \/ \E s \in Streams : StreamMessage(s)
    PROVE  CoverInv'
<1>c. Ctrl \in Channels /\ Streams \subseteq Channels /\ Ctrl \notin Streams /\ 1 \in Places
  BY CtrlIsNoStream DEF Channels, Places
<1>r. reader \in [Streams -> {"first", "second", "done"}]
  BY DEF IInv, TypeReader
<1>1. ASSUME NEW ch \in Channels, wire[ch] # <<>>, Take(ch), Head(wire[ch]).kind = "msg",
             \/ Authorize(Head(wire[ch]).n)
             \/ Decide(Head(wire[ch]).n, "ignored") /\ UNCHANGED verifier,
             UNCHANGED Local, UNCHANGED Sender,
             ch = Ctrl => reader' = reader,
             ch \in Streams => /\ reader' = [reader EXCEPT ![ch] = "done"]
                               /\ reader[ch] # "done"
      PROVE  CoverInv'
  <2>1. proofs' = proofs /\ msgs' = msgs /\ writer' = writer /\ closed' = closed
    BY <1>1 DEF Local, Sender
  <2>2. MsgAt(ch, 1) /\ Head(wire[ch]).n = Named(ch, 1) /\ ch \in {Ctrl} \cup Streams
    BY <1>1, <2>1, HeadIs DEF Channels
  <2> DEFINE i == Named(ch, 1)
  <2>3. i \in 1..Len(msgs) /\ outcome[i] = "sent" /\ msgs[i].cap \in Caps
    BY <1>c, <2>2, FramesAre, CapsKnown DEF CoverInv, InPlace, Unread
  <2>4. \A s \in Streams : IF s = ch THEN reader'[s] = "done" ELSE reader'[s] = reader[s]
    BY <1>1, <1>c, <1>r, <2>2
  <2>5. Authorize(i) \/ (Decide(i, "ignored") /\ UNCHANGED verifier)
    BY <1>1, <2>2
  <2>6. \A j \in 1..Len(msgs) : (MsgAt(ch, 1) /\ j = Named(ch, 1)) \/ outcome'[j] = outcome[j]
    <3>1. PICK o : Decide(i, o)
      BY <2>5, AuthorizeDecides
    <3> QED
      BY <2>2, <3>1, Lengths DEF Decide, IInv, TypeOutcome
  <2>7. InPlace'
    <3>1. \A s \in Streams : IF s = ch THEN reader'[s] # "first" ELSE reader'[s] = reader[s]
      BY <2>4
    <3> QED
      BY <1>1, <2>1, <2>6, <3>1, TakeKeepsInPlace DEF CoverInv
  <2> HIDE DEF i
  <2>8. ASSUME NEW c \in Caps PROVE Even(c)'
    <3> DEFINE own == Mine(i, c) /\ msgs[i].proven
    <3>1. Settled(i, c)
      <4>1. CASE Authorize(i)
        BY <2>1, <2>3, <4>1, AuthorizeCounts
      <4>2. CASE Decide(i, "ignored") /\ UNCHANGED verifier
        BY <2>1, <2>3, <4>2, IgnoreCounts
      <4> QED
        BY <2>5, <4>1, <4>2
    <3>2. own <=> Proven(ch, 1, c)
      BY <2>2 DEF Proven, Mine, i
    <3>3. IsFiniteSet(Expecting(c)) /\ Cardinality(Expecting(c)) \in Nat /\ Even(c)
      BY FS_CardinalityType DEF CoverInv, Even
    <3> HIDE DEF own
    <3>4. /\ One(own) \in {0, 1} /\ One(Proven(Ctrl, 1, c)) \in {0, 1}
          /\ One(Proven(Ctrl, 1, c)') \in {0, 1}
      BY DEF One
    <3>5. /\ IsFiniteSet(Expecting(c)')
          /\ One(own) + Cardinality(Expecting(c)') + One(Proven(Ctrl, 1, c)')
               <= Cardinality(Expecting(c)) + One(Proven(Ctrl, 1, c))
      <4>1. CASE ch = Ctrl
        <5>1. Expecting(c)' = Expecting(c)
          BY <1>c, <2>4, <4>1 DEF Expecting
        <5>2. ~Proven(Ctrl, 1, c)'
          <6>1. Proven(Ctrl, 1, c)' => ProofOf(Ctrl, 1, c)
            BY <1>1, <1>c, <2>1, <4>1, HeadIs DEF CoverInv
          <6> QED
            BY <2>2, <4>1, <6>1 DEF ProofOf, ProofAt, MsgAt
        <5>3. One(Proven(Ctrl, 1, c)') = 0 /\ One(own) = One(Proven(Ctrl, 1, c))
          BY <3>2, <4>1, <5>2 DEF One
        <5> QED
          BY <3>3, <3>4, <5>1, <5>3
      <4>2. CASE ch \in Streams
        <5>1. One(Proven(Ctrl, 1, c)') = One(Proven(Ctrl, 1, c))
          <6>1. Proven(Ctrl, 1, c)' <=> Proven(Ctrl, 1, c)
            BY <1>1, <1>c, <2>1, <4>2, HeadIs
          <6> QED
            BY <6>1 DEF One
        <5>2. Expecting(c)' = Expecting(c) \ {ch}
          BY <2>4, <4>2 DEF Expecting
        <5>3. /\ IsFiniteSet(Expecting(c)')
              /\ Cardinality(Expecting(c)')
                   = IF ch \in Expecting(c) THEN Cardinality(Expecting(c)) - 1
                     ELSE Cardinality(Expecting(c))
          BY <3>3, <5>2, FS_RemoveElement
        <5>4. CASE own
          <6>1. reader[ch] = "second" /\ Purpose[ch] = c
            BY <1>1, <1>c, <1>r, <3>2, <4>2, <5>4 DEF CoverInv, InPlace, Unheralded, OnPurpose
          <6>2. ch \in Expecting(c)
            BY <4>2, <6>1 DEF Expecting
          <6>3. One(own) = 1
            BY <5>4 DEF One
          <6> QED
            BY <3>3, <3>4, <5>1, <5>3, <6>2, <6>3
        <5>5. CASE ~own
          <6>1. One(own) = 0
            BY <5>5 DEF One
          <6> QED
            BY <3>3, <3>4, <5>1, <5>3, <6>1
        <5> QED
          BY <5>4, <5>5
      <4> QED
        BY <2>2, <4>1, <4>2
    <3> QED
      BY <2>3, <3>1, <3>3, <3>5, SettledIsEven DEF own
  <2> QED
    BY <2>7, <2>8 DEF CoverInv
<1>2. ASSUME IgnoreMessage PROVE CoverInv'
  BY <1>1, <1>2, <1>c DEF IgnoreMessage, Arrives
<1>3. ASSUME ReadMessage PROVE CoverInv'
  BY <1>1, <1>3, <1>c DEF ReadMessage, Arrives
<1>4. ASSUME NEW s \in Streams, StreamMessage(s) PROVE CoverInv'
  <2>1. s \in Channels /\ s # Ctrl
    BY <1>c
  <2> QED
    BY <1>1, <1>4, <2>1 DEF StreamMessage, Arrives
<1> QED
  BY <1>2, <1>3, <1>4

LEMMA InitCoverInv == Init => CoverInv
<1> SUFFICES ASSUME Init PROVE CoverInv
  OBVIOUS
<1>i. IInv
  BY InitIInv
<1>1. /\ wire = [ch \in Channels |-> <<>>] /\ msgs = <<>>
      /\ writer = [s \in Streams |-> "unopened"] /\ reader = [s \in Streams |-> "first"]
      /\ evicted = [c \in Caps |-> 0]
  BY DEF Init, Channels
<1>2. Ctrl \in Channels /\ Streams \subseteq Channels
  BY DEF Channels
<1>3. \A ch \in Channels, k \in Places : ~MsgAt(ch, k) /\ ~ProofAt(ch, k)
  <2>1. \A ch \in Channels : Len(wire[ch]) = 0
    BY <1>1
  <2> QED
    BY <2>1 DEF MsgAt, ProofAt
<1>4. \A ch \in Channels, k \in Places : \A c : ~Proven(ch, k, c) /\ ~ProofOf(ch, k, c)
  BY <1>3 DEF Proven, ProofOf
<1>5. 1 \in Places
  BY DEF Places
<1>6. Unread /\ Singly
  BY <1>3 DEF Unread, Singly
<1>7. Escorted /\ OnPurpose /\ Unheralded
  BY <1>2, <1>4, <1>5 DEF Escorted, OnPurpose, Unheralded
<1>8. Heralded /\ Fresh
  BY <1>1, <1>2 DEF Heralded, Fresh
<1>9. ASSUME NEW c \in Caps PROVE Even(c)
  <2>1. Starved(c) = {}
    BY <1>1 DEF Starved, Of
  <2>2. Expecting(c) = {}
    BY <1>1 DEF Expecting
  <2>3. One(Proven(Ctrl, 1, c)) = 0
    BY <1>2, <1>4, <1>5 DEF One
  <2>4. /\ Cardinality(Borrowers(c)) \in Nat /\ Cardinality(Verifying(c)) \in Nat
        /\ evicted[c] = 0
    BY <1>1, <1>i, TalliesAreFinite, VerifyingIs
  <2>5. IsFiniteSet({}) /\ Cardinality({}) = 0
    BY FS_EmptySet
  <2> QED
    BY <2>1, <2>2, <2>3, <2>4, <2>5 DEF Even
<1> QED
  BY <1>6, <1>7, <1>8, <1>9 DEF CoverInv, InPlace

LEMMA StepCoverInv == IInv /\ CoverInv /\ [Next]_vars => CoverInv'
<1> SUFFICES ASSUME IInv, CoverInv, [Next]_vars PROVE CoverInv'
  OBVIOUS
<1>1. CASE UNCHANGED vars
  BY <1>1, OtherStepsCover
<1>2. CASE Next
  BY <1>2, PeerStepsCover, OtherStepsCover, ProofStepsCover, MessageStepsCover
     DEF Next, ReadControl, ServeStream
<1> QED
  BY <1>1, <1>2

\* However the control loop and the streams interleave and whatever the peer repeats,
\* reorders between streams or abandons, a message goes without its proof only for a proof
\* of its capability that the bound dropped or that a message without one took.
THEOREM EvictionCostsOneEach == Spec => []StarvedByEvictionOnly
<1>1. CoverInv => StarvedByEvictionOnly
  BY DEF CoverInv, Even, StarvedByEvictionOnly
<1> QED
  BY <1>1, InitIInv, StepIInv, InitCoverInv, StepCoverInv, PTL DEF Spec
================================================================================
