------------------------------ MODULE SessionAuth ------------------------------
(****************************************************************************)
(* The receiving half of a session: internal/session.  A control loop and   *)
(* one goroutine per capability stream read envelopes; each message is      *)
(* authorised against the trust store and the peer's pending AuthProofs     *)
(* before it reaches its capability, control messages through one bounded   *)
(* queue per capability.                                                    *)
(*                                                                          *)
(* A proof names no operation: it is held, and the next message of the      *)
(* capability it was signed for spends it.  A capability stands for one of  *)
(* its message types; the signature is its capability and issue time.  The  *)
(* store's lookup and the proof's use are one step, as neither disturbs     *)
(* what the other reads.                                                    *)
(****************************************************************************)
EXTENDS Integers, Sequences, FiniteSets

CONSTANTS
    Caps,            \* capabilities with a handler here
    OwnedCaps,       \* those whose RequiredLevel is Owned
    StreamCaps,      \* those whose operations begin on their own stream
    Streams,         \* streams the peer opens
    Purpose,         \* stream -> the capability of its operation
    Ctrl,            \* the control stream
    MaxPending,      \* maxPendingProofs
    QueueDepth,      \* capQueueDepth, and one in Serve
    HelloRecords,    \* the records a session may begin with
    Negotiations,    \* the sets of capabilities a session may agree on
    Window,          \* proofWindow
    Skews,           \* how far the peer's clock is ahead
    MaxNow, MaxProofs, MaxMsgs, MaxChanges, MaxRepeats   \* bounds

ASSUME CapsAreCaps == OwnedCaps \subseteq Caps /\ StreamCaps \subseteq Caps
ASSUME CtrlIsNoStream == Ctrl \notin Streams
ASSUME StreamsHavePurpose == Purpose \in [Streams -> StreamCaps]
ASSUME SessionBounds ==
    /\ MaxPending \in Nat \ {0} /\ QueueDepth \in Nat \ {0} /\ Window \in Nat
    /\ Skews \subseteq Int
    /\ MaxNow \in Nat /\ MaxProofs \in Nat /\ MaxMsgs \in Nat
    /\ MaxChanges \in Nat /\ MaxRepeats \in Nat

VARIABLES
    now,         \* this device's clock
    record,      \* the trust store's record of the peer
    hello,       \* what Hello copied from it into the session
    negotiated,  \* sess.caps
    wire,        \* channel -> frames written and not yet read
    writer,      \* stream -> what the peer has written on it
    reader,      \* stream -> where serveStream is
    proofs,      \* the AuthProofs the peer has signed; a nonce is an index here
    msgs,        \* the messages it has sent
    pending,     \* authVerifier.pending
    seen,        \* authVerifier.seen
    loop,        \* the control message waiting for room in its queue, or 0
    queue,       \* capability -> its inbound messages, the one being served first
    closed,      \* has the session ended?
    changes,     \* how often the record changed
    repeats,     \* how many proofs arrived a second time
    outcome,     \* message -> the decision about it
    paid,        \* history: message -> the proof it spent, or 0
    evicted,     \* history: capability -> how many of its proofs were dropped unspent
    served       \* history: the control messages whose handler returned

peer     == <<wire, writer, proofs, msgs, repeats>>
verifier == <<pending, seen, paid, evicted>>
serve    == <<queue, served>>
vars     == <<now, record, hello, negotiated, peer, reader, verifier, loop, serve, closed,
              changes, outcome>>

Nonces == 1..MaxProofs
Ids    == 1..MaxMsgs
Frames == [kind : {"proof"}, n : DOMAIN proofs] \cup [kind : {"msg"}, n : DOMAIN msgs]

\* D-21: a peer is Owned only with a pinned privilege key (validatePeer).
Levels  == {"absent", "trusted", "owned"}
Records == {r \in [level : Levels, key : BOOLEAN] :
              /\ r.level = "owned" => r.key
              /\ r.level = "absent" => ~r.key}

ASSUME SessionsBeginSoundly ==
    HelloRecords \subseteq Records /\ Negotiations \subseteq SUBSET Caps

Allowed == {"plain", "owned"}
Refused == {"nokey", "expired", "replayed", "demoted", "unproven"}
Outcomes == {"none", "sent", "ignored"} \cup Allowed \cup Refused

TypeOK ==
    /\ now \in 0..MaxNow
    /\ record \in Records
    /\ hello \in Records
    /\ negotiated \in SUBSET Caps
    /\ wire \in [{Ctrl} \cup Streams -> Seq(Frames)]
    /\ writer \in [Streams -> {"unopened", "proved", "written", "reset"}]
    /\ reader \in [Streams -> {"first", "second", "done"}]
    /\ proofs \in Seq([cap : Caps, issued : Int])
    /\ Len(proofs) <= MaxProofs
    /\ msgs \in Seq([cap : Caps, proven : BOOLEAN])
    /\ Len(msgs) <= MaxMsgs
    /\ pending \in Seq(1..Len(proofs))
    /\ Len(pending) <= MaxPending
    /\ seen \in SUBSET (1..Len(proofs))
    /\ loop \in 0..Len(msgs)
    /\ queue \in [Caps -> Seq(DOMAIN msgs)]
    /\ \A c \in Caps : Len(queue[c]) <= QueueDepth
    /\ closed \in BOOLEAN
    /\ changes \in 0..MaxChanges
    /\ repeats \in 0..MaxRepeats
    /\ outcome \in [Ids -> Outcomes]
    /\ paid \in [Ids -> 0..MaxProofs]
    /\ evicted \in [Caps -> Nat]
    /\ served \in SUBSET Ids

\* The session as newSession leaves it: Hello exchanged, the record copied.
Init ==
    /\ now = 0
    /\ hello \in HelloRecords
    /\ record = hello
    /\ negotiated \in Negotiations
    /\ wire = [ch \in {Ctrl} \cup Streams |-> <<>>]
    /\ writer = [s \in Streams |-> "unopened"]
    /\ reader = [s \in Streams |-> "first"]
    /\ proofs = <<>>
    /\ msgs = <<>>
    /\ pending = <<>>
    /\ seen = {}
    /\ loop = 0
    /\ queue = [c \in Caps |-> <<>>]
    /\ closed = FALSE
    /\ changes = 0
    /\ repeats = 0
    /\ outcome = [i \in Ids |-> "none"]
    /\ paid = [i \in Ids |-> 0]
    /\ evicted = [c \in Caps |-> 0]
    /\ served = {}

----------------------------------------------------------------------------
(* The peer.                                                                *)

ProofFrame(n) == [kind |-> "proof", n |-> n]
MsgFrame(i) == [kind |-> "msg", n |-> i]
NextNonce == Len(proofs) + 1
NextId == Len(msgs) + 1

\* The peer signs a proof for capability c (identity.SignOwned).
Sign(c) ==
    /\ NextNonce <= MaxProofs
    /\ \E d \in Skews : proofs' = Append(proofs, [cap |-> c, issued |-> now + d])

\* A message of capability c, sent behind a proof of its own or without.
Issue(c, proven) ==
    /\ NextId <= MaxMsgs
    /\ msgs' = Append(msgs, [cap |-> c, proven |-> proven])
    /\ outcome' = [outcome EXCEPT ![NextId] = "sent"]

Put(ch, frames) == wire' = [wire EXCEPT ![ch] = @ \o frames]

Elsewhere == <<now, record, hello, negotiated, reader, verifier, loop, serve, closed,
               changes>>

\* Send: one envelope under the write lock.
Send(c) ==
    /\ ~closed
    /\ Issue(c, FALSE)
    /\ Put(Ctrl, <<MsgFrame(NextId)>>)
    /\ UNCHANGED <<Elsewhere, writer, proofs, repeats>>

\* Slip: the message overtakes its proof.
SendOwnedSlip(c) ==
    /\ ~closed
    /\ Sign(c)
    /\ Issue(c, TRUE)
    /\ Put(Ctrl, <<MsgFrame(NextId), ProofFrame(NextNonce)>>)
    /\ UNCHANGED <<Elsewhere, writer, repeats>>

\* SendOwned: the proof and its message under one hold of the write lock.
SendOwned(c) ==
    /\ ~closed
    /\ Sign(c)
    /\ Issue(c, TRUE)
    /\ Put(Ctrl, <<ProofFrame(NextNonce), MsgFrame(NextId)>>)
    /\ UNCHANGED <<Elsewhere, writer, repeats>>

\* OpenOwnedStream: the proof is the stream's first frame.
OpenOwnedStream(s) ==
    /\ ~closed /\ writer[s] = "unopened"
    /\ Sign(Purpose[s])
    /\ Put(s, <<ProofFrame(NextNonce)>>)
    /\ writer' = [writer EXCEPT ![s] = "proved"]
    /\ UNCHANGED <<Elsewhere, msgs, repeats, outcome>>

\* The caller writes the operation behind its proof, ...
WriteRequest(s) ==
    /\ ~closed /\ writer[s] = "proved"
    /\ Issue(Purpose[s], TRUE)
    /\ Put(s, <<MsgFrame(NextId)>>)
    /\ writer' = [writer EXCEPT ![s] = "written"]
    /\ UNCHANGED <<Elsewhere, proofs, repeats>>

\* ... or gives the stream up before it: what was not read yet is lost.
AbandonRequest(s) ==
    /\ ~closed /\ writer[s] = "proved"
    /\ wire' = [wire EXCEPT ![s] = <<>>]
    /\ writer' = [writer EXCEPT ![s] = "reset"]
    /\ UNCHANGED <<Elsewhere, proofs, msgs, repeats, outcome>>

\* OpenOwnedStreamIfUnlocked while the peer's key is sealed: no proof.
OpenPlainStream(s) ==
    /\ ~closed /\ writer[s] = "unopened"
    /\ Issue(Purpose[s], FALSE)
    /\ Put(s, <<MsgFrame(NextId)>>)
    /\ writer' = [writer EXCEPT ![s] = "written"]
    /\ UNCHANGED <<Elsewhere, proofs, repeats>>

\* A proof the peer has already sent arrives once more.
RepeatProof(n) ==
    /\ ~closed /\ repeats < MaxRepeats /\ n \in DOMAIN proofs
    /\ repeats' = repeats + 1
    /\ Put(Ctrl, <<ProofFrame(n)>>)
    /\ UNCHANGED <<Elsewhere, writer, proofs, msgs, outcome>>

----------------------------------------------------------------------------
(* The verifier.                                                            *)

\* A proof is held; a ninth drops the oldest.
Receive(n) ==
    /\ IF Len(pending) >= MaxPending
       THEN /\ pending' = Append(Tail(pending), n)
            /\ evicted' = [evicted EXCEPT ![proofs[Head(pending)].cap] = @ + 1]
       ELSE pending' = Append(pending, n) /\ UNCHANGED evicted
    /\ UNCHANGED <<seen, paid>>

\* The stored record; the one from Hello when the store has none.
Effective == IF record.level = "absent" THEN hello ELSE record

Age(n) == now - proofs[n].issued
InWindow(n) == Age(n) \in -Window..Window
RememberedSlip == {n \in seen : Age(n) < Window}
Remembered == {n \in seen : Age(n) <= Window}

\* Where the pending proofs that verify for capability c are.
Verifying(c) == {k \in DOMAIN pending : proofs[pending[k]].cap = c}
First(ks, k) == k \in ks /\ \A j \in ks : k <= j
Without(k) == SubSeq(pending, 1, k - 1) \o SubSeq(pending, k + 1, Len(pending))

Decide(i, o) == outcome' = [outcome EXCEPT ![i] = o]

\* The trust ladder, for a message that spent a proof or did not.
Ladder(i, owned) ==
    Decide(i, IF msgs[i].cap \notin OwnedCaps
              THEN IF owned THEN "owned" ELSE "plain"
              ELSE IF Effective.level = "trusted" THEN "demoted"
              ELSE IF owned THEN "owned" ELSE "unproven")

\* No proof is pending, or none of them is this operation's.
NoProof(i) ==
    /\ pending = <<>> \/ (Effective.key /\ Verifying(msgs[i].cap) = {})
    /\ seen' = Remembered
    /\ Ladder(i, FALSE)
    /\ UNCHANGED <<pending, paid, evicted>>

\* A proof is pending and there is no key to verify it with.
NoPinnedKey(i) ==
    /\ pending # <<>> /\ ~Effective.key
    /\ seen' = Remembered
    /\ Decide(i, "nokey")
    /\ UNCHANGED <<pending, paid, evicted>>

\* The first pending proof that verifies is spent, and then judged.
Spend(i) ==
    /\ Effective.key
    /\ \E k \in DOMAIN pending :
         LET n == pending[k]
         IN  /\ First(Verifying(msgs[i].cap), k)
             /\ pending' = Without(k)
             /\ \/ /\ ~InWindow(n)
                   /\ Decide(i, "expired")
                   /\ seen' = Remembered /\ UNCHANGED paid
                \/ /\ InWindow(n) /\ n \in Remembered
                   /\ Decide(i, "replayed")
                   /\ seen' = Remembered /\ UNCHANGED paid
                \/ /\ InWindow(n) /\ n \notin Remembered
                   /\ Ladder(i, TRUE)
                   /\ seen' = Remembered \cup {n}
                   /\ paid' = [paid EXCEPT ![i] = n]
    /\ UNCHANGED evicted

\* authorizeInbound.
Authorize(i) == NoProof(i) \/ NoPinnedKey(i) \/ Spend(i)

----------------------------------------------------------------------------
(* The goroutines of the session.                                           *)

Arrives(ch, kind) == wire[ch] # <<>> /\ Head(wire[ch]).kind = kind
Take(ch) == wire' = [wire EXCEPT ![ch] = Tail(@)]
Sender == <<writer, proofs, msgs, repeats>>
Local == <<now, record, hello, negotiated, closed, changes>>

\* readLoop, dispatch: a proof.
ReadProof ==
    /\ ~closed /\ loop = 0 /\ Arrives(Ctrl, "proof")
    /\ Receive(Head(wire[Ctrl]).n)
    /\ Take(Ctrl)
    /\ UNCHANGED <<Local, Sender, reader, loop, serve, outcome>>

\* readLoop, dispatch: a message of a capability that was not negotiated.
IgnoreMessage ==
    /\ ~closed /\ loop = 0 /\ Arrives(Ctrl, "msg")
    /\ LET i == Head(wire[Ctrl]).n
       IN  msgs[i].cap \notin negotiated /\ Decide(i, "ignored")
    /\ Take(Ctrl)
    /\ UNCHANGED <<Local, Sender, reader, verifier, loop, serve>>

Room(c) == Len(queue[c]) < QueueDepth
Enter(i) == queue' = [queue EXCEPT ![msgs[i].cap] = Append(@, i)]

\* readLoop, dispatch: any other message is authorised, and an allowed one is
\* queued; without room for it, the loop waits.
ReadMessage ==
    /\ ~closed /\ loop = 0 /\ Arrives(Ctrl, "msg")
    /\ LET i == Head(wire[Ctrl]).n
           allowed == outcome'[i] \in Allowed
       IN  /\ msgs[i].cap \in negotiated
           /\ Authorize(i)
           /\ IF allowed /\ Room(msgs[i].cap) THEN Enter(i) ELSE UNCHANGED queue
           /\ loop' = IF allowed /\ ~Room(msgs[i].cap) THEN i ELSE 0
    /\ Take(Ctrl)
    /\ UNCHANGED <<Local, Sender, reader, served>>

Enqueue ==
    /\ ~closed /\ loop # 0 /\ Room(msgs[loop].cap)
    /\ Enter(loop)
    /\ loop' = 0
    /\ UNCHANGED <<Local, peer, reader, verifier, served, outcome>>

\* Slip: the handler waits for something only the control loop can deliver.
ServeSlip(c) ==
    /\ ~closed /\ queue[c] # <<>> /\ loop = 0
    /\ queue' = [queue EXCEPT ![c] = Tail(@)]
    /\ served' = served \cup {Head(queue[c])}
    /\ UNCHANGED <<Local, peer, reader, verifier, loop, outcome>>

\* serveQueue: the handler returns from the oldest message and takes the next.
Serve(c) ==
    /\ ~closed /\ queue[c] # <<>>
    /\ queue' = [queue EXCEPT ![c] = Tail(@)]
    /\ served' = served \cup {Head(queue[c])}
    /\ UNCHANGED <<Local, peer, reader, verifier, loop, outcome>>

\* serveStream: a proof is the first frame or there is none.
StreamProof(s) ==
    /\ ~closed /\ reader[s] = "first" /\ Arrives(s, "proof")
    /\ Receive(Head(wire[s]).n)
    /\ Take(s)
    /\ reader' = [reader EXCEPT ![s] = "second"]
    /\ UNCHANGED <<Local, Sender, loop, serve, outcome>>

\* serveStream: the operation, served to its end if it is allowed.
StreamMessage(s) ==
    /\ ~closed /\ reader[s] # "done" /\ Arrives(s, "msg")
    /\ LET i == Head(wire[s]).n
       IN  IF msgs[i].cap \in negotiated
           THEN Authorize(i)
           ELSE Decide(i, "ignored") /\ UNCHANGED verifier
    /\ Take(s)
    /\ reader' = [reader EXCEPT ![s] = "done"]
    /\ UNCHANGED <<Local, Sender, loop, serve>>

\* serveStream: the peer reset the stream.
StreamReset(s) ==
    /\ ~closed /\ reader[s] # "done" /\ writer[s] = "reset"
    /\ reader' = [reader EXCEPT ![s] = "done"]
    /\ UNCHANGED <<Local, peer, verifier, loop, serve, outcome>>

\* closeWith: whichever end, whatever the reason; the connection goes with it.
Close ==
    /\ ~closed
    /\ closed' = TRUE
    /\ wire' = [ch \in {Ctrl} \cup Streams |-> <<>>]
    /\ UNCHANGED <<now, record, hello, negotiated, changes, Sender, reader, verifier, loop,
                   serve, outcome>>

----------------------------------------------------------------------------
(* The rest of this device.                                                 *)

Tick ==
    /\ ~closed /\ now < MaxNow
    /\ now' = now + 1
    /\ UNCHANGED <<record, hello, negotiated, closed, changes, peer, reader, verifier, loop,
                   serve, outcome>>

\* A pairing, a promotion, a demotion or a removal, while the session runs.
ChangeRecord(r) ==
    /\ ~closed /\ changes < MaxChanges /\ r # record
    /\ record' = r
    /\ changes' = changes + 1
    /\ UNCHANGED <<now, hello, negotiated, closed, peer, reader, verifier, loop, serve,
                   outcome>>

ReadControl == ReadProof \/ IgnoreMessage \/ ReadMessage
ServeStream(s) == StreamProof(s) \/ StreamMessage(s) \/ StreamReset(s)

Next ==
    \/ \E c \in Caps \ StreamCaps : Send(c) \/ SendOwned(c)
    \/ \E s \in Streams : \/ OpenOwnedStream(s) \/ WriteRequest(s) \/ OpenPlainStream(s)
                           \/ AbandonRequest(s) \/ ServeStream(s)
    \/ \E n \in Nonces : RepeatProof(n)
    \/ ReadControl \/ Enqueue \/ Close \/ Tick
    \/ \E c \in Caps : Serve(c)
    \/ \E r \in Records : ChangeRecord(r)

Spec == Init /\ [][Next]_vars

\* The loops run while the session does, and a handler returns.
FairSpec ==
    /\ Spec
    /\ WF_vars(ReadControl) /\ WF_vars(Enqueue)
    /\ \A c \in Caps : WF_vars(Serve(c))

----------------------------------------------------------------------------
(* Properties.                                                              *)

\* A proof authorises one message: whatever arrives twice, is forgotten by
\* pruneLocked or is evicted meanwhile, no two messages spend one nonce.
SpentOnce == \A i, j \in Ids : paid[i] = paid[j] /\ paid[i] # 0 => i = j

Of(c) == {i \in DOMAIN msgs : msgs[i].cap = c}
Starved(c) == {i \in Of(c) : msgs[i].proven /\ outcome[i] \in {"plain", "unproven"}}
Borrowers(c) ==
    {i \in Of(c) : /\ ~msgs[i].proven
                   /\ outcome[i] \in {"owned", "demoted", "expired", "replayed"}}

\* A message that came behind its own proof goes without one only because the
\* bound dropped a proof of its capability, or because a message without one took
\* it: however streams and the control loop interleave, eviction costs one
\* operation each.
StarvedByEvictionOnly ==
    \A c \in Caps : Cardinality(Starved(c)) <= evicted[c] + Cardinality(Borrowers(c))

\* Every control message is refused, ignored or served, or the session ends: a
\* full queue holds the loop up, and never for good.
Settles(i) ==
    \/ closed
    \/ outcome[i] \in Refused \cup {"ignored"}
    \/ i \in served
EveryMessageSettles ==
    \A i \in Ids : []<>(outcome[i] = "none" \/ msgs[i].cap \in StreamCaps \/ Settles(i))
================================================================================
