------------------------------ MODULE FileTransfer ------------------------------
(****************************************************************************)
(* A whole transfer: send.go's SendWithID and its pump, FileReceive's       *)
(* receiver, and the session between them.  The control stream is a FIFO in *)
(* each direction, each data stream a FIFO of its own, and a session that   *)
(* dies takes what is in all of them.  A transfer interrupted that way, or  *)
(* abandoned by its caller, may be offered again under the same id.         *)
(*                                                                          *)
(* A data stream holds Window frames the receiver has not read; after that  *)
(* a Write waits, with no deadline.  A receiver that leaves a stream with   *)
(* an error resets it and ends the Write; one that returns nil does not.    *)
(****************************************************************************)
EXTENDS FileReceive, Sequences

CONSTANTS
    RetryUnanswered, \* may an id be offered again while its last call may be answered?
    MaxCalls,        \* bound on SendOffer: calls of SendWithID
    MaxDrops,        \* bound on DropSession
    MaxMishaps,      \* bound on what Mishap counts
    Window           \* frames a stream holds unread: its flow-control window

ASSUME BoundsAreNat == MaxCalls \in Nat /\ MaxDrops \in Nat /\ MaxMishaps \in Nat
ASSUME WindowIsPositive == Window \in Nat \ {0}
ASSUME RetryType == RetryUnanswered \in BOOLEAN
ASSUME EnoughToRun ==
    /\ MaxCalls <= Cardinality(Attempts)
    /\ MaxCalls * StreamCount <= Cardinality(Streams)

VARIABLES
    send,        \* id -> the sender's SendWithID call
    toRecv,      \* the control stream, sender to receiver
    toSend,      \* the control stream, receiver to sender
    data,        \* stream -> its worker, and what is in flight on it
    sess,        \* attempt -> the session it was offered on
    asked,       \* the session of the re-offer the handler is taking up
    calls,       \* calls of SendWithID so far
    drops,       \* sessions lost so far; the live session is number drops
    mishaps      \* calls ended by their caller, chunks corrupted or unreadable, and
                 \* waits for a manifest that timed out, so far

wire     == <<toRecv, toSend, data>>
sendVars == <<send, wire, sess, asked, calls, drops, mishaps>>
allVars  == <<vars, sendVars>>

Message == [type : {"offer", "manifest", "cancel", "accept", "reject", "complete"},
            id : Ids, have : SUBSET Chunks, flag : BOOLEAN]
Msg(type, t) == [type |-> type, id |-> t, have |-> {}, flag |-> FALSE]
Frame == [c : Chunks, match : BOOLEAN]

\* pc: not called, waiting for the accept, in pump, waiting for completion,
\* returned.  done is the peer's verdict: the first TransferComplete's ok, or
\* FALSE for a refusal.  on is the session the call runs on.  gone: its context
\* is done or it is cancelled; failed: a worker has put an error in errs.
SendState == [pc : {"idle", "offered", "pumping", "sent", "ok", "error"},
              have : SUBSET Chunks, claimed : SUBSET Chunks, done : {None} \cup BOOLEAN,
              on : 0..MaxDrops, gone : BOOLEAN, failed : BOOLEAN]
Start(pc, on) == [pc |-> pc, have |-> {}, claimed |-> {}, done |-> None, on |-> on,
                  gone |-> FALSE, failed |-> FALSE]

\* pc is the worker's: at the top of sendChunks' loop, in Write with the frame
\* out, or done.  end is the stream's: open, closed by the sender, or reset.
NoData == [pc |-> "unopened", id |-> None, q |-> <<>>, out |-> None, end |-> "open"]
DataState == [pc : {"unopened", "loop", "writing", "done"}, id : {None} \cup Ids,
              q : Seq(Frame), out : {None} \cup Frame, end : {"open", "eof", "reset"}]

XferTypeOK ==
    /\ TypeOK
    /\ send \in [Ids -> SendState]
    /\ toRecv \in Seq(Message)
    /\ toSend \in Seq(Message)
    /\ data \in [Streams -> DataState]
    /\ sess \in [Attempts -> 0..MaxDrops]
    /\ asked \in {None} \cup 0..MaxDrops
    /\ calls \in 0..MaxCalls
    /\ drops \in 0..MaxDrops
    /\ mishaps \in 0..MaxMishaps

XferInit ==
    /\ Init
    /\ send = [t \in Ids |-> Start("idle", 0)]
    /\ toRecv = <<>>
    /\ toSend = <<>>
    /\ data = [s \in Streams |-> NoData]
    /\ sess = [a \in Attempts |-> 0]
    /\ asked = None
    /\ calls = 0
    /\ drops = 0
    /\ mishaps = 0

Busy == {"offered", "pumping", "sent"}
Workers(t) == {s \in Streams : data[s].id = t /\ data[s].pc \in {"loop", "writing"}}

Mishap == mishaps < MaxMishaps /\ mishaps' = mishaps + 1

----------------------------------------------------------------------------
(* The sender.                                                              *)

\* An id is offered again on reconnect (PROTOCOL.md section 8.4) or once the peer
\* has answered the call before; RetryUnanswered allows any retry.
MayRetry(t) == RetryUnanswered \/ send[t].done # None \/ send[t].on # drops

\* SendWithID up to its first wait.
SendOffer(t) ==
    /\ send[t].pc = "idle" \/ (send[t].pc = "error" /\ MayRetry(t))
    /\ calls < MaxCalls
    /\ calls' = calls + 1
    /\ send' = [send EXCEPT ![t] = Start("offered", drops)]
    /\ toRecv' = Append(toRecv, Msg("offer", t))
    /\ UNCHANGED <<vars, toSend, data, sess, asked, drops, mishaps>>

Hears(type, t) ==
    /\ toSend # <<>> /\ Head(toSend).type = type /\ Head(toSend).id = t
    /\ toSend' = Tail(toSend)

\* The streams are alike, so which of them are next is no choice worth making.
NewStreams == CHOOSE ss \in SUBSET {s \in Streams : data[s].pc = "unopened"} :
                Cardinality(ss) = StreamCount
NewAttempt == CHOOSE a \in Attempts : owner[a] = None

\* TransferAccept: SetHave, the manifest, and the data streams.  A call whose
\* context is done sends nothing more.
OnAccept(t) ==
    /\ Hears("accept", t)
    /\ IF send[t].pc = "offered" /\ ~send[t].gone
       THEN LET ss == NewStreams IN
              /\ send' = [send EXCEPT ![t].pc = "pumping", ![t].have = Head(toSend).have]
              /\ toRecv' = Append(toRecv, Msg("manifest", t))
              /\ data' = [s \in Streams |->
                            IF s \in ss THEN [NoData EXCEPT !.pc = "loop", !.id = t]
                            ELSE data[s]]
       ELSE UNCHANGED <<send, toRecv, data>>
    /\ UNCHANGED <<vars, sess, asked, calls, drops, mishaps>>

OnReject(t) ==
    /\ Hears("reject", t)
    /\ send' = IF send[t].pc = "offered"
               THEN [send EXCEPT ![t].pc = "error", ![t].done = FALSE] ELSE send
    /\ UNCHANGED <<vars, toRecv, data, sess, asked, calls, drops, mishaps>>

\* TransferComplete: completeOnce keeps the first; with no call it is ignored.
OnComplete(t) ==
    /\ Hears("complete", t)
    /\ send' = IF send[t].pc \in Busy /\ send[t].done = None
               THEN [send EXCEPT ![t].done = Head(toSend).flag] ELSE send
    /\ UNCHANGED <<vars, toRecv, data, sess, asked, calls, drops, mishaps>>

\* Plan.Claim: the chunks in a fixed order, without those the receiver has.
Unclaimed(t) == Chunks \ (send[t].have \cup send[t].claimed)
Claim(t) == CHOOSE c \in Unclaimed(t) : TRUE

\* A turn of sendChunks' loop: a worker claims a chunk and reads its source,
\* which may have changed since its digest was taken.
SendChunk(s, match) ==
    LET t == data[s].id
        c == Claim(t) IN
    /\ data[s].pc = "loop"
    /\ ~send[t].gone
    /\ Unclaimed(t) # {}
    /\ IF match THEN UNCHANGED mishaps ELSE Mishap
    /\ send' = [send EXCEPT ![t].claimed = @ \cup {c}]
    /\ data' = [data EXCEPT ![s].pc = "writing", ![s].out = [c |-> c, match |-> match]]
    /\ UNCHANGED <<vars, toRecv, toSend, sess, asked, calls, drops>>

\* Write returns: the window has room.
WriteFrame(s) ==
    /\ data[s].pc = "writing" /\ data[s].end = "open"
    /\ Len(data[s].q) < Window
    /\ data' = [data EXCEPT ![s].pc = "loop", ![s].q = Append(@, data[s].out), ![s].out = None]
    /\ UNCHANGED <<vars, send, toRecv, toSend, sess, asked, calls, drops, mishaps>>

\* A worker that fails resets its stream and leaves its error to pump.
Fails(s) ==
    /\ send' = [send EXCEPT ![data[s].id].failed = TRUE]
    /\ data' = [data EXCEPT ![s].pc = "done", ![s].out = None, ![s].end = "reset"]
    /\ UNCHANGED <<vars, toRecv, toSend, sess, asked, calls, drops>>

\* At the loop's top the context is done, or in Write the stream has been reset.
StopWorker(s) ==
    /\ \/ data[s].pc = "loop" /\ send[data[s].id].gone
       \/ data[s].pc = "writing" /\ data[s].end = "reset"
    /\ Fails(s)
    /\ UNCHANGED mishaps

\* The source of a claimed chunk cannot be read.
SourceFails(s) ==
    /\ data[s].pc = "loop"
    /\ ~send[data[s].id].gone
    /\ Unclaimed(data[s].id) # {}
    /\ Mishap
    /\ Fails(s)

\* The plan is drained: the worker closes its stream.
CloseStream(s) ==
    /\ data[s].pc = "loop"
    /\ ~send[data[s].id].gone
    /\ Unclaimed(data[s].id) = {}
    /\ data' = [data EXCEPT ![s].pc = "done", ![s].end = IF @ = "open" THEN "eof" ELSE @]
    /\ UNCHANGED <<vars, send, toRecv, toSend, sess, asked, calls, drops, mishaps>>

\* SendWithID returns; of the call only its verdict and session are remembered.
Return(t, pc) ==
    /\ send' = [send EXCEPT ![t] = [Start(pc, @.on) EXCEPT !.done = send[t].done]]
    /\ UNCHANGED <<vars, wire, sess, asked, calls, drops, mishaps>>

\* pump has waited for every worker, whatever became of the call.
Pumped(t) ==
    /\ send[t].pc = "pumping"
    /\ Workers(t) = {}
    /\ Return(t, IF send[t].failed THEN "error" ELSE "sent")

\* Slip: any TransferComplete is a success.
SendDoneSlip(t) ==
    /\ send[t].pc = "sent"
    /\ send[t].done # None
    /\ Return(t, "ok")

SendDone(t) ==
    /\ send[t].pc = "sent"
    /\ send[t].done # None
    /\ Return(t, IF send[t].done THEN "ok" ELSE "error")

\* Its two selects see the context, the cancel and the session.
GiveUp(t) ==
    /\ send[t].pc \in {"offered", "sent"}
    /\ send[t].gone \/ send[t].on # drops
    /\ Return(t, "error")

\* The caller's context ends; nothing is sent.
Abandon(t) ==
    /\ send[t].pc \in Busy /\ ~send[t].gone
    /\ Mishap
    /\ send' = [send EXCEPT ![t].gone = TRUE]
    /\ UNCHANGED <<vars, wire, sess, asked, calls, drops>>

\* Capability.Cancel on the sending side: the peer is told, the call aborted.
CancelSend(t, drop) ==
    /\ send[t].pc \in Busy /\ ~send[t].gone /\ send[t].on = drops
    /\ toRecv' = Append(toRecv, [Msg("cancel", t) EXCEPT !.flag = drop])
    /\ Mishap
    /\ send' = [send EXCEPT ![t].gone = TRUE]
    /\ UNCHANGED <<vars, toSend, data, sess, asked, calls, drops>>

----------------------------------------------------------------------------
(* The session.                                                             *)

\* sess.Done: messages and data in flight are gone, and every stream is reset.
DropSession ==
    /\ drops < MaxDrops
    /\ drops' = drops + 1
    /\ toRecv' = <<>>
    /\ toSend' = <<>>
    /\ data' = [s \in Streams |->
                  IF data[s].pc = "unopened" THEN data[s]
                  ELSE [data[s] EXCEPT !.end = "reset", !.q = <<>>]]
    /\ UNCHANGED <<vars, send, sess, asked, calls, mishaps>>

\* A receiver's message reaches the sender only if its session is still alive.
Reply(session, msg) == toSend' = IF session = drops THEN Append(toSend, msg) ELSE toSend

----------------------------------------------------------------------------
(* The receiver, fed by the session.                                        *)

Arrives(type, t) ==
    /\ toRecv # <<>> /\ Head(toRecv).type = type /\ Head(toRecv).id = t
    /\ handler.op = "idle"
    /\ toRecv' = Tail(toRecv)

\* Slip: have_chunks lists every bit of the last byte.
AcceptingSlip(t) == [Msg("accept", t) EXCEPT !.have = LoadedBits(t) \cup {None}]
Accepting(t) == [Msg("accept", t) EXCEPT !.have = LoadedBits(t)]

\* onOffer: declined by Config.Accept, taken up at once, or after a supersede.
Decline(t) ==
    /\ Arrives("offer", t)
    /\ toSend' = Append(toSend, Msg("reject", t))
    /\ UNCHANGED <<vars, send, data, sess, asked, calls, drops, mishaps>>

RecvOffer(t) ==
    /\ Arrives("offer", t)
    /\ \E a \in Attempts : owner[a] = None
    /\ Offer(t, NewAttempt, TRUE)
    /\ Reply(drops, Accepting(t))
    /\ sess' = [sess EXCEPT ![NewAttempt] = drops]
    /\ UNCHANGED <<send, data, asked, calls, drops, mishaps>>

RecvReoffer(t) ==
    /\ Arrives("offer", t)
    /\ Supersede(t)
    /\ asked' = drops
    /\ UNCHANGED <<send, toSend, data, sess, calls, drops, mishaps>>

RecvReplace ==
    /\ ReplaceSuperseded(NewAttempt, asked = drops)
    /\ Reply(asked, Accepting(handler.id))
    /\ sess' = [sess EXCEPT ![NewAttempt] = asked]
    /\ asked' = None
    /\ UNCHANGED <<send, toRecv, data, calls, drops, mishaps>>

\* A manifest or a cancel for an id with no live attempt is dropped.
RecvManifest(t) ==
    /\ Arrives("manifest", t)
    /\ IF cur[t] # None THEN Manifest(t) ELSE UNCHANGED vars
    /\ UNCHANGED <<send, toSend, data, sess, asked, calls, drops, mishaps>>

RecvCancel(t) ==
    /\ Arrives("cancel", t)
    /\ IF cur[t] # None THEN Cancel(t, Head(toRecv).flag) ELSE UNCHANGED vars
    /\ UNCHANGED <<send, toSend, data, sess, asked, calls, drops, mishaps>>

\* A stream's StreamInit arrives; one for an id that is not live is reset.
RecvStream(s) ==
    /\ data[s].pc # "unopened"
    /\ OpenStream(s, data[s].id)
    /\ UNCHANGED sendVars

Reset(s) == data' = [data EXCEPT ![s].end = "reset", ![s].q = <<>>]

RefuseStream(s) ==
    /\ data[s].pc # "unopened" /\ data[s].end # "reset"
    /\ strm[s].pc = "idle" /\ cur[data[s].id] = None
    /\ Reset(s)
    /\ UNCHANGED <<vars, send, toRecv, toSend, sess, asked, calls, drops, mishaps>>

RecvChunk(s) ==
    /\ data[s].q # <<>>
    /\ TakeChunk(s, Head(data[s].q).c, Head(data[s].q).match)
    /\ data' = [data EXCEPT ![s].q = Tail(@)]
    /\ UNCHANGED <<send, toRecv, toSend, sess, asked, calls, drops, mishaps>>

\* serveStream returns: the stream has ended or was reset, or its attempt was
\* aborted, and then it is left as it is.
RecvEnd(s) ==
    /\ strm[s].a # None
    /\ \/ data[s].end = "eof" /\ data[s].q = <<>>
       \/ data[s].end = "reset"
       \/ aborted[strm[s].a]
    /\ EndStream(s)
    /\ UNCHANGED sendVars

\* No manifest for manifestWait: an error, and so a reset.
RecvTimeout(s) ==
    /\ strm[s].pc = "waiting" /\ ~manifest[strm[s].a]
    /\ Mishap
    /\ EndStream(s)
    /\ Reset(s)
    /\ UNCHANGED <<send, toRecv, toSend, sess, asked, calls, drops>>

\* Writing to a closed handle is one too.
RecvWrite(s) ==
    /\ WriteChunk(s)
    /\ IF strm'[s].pc = "done" THEN Reset(s) ELSE UNCHANGED data
    /\ UNCHANGED <<send, toRecv, toSend, sess, asked, calls, drops, mishaps>>

\* Slip: only a success is reported.
RecvReportSlip(a) ==
    /\ Report(a)
    /\ IF good[a] THEN Reply(sess[a], [Msg("complete", owner[a]) EXCEPT !.flag = TRUE])
       ELSE UNCHANGED toSend
    /\ UNCHANGED <<send, toRecv, data, sess, asked, calls, drops, mishaps>>

RecvReport(a) ==
    /\ Report(a)
    /\ Reply(sess[a], [Msg("complete", owner[a]) EXCEPT !.flag = good[a]])
    /\ UNCHANGED <<send, toRecv, data, sess, asked, calls, drops, mishaps>>

\* What the receiver's goroutines do with no message.
RecvHandler ==
    /\ HandlerSnapshot \/ HandlerRename \/ RemoveParts \/ DiscardState
    /\ UNCHANGED sendVars
RecvStep(s) == (StreamReady(s) \/ MarkChunk(s)) /\ UNCHANGED sendVars
RecvTick(a) == (TickSnapshot(a) \/ TickRename(a)) /\ UNCHANGED sendVars
RecvFinish(a) ==
    /\ \/ FinishBegin(a) \/ CopyFailures(a) \/ TestComplete(a) \/ FinishSnapshot(a)
       \/ Retire(a) \/ FinishRename(a) \/ DropBitmap(a)
       \/ \E f \in Files : RenameFile(a, f)
    /\ UNCHANGED sendVars

XferNext ==
    \/ \E t \in Ids :
         \/ SendOffer(t) \/ OnAccept(t) \/ OnReject(t) \/ OnComplete(t)
         \/ Pumped(t) \/ SendDone(t) \/ GiveUp(t) \/ Abandon(t)
         \/ \E drop \in BOOLEAN : CancelSend(t, drop)
         \/ Decline(t) \/ RecvOffer(t) \/ RecvReoffer(t) \/ RecvManifest(t) \/ RecvCancel(t)
    \/ \E s \in Streams :
         \/ \E m \in BOOLEAN : SendChunk(s, m)
         \/ WriteFrame(s) \/ StopWorker(s) \/ SourceFails(s) \/ CloseStream(s)
         \/ RecvStream(s) \/ RefuseStream(s) \/ RecvChunk(s) \/ RecvEnd(s)
         \/ RecvTimeout(s) \/ RecvWrite(s) \/ RecvStep(s)
    \/ \E a \in Attempts : RecvReport(a) \/ RecvFinish(a) \/ RecvTick(a)
    \/ RecvHandler \/ RecvReplace
    \/ DropSession

XferSpec == XferInit /\ [][XferNext]_allVars

\* The two ends go on while a goroutine of either can, and a live session
\* delivers: less than the scheduler gives each of them.  Nobody owes an offer, a
\* cancel, a refusal, an abandoned call, a tick, a timeout or a lost session.
SenderGoesOn ==
    \/ \E t \in Ids : \/ OnAccept(t) \/ OnReject(t) \/ OnComplete(t)
                      \/ Pumped(t) \/ SendDone(t) \/ GiveUp(t)
    \/ \E s \in Streams : SendChunk(s, TRUE) \/ WriteFrame(s) \/ StopWorker(s) \/ CloseStream(s)

ReceiverGoesOn ==
    \/ \E t \in Ids : RecvOffer(t) \/ RecvReoffer(t) \/ RecvManifest(t) \/ RecvCancel(t)
    \/ \E s \in Streams : \/ RecvStream(s) \/ RefuseStream(s) \/ RecvChunk(s)
                          \/ RecvEnd(s) \/ RecvWrite(s) \/ RecvStep(s)
    \/ \E a \in Attempts : RecvReport(a) \/ RecvFinish(a)
    \/ RecvHandler \/ RecvReplace

Fairness == WF_allVars(SenderGoesOn \/ ReceiverGoesOn)

FairXferSpec == XferSpec /\ Fairness

----------------------------------------------------------------------------
(* Properties.                                                              *)

Delivered == {t \in Ids : \A f \in Files : Whole(final[PathOf(t, f)], t, f)}
Result == [t \in Ids |-> IF send[t].pc \in {"ok", "error"} THEN send[t].pc ELSE "pending"]

\* The transfer implements FileDelivery: Send returns nil only once every file
\* is whole and in place at the receiver, and no later retry takes it away,
\* late flushes of the bitmap included; except for an id whose bitmap such a
\* flush had brought back when it was offered again.
Delivery == INSTANCE FileDelivery WITH
    delivered <- Delivered, voided <- revived, result <- Result
ImplementsDelivery == Delivery!Spec

\* A worker is in Write on a stream with no room whose reader has returned
\* without a reset: serveStream's nil, of an attempt aborted by a cancel.
Stuck(t) ==
    \E s \in Workers(t) :
        /\ data[s].pc = "writing" /\ data[s].end = "open" /\ Len(data[s].q) >= Window
        /\ strm[s].pc = "done"

\* SendWithID returns: whatever the receiver, the session or the caller do, no
\* call waits for ever for an accept or a completion nobody will send, or for
\* its workers, except while one is stuck in Write.
SendReturns == \A t \in Ids : []<>(send[t].pc \notin Busy \/ Stuck(t))

=================================================================================
