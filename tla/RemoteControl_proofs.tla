-------------------------- MODULE RemoteControl_proofs --------------------------
(****************************************************************************)
(* Proofs about what an announcement allows.  RemoteControl: its types, and *)
(* that input is sent only for an announcement the controlled device has    *)
(* recorded.  RemoteInput, for which only the number of announcements       *)
(* counts: its types, that input stops when the last announcement ends, and *)
(* that an older move overtakes a newer one once for each ended one at most.*)
(****************************************************************************)
EXTENDS RemoteControl, RemoteInput, SequenceTheorems, FiniteSetTheorems, TLAPS

Request == [pc : {"idle", "sent", "waiting", "acked", "using", "done"},
            use : Requests \cup {None}]
Kill == [pc : {"idle", "chosen", "ending", "telling"}, left : SUBSET Requests,
         id : Requests \cup {None}]

\* A message being answered and a victim being told have an id.
IdsAreKnown ==
    /\ handler.pc # "idle" => handler.id \in Requests
    /\ \A u \in Killers : killer[u].pc = "telling" => killer[u].id \in Requests

TypeInv == TypeOK /\ IdsAreKnown

\* Every yes in a channel is for one of the announcements in R.
YesFor(ch, R) == \A n \in 1..Len(ch) : ch[n].type = "yes" => ch[n].id \in R

\* The way of a yes: from the queue that records the announcement, through the
\* channel and the acknowledgement's waiter, to the session that is stored and used.
Justified ==
    /\ handler.pc \in {"recorded", "watched"} => handler.id \in recorded
    /\ YesFor(toInit, recorded)
    /\ \A r \in Requests : acks[r] = "yes" => r \in recorded
    /\ \A r \in Requests : req[r].pc = "acked" => r \in recorded

Inv == TypeInv /\ Justified /\ StoredMeansRecorded

----------------------------------------------------------------------------
(* Channels.                                                                *)

LEMMA PostKeepsType ==
    ASSUME NEW ch \in Seq(Message), NEW i \in Requests,
           NEW type \in {"announce", "end", "yes", "no", "kill"}
    PROVE  Post(ch, type, i) \in Seq(Message)
<1>1. Msg(type, i) \in Message
    BY DEF Msg, Message
<1>2. Append(ch, Msg(type, i)) \in Seq(Message)
    BY <1>1
<1> QED  BY <1>2 DEF Post

LEMMA PostKeepsYes ==
    ASSUME NEW ch \in Seq(Message), NEW R, YesFor(ch, R), NEW i \in Requests, NEW type,
           type = "yes" => i \in R
    PROVE  YesFor(Post(ch, type, i), R)
<1>1. CASE ~connected
    BY <1>1 DEF Post
<1>2. CASE connected
    <2>1. Post(ch, type, i) = Append(ch, Msg(type, i))
        BY <1>2 DEF Post
    <2>2. SUFFICES ASSUME NEW n \in 1..Len(Append(ch, Msg(type, i))),
                          Append(ch, Msg(type, i))[n].type = "yes"
                   PROVE  Append(ch, Msg(type, i))[n].id \in R
        BY <2>1 DEF YesFor
    <2>3. CASE n \in 1..Len(ch)
        BY <2>2, <2>3 DEF YesFor
    <2>4. CASE n = Len(ch) + 1
        BY <2>2, <2>4 DEF Msg
    <2> QED  BY <2>3, <2>4
<1> QED  BY <1>1, <1>2

LEMMA TailKeepsYes ==
    ASSUME NEW ch \in Seq(Message), ch # <<>>, NEW R, YesFor(ch, R)
    PROVE  /\ Tail(ch) \in Seq(Message)
           /\ YesFor(Tail(ch), R)
           /\ Head(ch) \in Message
           /\ Head(ch).type = "yes" => Head(ch).id \in R
<1>1. /\ Tail(ch) \in Seq(Message)
      /\ Head(ch) \in Message
    OBVIOUS
<1>2. YesFor(Tail(ch), R)
    <2>1. SUFFICES ASSUME NEW n \in 1..Len(Tail(ch)), Tail(ch)[n].type = "yes"
                   PROVE  Tail(ch)[n].id \in R
        BY DEF YesFor
    <2>2. n + 1 \in 1..Len(ch) /\ Tail(ch)[n] = ch[n + 1]
        OBVIOUS
    <2> QED  BY <2>1, <2>2 DEF YesFor
<1>3. Head(ch) = ch[1] /\ 1 \in 1..Len(ch)
    OBVIOUS
<1> QED  BY <1>1, <1>2, <1>3 DEF YesFor

----------------------------------------------------------------------------
(* Types.                                                                   *)

LEMMA DoneType ==
    ASSUME req \in [Requests -> Request], NEW r \in Requests, Done(r)
    PROVE  req' \in [Requests -> Request]
<1>1. [pc |-> "done", use |-> None] \in Request
    BY DEF Request
<1> QED  BY <1>1 DEF Done

LEMMA BeginType ==
    ASSUME req \in [Requests -> Request], NEW r \in Requests, NEW i \in Requests, Begin(r, i)
    PROVE  req' \in [Requests -> Request] /\ control' \in Requests \cup {None}
<1>1. [pc |-> "using", use |-> i] \in Request
    BY DEF Request
<1> QED  BY <1>1, DoneType DEF Begin

LEMMA StepType ==
    ASSUME req \in [Requests -> Request], NEW r \in Requests,
           NEW pc \in {"idle", "sent", "waiting", "acked", "using", "done"},
           req' = [req EXCEPT ![r].pc = pc]
    PROVE  req' \in [Requests -> Request]
<1>1. [req[r] EXCEPT !.pc = pc] \in Request
    BY DEF Request
<1> QED  BY <1>1

LEMMA InitType == Init => TypeInv
<1> SUFFICES ASSUME Init PROVE TypeInv
    OBVIOUS
<1>1. toTarget \in Seq(Message) /\ toInit \in Seq(Message)
    BY DEF Init
<1>0. 0 \in 0..MaxDrops /\ 0 \in Nat
    BY MaxDropsIsNat
<1>2. /\ req \in [Requests -> Request]
      /\ closes \in [Requests -> Nat]
      /\ acks \in [Requests -> {"none", "empty", "yes", "no"}]
    BY DEF Init, Request
<1>3. killer \in [Killers -> Kill]
    BY DEF Init, Resting, Kill
<1>4. TypeOK
    BY <1>0, <1>1, <1>2, <1>3 DEF Init, TypeOK, Ready, Request, Kill
<1>5. IdsAreKnown
    BY DEF Init, IdsAreKnown, Ready, Resting
<1> QED  BY <1>4, <1>5 DEF TypeInv

LEMMA NextType == TypeInv /\ [Next]_vars => TypeInv'
<1> SUFFICES ASSUME TypeInv, [Next]_vars PROVE TypeInv'
    OBVIOUS
<1> USE NoneIsNoRequest
<1>1. ASSUME NEW r \in Requests, Lookup(r) PROVE TypeInv'
    <2>1. Post(toTarget, "announce", r) \in Seq(Message)
        BY PostKeepsType DEF TypeInv, TypeOK
    <2>2. toTarget' \in Seq(Message)
        BY <1>1, <2>1 DEF Lookup, TypeInv, TypeOK
    <2>3. req' \in [Requests -> Request] /\ control' \in Requests \cup {None}
        <3>1. req \in [Requests -> Request]
            BY DEF TypeInv, TypeOK, Request
        <3>2. CASE control = None
            BY <1>1, <3>1, <3>2, StepType DEF Lookup
        <3>3. CASE control # None
            <4>1. control \in Requests /\ Begin(r, control)
                BY <1>1, <3>3 DEF Lookup, TypeInv, TypeOK
            <4> QED  BY <3>1, <4>1, BeginType
        <3> QED  BY <3>2, <3>3
    <2> QED  BY <1>1, <2>2, <2>3 DEF Lookup, TypeInv, TypeOK, IdsAreKnown, target, announced, Request
<1>2. ASSUME NEW r \in Requests,
             Register(r) \/ Acked(r) \/ Refused(r) \/ TimeOut(r)
      PROVE  TypeInv'
    <2>0. req \in [Requests -> Request]
        BY DEF TypeInv, TypeOK, Request
    <2>1. req' \in [Requests -> Request]
        BY <1>2, <2>0, DoneType, StepType DEF Register, Acked, Refused, TimeOut
    <2>2. /\ acks' \in [Requests -> {"none", "empty", "yes", "no"}]
          /\ kills' \in SUBSET Requests
        BY <1>2 DEF Register, Acked, Refused, TimeOut, TypeInv, TypeOK
    <2>3. UNCHANGED <<control, closes, watching, target, link>>
        BY <1>2 DEF Register, Acked, Refused, TimeOut
    <2> QED  BY <2>1, <2>2, <2>3 DEF TypeInv, TypeOK, IdsAreKnown, target, announced, link, Request
<1>3. ASSUME NEW r \in Requests, Store(r) \/ Act(r) \/ ActFails(r) \/ DropControl(r)
      PROVE  TypeInv'
    <2>0. req \in [Requests -> Request]
        BY DEF TypeInv, TypeOK, Request
    <2>1. /\ req' \in [Requests -> Request]
          /\ control' \in Requests \cup {None}
        <3>1. CASE Store(r)
            BY <2>0, <3>1, BeginType DEF Store
        <3>2. CASE Act(r) \/ ActFails(r)
            BY <2>0, <3>2, DoneType DEF Act, ActFails, TypeInv, TypeOK
        <3>3. CASE DropControl(r)
            BY <2>0, <3>3 DEF DropControl
        <3> QED  BY <1>3, <3>1, <3>2, <3>3
    <2>4. watching' \in SUBSET Requests
        BY <1>3 DEF Store, Act, ActFails, DropControl, TypeInv, TypeOK
    <2>2. inflight' \in Nat
        BY <1>3 DEF Store, Act, ActFails, DropControl, TypeInv, TypeOK, link
    <2>3. UNCHANGED <<kills, closes, acks, target, toTarget, toInit, connected, drops>>
        BY <1>3 DEF Store, Act, ActFails, DropControl, link
    <2> QED  BY <2>1, <2>2, <2>3, <2>4 DEF TypeInv, TypeOK, IdsAreKnown, target, announced, Request
<1>4. ASSUME NEW r \in Requests, ControlIdle(r) PROVE TypeInv'
    <2>1. \A i \in Requests : Post(toTarget, "end", i) \in Seq(Message)
        BY PostKeepsType DEF TypeInv, TypeOK
    <2>2. toTarget' \in Seq(Message)
        BY <1>4, <2>1 DEF ControlIdle, EndAnnounced, TypeInv, TypeOK
    <2> QED  BY <1>4, <2>2 DEF ControlIdle, EndAnnounced, TypeInv, TypeOK, IdsAreKnown,
               target, announced
<1>5. CASE StopControlling
    <2>1. \A i \in Requests : Post(toTarget, "end", i) \in Seq(Message)
        BY PostKeepsType DEF TypeInv, TypeOK
    <2>2. toTarget' \in Seq(Message)
        BY <1>5, <2>1 DEF StopControlling, EndAnnounced, TypeInv, TypeOK
    <2> QED  BY <1>5, <2>2 DEF StopControlling, EndAnnounced, TypeInv, TypeOK, IdsAreKnown,
               target, announced
<1>6. CASE HearAnswer
    <2>1. Head(toInit) \in Message /\ Tail(toInit) \in Seq(Message)
        BY <1>6 DEF HearAnswer, TypeInv, TypeOK
    <2>2. acks' \in [Requests -> {"none", "empty", "yes", "no"}]
        BY <1>6, <2>1 DEF HearAnswer, TypeInv, TypeOK, Message
    <2>3. closes' \in [Requests -> Nat]
        BY <1>6, <2>1 DEF HearAnswer, TypeInv, TypeOK, Message
    <2> QED  BY <1>6, <2>1, <2>2, <2>3 DEF HearAnswer, TypeInv, TypeOK, IdsAreKnown,
               target, announced
<1>7. ASSUME NEW i \in Requests, HearAnnounce(i) PROVE TypeInv'
    <2>1. toTarget' \in Seq(Message)
        BY <1>7 DEF HearAnnounce, Arrives, TypeInv, TypeOK
    <2>2. Post(toInit, "no", i) \in Seq(Message)
        BY PostKeepsType DEF TypeInv, TypeOK
    <2>3. toInit' \in Seq(Message)
        BY <1>7, <2>2 DEF HearAnnounce, TypeInv, TypeOK
    <2>4. /\ handler' \in [pc : {"idle", "accepted", "recorded", "watched"},
                          id : Requests \cup {None}, up : BOOLEAN]
          /\ handler'.pc # "idle" => handler'.id \in Requests
        <3>1. CASE cooling
            <4>1. handler' = handler
                BY <1>7, <3>1 DEF HearAnnounce
            <4>2. handler \in [pc : {"idle", "accepted", "recorded", "watched"},
                               id : Requests \cup {None}, up : BOOLEAN]
                BY DEF TypeInv, TypeOK
            <4>3. handler.pc # "idle" => handler.id \in Requests
                BY DEF TypeInv, IdsAreKnown
            <4> QED  BY <4>1, <4>2, <4>3
        <3>2. CASE ~cooling
            <4>1. handler' = [pc |-> "accepted", id |-> i, up |-> TRUE]
                BY <1>7, <3>2 DEF HearAnnounce
            <4> QED  BY <4>1
        <3> QED  BY <3>1, <3>2
    <2> QED  BY <1>7, <2>1, <2>3, <2>4 DEF HearAnnounce, TypeInv, TypeOK, IdsAreKnown,
               initiator, announced
<1>8. ASSUME NEW i \in Requests, HearEnd(i) PROVE TypeInv'
    <2>1. toTarget' \in Seq(Message)
        BY <1>8 DEF HearEnd, Arrives, TypeInv, TypeOK
    <2> QED  BY <1>8, <2>1 DEF HearEnd, DropAnnouncement, TypeInv, TypeOK, IdsAreKnown, initiator
<1>9. ASSUME NEW i \in Requests, FallSilent(i) \/ WatchAnnouncement(i) PROVE TypeInv'
    BY <1>9 DEF FallSilent, WatchAnnouncement, DropAnnouncement, TypeInv, TypeOK, IdsAreKnown,
       initiator, link
<1>10. CASE RecordAnnouncement \/ SpawnWatch
    BY <1>10 DEF RecordAnnouncement, SpawnWatch, TypeInv, TypeOK, IdsAreKnown, initiator, link
<1>11. CASE Acknowledge
    <2>1. handler.id \in Requests
        BY <1>11 DEF Acknowledge, TypeInv, IdsAreKnown
    <2>2. Post(toInit, "yes", handler.id) \in Seq(Message)
        BY <2>1, PostKeepsType DEF TypeInv, TypeOK
    <2>3. toInit' \in Seq(Message)
        BY <1>11, <2>2 DEF Acknowledge, TypeInv, TypeOK
    <2> QED  BY <1>11, <2>3 DEF Acknowledge, Ready, TypeInv, TypeOK, IdsAreKnown, initiator,
               announced
<1>12. ASSUME NEW u \in Killers, Collect(u) \/ SetCooldown(u) PROVE TypeInv'
    <2>1. /\ killer' \in [Killers -> Kill]
          /\ \A v \in Killers : killer'[v].pc = "telling" => killer'[v].id \in Requests
        <3>1. CASE Collect(u)
            <4>1. [pc |-> "chosen", left |-> ann, id |-> None] \in Kill
                BY DEF TypeInv, TypeOK, Kill
            <4> QED  BY <3>1, <4>1 DEF Collect, TypeInv, TypeOK, IdsAreKnown, Kill
        <3>2. CASE SetCooldown(u)
            <4>1. killer \in [Killers -> Kill]
                BY DEF TypeInv, TypeOK, Kill
            <4>2. [killer[u] EXCEPT !.pc = "ending"] \in Kill
                BY <4>1 DEF Kill
            <4>3. killer' \in [Killers -> Kill]
                BY <3>2, <4>1, <4>2 DEF SetCooldown
            <4>4. \A v \in Killers : killer'[v].pc = "telling" => v # u /\ killer'[v] = killer[v]
                BY <3>2, <4>1 DEF SetCooldown, Kill
            <4> QED  BY <4>3, <4>4 DEF TypeInv, IdsAreKnown
        <3> QED  BY <1>12, <3>1, <3>2
    <2>2. UNCHANGED <<initiator, announced, handler, recorded, link>> /\ cooling' \in BOOLEAN
        BY <1>12 DEF Collect, SetCooldown, TypeInv, TypeOK
    <2> QED  BY <2>1, <2>2 DEF TypeInv, TypeOK, IdsAreKnown, initiator, announced, link, Kill
<1>13. ASSUME NEW u \in Killers, NEW i \in Requests, EndVictim(u, i) PROVE TypeInv'
    BY <1>13 DEF EndVictim, DropAnnouncement, TypeInv, TypeOK, IdsAreKnown, initiator, link
<1>14. ASSUME NEW u \in Killers, TellVictim(u) PROVE TypeInv'
    <2>1. killer[u].id \in Requests
        BY <1>14 DEF TellVictim, TypeInv, IdsAreKnown
    <2>2. Post(toInit, "kill", killer[u].id) \in Seq(Message)
        BY <2>1, PostKeepsType DEF TypeInv, TypeOK
    <2>3. toInit' \in Seq(Message)
        BY <1>14, <2>2 DEF TellVictim
    <2>4. /\ killer' \in [Killers -> Kill]
          /\ \A v \in Killers : killer'[v].pc = "telling" => killer'[v].id \in Requests
        BY <1>14 DEF TellVictim, Resting, TypeInv, TypeOK, IdsAreKnown, Kill
    <2> QED  BY <1>14, <2>3, <2>4 DEF TellVictim, TypeInv, TypeOK, IdsAreKnown, initiator,
               announced, Kill
<1>15. CASE CooldownOver \/ LoseInput \/ Reconnect
    <2>1. inflight' \in Nat
        BY <1>15 DEF CooldownOver, LoseInput, Reconnect, TypeInv, TypeOK, link
    <2>2. cooling' \in BOOLEAN /\ connected' \in BOOLEAN
        BY <1>15 DEF CooldownOver, LoseInput, Reconnect, TypeInv, TypeOK, target, link
    <2>3. UNCHANGED <<initiator, announced, handler, killer, recorded, toTarget, toInit, drops>>
        BY <1>15 DEF CooldownOver, LoseInput, Reconnect, target, link
    <2> QED  BY <2>1, <2>2, <2>3 DEF TypeInv, TypeOK, IdsAreKnown, initiator, announced
<1>16. CASE InputArrives
    <2>1. silent' \in SUBSET Requests
        BY <1>16 DEF InputArrives, TypeInv, TypeOK
    <2> QED  BY <1>16, <2>1 DEF InputArrives, TypeInv, TypeOK, IdsAreKnown, initiator
<1>17. CASE Disconnect
    <2>1. drops' \in 0..MaxDrops
        BY <1>17, MaxDropsIsNat DEF Disconnect, TypeInv, TypeOK
    <2>2. toTarget' \in Seq(Message) /\ toInit' \in Seq(Message)
        BY <1>17 DEF Disconnect
    <2>3. /\ handler' \in [pc : {"idle", "accepted", "recorded", "watched"},
                          id : Requests \cup {None}, up : BOOLEAN]
          /\ handler'.pc # "idle" => handler'.id \in Requests
        BY <1>17 DEF Disconnect, TypeInv, TypeOK, IdsAreKnown
    <2> QED  BY <1>17, <2>1, <2>2, <2>3 DEF Disconnect, TypeInv, TypeOK, IdsAreKnown, initiator, announced
<1>18. CASE UNCHANGED vars
    BY <1>18 DEF vars, initiator, target, announced, link, TypeInv, TypeOK, IdsAreKnown
<1> QED
    BY <1>1, <1>2, <1>3, <1>4, <1>5, <1>6, <1>7, <1>8, <1>9, <1>10, <1>11, <1>12, <1>13,
       <1>14, <1>15, <1>16, <1>17, <1>18 DEF Next, Initiator, Target, Killing

\* The control sessions' state has its type in every behaviour, for any number of
\* requests, kills and lost sessions.
THEOREM ControlTypeCorrect == Spec => []TypeOK
<1>1. TypeInv => TypeOK
    BY DEF TypeInv
<1> QED  BY <1>1, InitType, NextType, PTL DEF Spec

----------------------------------------------------------------------------
(* A yes, and a session that is used, have their announcement recorded.     *)

AcksJustified == \A r \in Requests : acks[r] = "yes" => r \in recorded
AckedJustified == \A r \in Requests : req[r].pc = "acked" => r \in recorded

\* What a step of the controlling device leaves alone.
LEMMA TargetSame ==
    ASSUME Inv, UNCHANGED <<handler, toInit, recorded>>, AcksJustified', AckedJustified',
           StoredMeansRecorded'
    PROVE  Justified' /\ StoredMeansRecorded'
BY DEF Inv, Justified, YesFor, AcksJustified, AckedJustified

\* And of the controlled one: there, announcements are only ever added.
LEMMA InitiatorSame ==
    ASSUME Inv, UNCHANGED initiator, recorded \subseteq recorded', YesFor(toInit', recorded'),
           handler'.pc \in {"recorded", "watched"} => handler'.id \in recorded'
    PROVE  Justified' /\ StoredMeansRecorded'
<1>1. UNCHANGED <<req, control, acks>>
    BY DEF initiator
<1> QED  BY <1>1 DEF Inv, Justified, StoredMeansRecorded

LEMMA NextJustified == Inv /\ [Next]_vars => Justified' /\ StoredMeansRecorded'
<1> SUFFICES ASSUME Inv, [Next]_vars PROVE Justified' /\ StoredMeansRecorded'
    OBVIOUS
<1>r. /\ req \in [Requests -> Request]
      /\ acks \in [Requests -> {"none", "empty", "yes", "no"}]
      /\ toInit \in Seq(Message)
    BY DEF Inv, TypeInv, TypeOK, Request
<1>y. YesFor(toInit, recorded)
    BY DEF Inv, Justified
<1>h. handler.pc \in {"recorded", "watched"} => handler.id \in recorded
    BY DEF Inv, Justified
<1>a. AcksJustified /\ AckedJustified /\ StoredMeansRecorded
    BY DEF Inv, Justified, AcksJustified, AckedJustified
<1>1. ASSUME NEW r \in Requests, Initiator(r) PROVE Justified' /\ StoredMeansRecorded'
    <2>1. UNCHANGED <<handler, toInit, recorded>>
        BY <1>1 DEF Initiator, Lookup, Register, Acked, Refused, TimeOut, Store, Act, ActFails,
           DropControl, ControlIdle, EndAnnounced, target, link
    <2>2. AcksJustified'
        <3>1. \A q \in Requests : acks'[q] = "yes" => acks[q] = "yes"
            BY <1>1, <1>r DEF Initiator, Lookup, Register, Acked, Refused, TimeOut, Store, Act,
               ActFails, DropControl, ControlIdle, EndAnnounced
        <3> QED  BY <1>a, <2>1, <3>1 DEF AcksJustified
    <2>3. ASSUME NEW i \in recorded, Begin(r, i) PROVE AckedJustified' /\ StoredMeansRecorded'
        BY <1>r, <1>a, <2>1, <2>3 DEF Begin, Done, AckedJustified, StoredMeansRecorded, Request
    <2>4. ASSUME Done(r), UNCHANGED control PROVE AckedJustified' /\ StoredMeansRecorded'
        BY <1>r, <1>a, <2>1, <2>4 DEF Done, AckedJustified, StoredMeansRecorded, Request
    <2>5. ASSUME NEW pc \in {"sent", "waiting", "acked"}, req' = [req EXCEPT ![r].pc = pc],
                 pc = "acked" => r \in recorded, UNCHANGED control
          PROVE  AckedJustified' /\ StoredMeansRecorded'
        BY <1>r, <1>a, <2>1, <2>5 DEF AckedJustified, StoredMeansRecorded, Request
    <2>6. ASSUME UNCHANGED req, control' \in {control, None}
          PROVE  AckedJustified' /\ StoredMeansRecorded'
        BY <1>a, <2>1, <2>6 DEF AckedJustified, StoredMeansRecorded
    <2>7. CASE Lookup(r)
        <3>1. ASSUME control = None PROVE AckedJustified' /\ StoredMeansRecorded'
            BY <2>5, <2>7, <3>1 DEF Lookup
        <3>2. ASSUME control # None PROVE AckedJustified' /\ StoredMeansRecorded'
            <4>1. control \in recorded /\ Begin(r, control)
                BY <1>a, <2>7, <3>2 DEF Lookup, StoredMeansRecorded
            <4> QED  BY <2>3, <4>1
        <3>3. AckedJustified' /\ StoredMeansRecorded'
            BY <3>1, <3>2
        <3> QED  BY <2>1, <2>2, <3>3, TargetSame
    <2>8. CASE Register(r) \/ Acked(r)
        <3>1. ASSUME Register(r) PROVE AckedJustified' /\ StoredMeansRecorded'
            BY <2>5, <3>1 DEF Register
        <3>2. ASSUME Acked(r) PROVE AckedJustified' /\ StoredMeansRecorded'
            <4>1. r \in recorded
                BY <1>a, <3>2 DEF Acked, IsYes, AcksJustified
            <4> QED  BY <2>5, <3>2, <4>1 DEF Acked
        <3>3. AckedJustified' /\ StoredMeansRecorded'
            BY <2>8, <3>1, <3>2
        <3> QED  BY <2>1, <2>2, <3>3, TargetSame
    <2>9. CASE Refused(r) \/ TimeOut(r) \/ Act(r) \/ ActFails(r)
        <3>1. Done(r) /\ UNCHANGED control
            BY <2>9 DEF Refused, TimeOut, Act, ActFails
        <3> QED  BY <2>1, <2>2, <2>4, <3>1, TargetSame
    <2>10. CASE Store(r)
        <3>1. r \in recorded /\ Begin(r, r)
            BY <1>a, <2>10 DEF Store, AckedJustified
        <3> QED  BY <2>1, <2>2, <2>3, <3>1, TargetSame
    <2>11. CASE DropControl(r) \/ ControlIdle(r)
        <3>1. UNCHANGED req /\ control' \in {control, None}
            BY <2>11 DEF DropControl, ControlIdle
        <3> QED  BY <2>1, <2>2, <2>6, <3>1, TargetSame
    <2> QED  BY <1>1, <2>7, <2>8, <2>9, <2>10, <2>11 DEF Initiator
<1>2. CASE StopControlling
    <2>1. UNCHANGED <<handler, toInit, recorded, req, acks>> /\ control' = None
        BY <1>2 DEF StopControlling, target
    <2>2. AcksJustified' /\ AckedJustified' /\ StoredMeansRecorded'
        BY <1>a, <2>1 DEF AcksJustified, AckedJustified, StoredMeansRecorded
    <2> QED  BY <2>1, <2>2, TargetSame
<1>3. CASE HearAnswer
    <2>1. toInit # <<>> /\ toInit' = Tail(toInit)
        BY <1>3 DEF HearAnswer
    <2>2. /\ YesFor(toInit', recorded)
          /\ Head(toInit).type = "yes" => Head(toInit).id \in recorded
        BY <1>r, <1>y, <2>1, TailKeepsYes
    <2>3. UNCHANGED <<handler, recorded, req, control>>
        BY <1>3 DEF HearAnswer, target
    <2>4. AcksJustified'
        BY <1>3, <1>r, <1>a, <2>2, <2>3 DEF HearAnswer, AcksJustified
    <2> QED  BY <1>a, <1>h, <2>2, <2>3, <2>4 DEF Justified, AcksJustified, AckedJustified,
               StoredMeansRecorded
<1>4. ASSUME NEW i \in Requests, Target(i) PROVE Justified' /\ StoredMeansRecorded'
    <2>1. UNCHANGED initiator /\ UNCHANGED recorded
        BY <1>4 DEF Target, HearAnnounce, HearEnd, FallSilent, WatchAnnouncement
    <2>2. UNCHANGED <<handler, toInit>> \/ HearAnnounce(i)
        BY <1>4 DEF Target, HearEnd, FallSilent, WatchAnnouncement, link
    <2>3. CASE UNCHANGED <<handler, toInit>>
        BY <1>h, <1>y, <2>1, <2>3, InitiatorSame
    <2>4. CASE HearAnnounce(i)
        <3>1. YesFor(toInit', recorded)
            <4>1. YesFor(Post(toInit, "no", i), recorded)
                BY <1>r, <1>y, PostKeepsYes
            <4> QED  BY <1>y, <2>4, <4>1 DEF HearAnnounce
        <3>2. handler'.pc \in {"recorded", "watched"} => handler'.id \in recorded
            BY <1>h, <2>4 DEF HearAnnounce
        <3> QED  BY <2>1, <3>1, <3>2, InitiatorSame
    <2> QED  BY <2>2, <2>3, <2>4
<1>5. CASE RecordAnnouncement
    <2>1. /\ UNCHANGED initiator
          /\ UNCHANGED toInit
          /\ recorded' = recorded \cup {handler.id}
        BY <1>5 DEF RecordAnnouncement, link
    <2>2. handler'.id \in recorded'
        BY <1>5, <2>1 DEF RecordAnnouncement, Inv, TypeInv, TypeOK
    <2>3. YesFor(toInit', recorded')
        BY <1>y, <2>1 DEF YesFor
    <2> QED  BY <2>1, <2>2, <2>3, InitiatorSame
<1>6. CASE SpawnWatch
    <2>1. /\ UNCHANGED initiator
          /\ UNCHANGED <<toInit, recorded>>
        BY <1>6 DEF SpawnWatch, link
    <2>2. handler'.id \in recorded'
        BY <1>6, <1>h, <2>1 DEF SpawnWatch, Inv, TypeInv, TypeOK
    <2> QED  BY <1>y, <2>1, <2>2, InitiatorSame
<1>7. CASE Acknowledge
    <2>1. UNCHANGED initiator /\ UNCHANGED recorded
        BY <1>7 DEF Acknowledge
    <2>2. YesFor(Post(toInit, "yes", handler.id), recorded)
        <3>1. handler.id \in recorded /\ handler.id \in Requests
            BY <1>7, <1>h DEF Acknowledge, Inv, TypeInv, IdsAreKnown
        <3> QED  BY <1>r, <1>y, <3>1, PostKeepsYes
    <2>3. YesFor(toInit', recorded)
        BY <1>7, <1>y, <2>2 DEF Acknowledge
    <2>4. handler'.pc = "idle"
        BY <1>7 DEF Acknowledge, Ready
    <2> QED  BY <2>1, <2>3, <2>4, InitiatorSame
<1>8. ASSUME NEW u \in Killers, Killing(u) PROVE Justified' /\ StoredMeansRecorded'
    <2>1. UNCHANGED initiator /\ UNCHANGED <<recorded, handler>>
        BY <1>8 DEF Killing, Collect, SetCooldown, TellVictim, EndVictim
    <2>2. YesFor(toInit', recorded)
        <3>1. CASE TellVictim(u)
            <4>1. killer[u].id \in Requests
                BY <3>1 DEF TellVictim, Inv, TypeInv, IdsAreKnown
            <4>2. YesFor(Post(toInit, "kill", killer[u].id), recorded)
                BY <1>r, <1>y, <4>1, PostKeepsYes
            <4> QED  BY <3>1, <4>2 DEF TellVictim
        <3>2. CASE Collect(u) \/ SetCooldown(u) \/ \E i \in Requests : EndVictim(u, i)
            BY <1>y, <3>2 DEF Collect, SetCooldown, EndVictim, link
        <3> QED  BY <1>8, <3>1, <3>2 DEF Killing
    <2> QED  BY <1>h, <2>1, <2>2, InitiatorSame
<1>9. CASE CooldownOver \/ InputArrives \/ LoseInput \/ Reconnect
    <2>1. UNCHANGED initiator /\ UNCHANGED <<recorded, handler, toInit>>
        BY <1>9 DEF CooldownOver, InputArrives, LoseInput, Reconnect, target, link
    <2> QED  BY <1>h, <1>y, <2>1, InitiatorSame
<1>10. CASE Disconnect
    <2>1. UNCHANGED initiator /\ UNCHANGED recorded /\ toInit' = <<>>
        BY <1>10 DEF Disconnect
    <2>2. handler'.pc = handler.pc /\ handler'.id = handler.id
        BY <1>10 DEF Disconnect, Inv, TypeInv, TypeOK
    <2>3. YesFor(toInit', recorded)
        BY <2>1 DEF YesFor
    <2> QED  BY <1>h, <2>1, <2>2, <2>3, InitiatorSame
<1>11. CASE UNCHANGED vars
    <2>1. UNCHANGED initiator /\ UNCHANGED <<recorded, handler, toInit>>
        BY <1>11 DEF vars, target, link
    <2> QED  BY <1>h, <1>y, <2>1, InitiatorSame
<1> QED
    BY <1>1, <1>2, <1>3, <1>4, <1>5, <1>6, <1>7, <1>8, <1>9, <1>10, <1>11 DEF Next

\* Input is sent only in a control session whose announcement the controlled device
\* has recorded, whatever is refused, delayed, killed or lost on the way.
THEOREM InputIsAnnounced == Spec => []StoredMeansRecorded
<1>1. Init => Inv
    <2> SUFFICES ASSUME Init PROVE Inv
        OBVIOUS
    <2>1. Justified
        BY DEF Init, Justified, YesFor, Ready
    <2>2. StoredMeansRecorded
        BY DEF Init, StoredMeansRecorded
    <2> QED  BY <2>1, <2>2, InitType DEF Inv
<1>2. Inv /\ [Next]_vars => Inv'
    BY NextType, NextJustified DEF Inv
<1>3. Inv => StoredMeansRecorded
    BY DEF Inv
<1> QED  BY <1>1, <1>2, <1>3, PTL DEF Spec

----------------------------------------------------------------------------
(* Input.                                                                   *)

\* A press and a release are of a key.
Keyed == {e \in Event : e.kind # "move" => e.key \in Keys}

\* A Controller has numbered no more events than were sent.
InputTypeInv ==
    /\ InputTypeOK
    /\ live <= begun
    /\ \A r \in Controllers : ctl[r].seq <= sent
    /\ net \subseteq Keyed
    /\ serve # Nothing => serve.e \in Keyed

\* late counts only while nothing is announced, and a datagram that was allowed
\* in still has its one acceptance to come.
StopInv ==
    /\ live > 0 => late = 0
    /\ serve # Nothing /\ serve.pc = "allowed" => late = 0
    /\ late <= 1

\* Endings whose Forget is still to come.
Pending == {c \in Enders : letgo[c] # Idle}

\* A newer move of r was accepted than the peer's state remembers.
Ahead(r) == IF last[r] > Known.highest THEN 1 ELSE 0

\* Every ended announcement is still to forget the peer, or has paid for one step
\* back, made or possible.
StepInv ==
    \A r \in Controllers : back[r] + Ahead(r) + Cardinality(Pending) <= begun - live

----------------------------------------------------------------------------
(* Input: types.                                                            *)

Caller == [pc : {"idle", "take", "inject"}, keys : SUBSET Keys]
Controller == [seq : 0..MaxEvents, held : Keys \cup {Absent}]
Serving == [pc : {"allowed", "recorded"}, e : Event]

LEMMA InputInitType == InputInit => InputTypeInv
<1> SUFFICES ASSUME InputInit PROVE InputTypeInv
    OBVIOUS
<1> USE InputBounds
<1>1. 0 \in 0..MaxEvents /\ 0 \in 0..MaxSessions /\ 0 \in Nat
    OBVIOUS
<1>2. ctl \in [Controllers -> Controller] /\ \A r \in Controllers : ctl[r].seq <= 0
    BY <1>1 DEF InputInit, Controller
<1>3. letgo \in [Callers -> Caller]
    BY DEF InputInit, Caller, Idle
<1> HIDE DEF Event, PeerState, Nothing
<1>4. InputTypeOK
    BY <1>1, <1>2, <1>3 DEF InputInit, InputTypeOK, Controller, Caller
<1>5. live <= begun /\ net = {} /\ serve = Nothing /\ sent = 0
    BY DEF InputInit
<1> QED  BY <1>2, <1>4, <1>5 DEF InputTypeInv

LEMMA EmitType ==
    ASSUME InputTypeInv, NEW r \in Controllers, NEW kind \in Kinds,
           NEW k \in Keys \cup {Absent}, kind # "move" => k \in Keys,
           NEW held \in Keys \cup {Absent}, Emit(r, kind, k, held)
    PROVE  InputTypeInv'
<1> USE InputBounds
<1>1. sent \in 0..MaxEvents /\ sent' = sent + 1 /\ sent < MaxEvents
    BY DEF Emit, InputTypeInv, InputTypeOK
<1>2. ctl \in [Controllers -> Controller] /\ \A q \in Controllers : ctl[q].seq <= sent
    BY DEF InputTypeInv, InputTypeOK, Controller
<1>3. sent' \in 0..MaxEvents /\ ctl[r].seq + 1 \in 1..MaxEvents
    BY <1>1, <1>2 DEF Controller
<1>4. [seq |-> ctl[r].seq + 1, held |-> held] \in Controller
    BY <1>3 DEF Controller
<1>5. ctl' = [ctl EXCEPT ![r] = [seq |-> ctl[r].seq + 1, held |-> held]]
    BY DEF Emit
<1>6. ctl' \in [Controllers -> Controller]
    BY <1>2, <1>4, <1>5
<1>7. \A q \in Controllers : ctl'[q].seq <= sent'
    BY <1>1, <1>2, <1>5 DEF Controller
<1>8. [kind |-> kind, key |-> k, by |-> r, seq |-> ctl[r].seq + 1, stamp |-> sent + 1] \in Keyed
    BY <1>1, <1>3 DEF Event, Keyed
<1>9. net' \subseteq Keyed /\ net' \in SUBSET Event
    BY <1>8 DEF Emit, InputTypeInv, Keyed
<1>10. UNCHANGED <<live, begun, peer, serve, letgo, down, history>>
    BY DEF Emit, sessions
<1> QED  BY <1>3, <1>6, <1>7, <1>9, <1>10 DEF InputTypeInv, InputTypeOK, Controller, history

LEMMA AcceptType ==
    ASSUME InputTypeInv, Accept PROVE InputTypeInv'
<1> USE InputBounds
<1>1. serve \in Serving /\ serve # Nothing /\ serve.e \in Keyed
    BY DEF Accept, InputTypeInv, InputTypeOK, Serving
<1>2. Known \in PeerState
    BY DEF Known, NewPeer, InputTypeInv, InputTypeOK, PeerState
<1>3. Recorded(serve.e) \in PeerState
    BY <1>1, <1>2 DEF Recorded, PeerState, Keyed, Event, Kinds
<1>4. late' \in Nat
    BY DEF Accept, InputTypeInv, InputTypeOK
<1>5. UNCHANGED <<sessions, sender, letgo, down>>
    BY DEF Accept
<1>6. CASE Fresh(serve.e)
    <2>1. /\ peer' = Recorded(serve.e)
          /\ serve' = [serve EXCEPT !.pc = "recorded"]
          /\ missed' = missed
        BY <1>6 DEF Accept
    <2>2. serve' \in Serving /\ serve'.e \in Keyed
        BY <1>1, <2>1 DEF Serving
    <2>3. /\ took' \in SUBSET Event
          /\ last' \in [Controllers -> 0..MaxEvents] /\ back' \in [Controllers -> Nat]
        <3>1. \/ MoveTaken(serve.e)
              \/ UNCHANGED <<took, last, back>>
            BY <1>6 DEF Accept
        <3>2. serve.e \in Event /\ serve.e.by \in Controllers /\ serve.e.seq \in 0..MaxEvents
            BY <1>1 DEF Keyed, Event
        <3> QED  BY <3>1, <3>2 DEF MoveTaken, InputTypeInv, InputTypeOK
    <2> QED  BY <1>3, <1>4, <1>5, <2>1, <2>2, <2>3 DEF InputTypeInv, InputTypeOK, Serving,
                sessions, sender
<1>7. CASE ~Fresh(serve.e)
    <2>1. /\ peer' = [Known EXCEPT !.quiet = FALSE]
          /\ serve' = Nothing
          /\ missed' = (missed \/ \A m \in took : m.stamp < serve.e.stamp)
          /\ UNCHANGED <<took, last, back>>
        BY <1>7 DEF Accept
    <2>2. peer' \in PeerState
        BY <1>2, <2>1 DEF PeerState
    <2>3. missed' \in BOOLEAN
        BY <2>1
    <2> QED  BY <1>4, <1>5, <2>1, <2>2, <2>3 DEF InputTypeInv, InputTypeOK, sessions,
                sender
<1> QED  BY <1>6, <1>7

\* What is left of TypeInv for a caller of Release, who changes only these.
LEMMA ReleaseType ==
    ASSUME InputTypeInv, UNCHANGED <<sessions, sender, serve, history>>,
           letgo' \in [Callers -> Caller], peer' = Absent \/ peer' \in PeerState,
           down' \in SUBSET Keys
    PROVE  InputTypeInv'
BY DEF InputTypeInv, InputTypeOK, Caller, sessions, sender, history

LEMMA ReleasingType ==
    ASSUME InputTypeInv, NEW c \in Callers, Releasing(c) PROVE InputTypeInv'
<1>1. /\ letgo \in [Callers -> Caller]
      /\ peer = Absent \/ peer \in PeerState
      /\ down \in SUBSET Keys
    BY DEF InputTypeInv, InputTypeOK, Caller
<1>2. CASE TakeHeld(c)
    <2> DEFINE held == IF peer = Absent THEN {} ELSE peer.keys
    <2>1. /\ letgo' = [letgo EXCEPT ![c] = [pc |-> "inject", keys |-> held]]
          /\ peer' = IF peer = Absent THEN Absent ELSE [peer EXCEPT !.keys = {}]
          /\ UNCHANGED <<sessions, sender, serve, down, history>>
        BY <1>2 DEF TakeHeld
    <2>2. [pc |-> "inject", keys |-> held] \in Caller
        BY <1>1 DEF Caller, PeerState
    <2>3. letgo' \in [Callers -> Caller]
        BY <1>1, <2>1, <2>2
    <2>4. peer' = Absent \/ peer' \in PeerState
        BY <1>1, <2>1 DEF PeerState
    <2> QED  BY <1>1, <2>1, <2>3, <2>4, ReleaseType
<1>3. CASE Released(c)
    <2>1. /\ letgo' = [letgo EXCEPT ![c] = Idle]
          /\ UNCHANGED <<sessions, sender, serve, down, history>>
          /\ peer' \in {peer, Absent}
        BY <1>3 DEF Released
    <2>2. letgo' \in [Callers -> Caller]
        BY <1>1, <2>1 DEF Caller, Idle
    <2> QED  BY <1>1, <2>1, <2>2, ReleaseType
<1>4. ASSUME NEW k \in Keys, InjectUp(c, k) PROVE InputTypeInv'
    <2>1. /\ letgo' = [letgo EXCEPT ![c].keys = @ \ {k}]
          /\ down' = down \ {k}
          /\ UNCHANGED <<sessions, sender, peer, serve, history>>
        BY <1>4 DEF InjectUp
    <2>2. [letgo[c] EXCEPT !.keys = @ \ {k}] \in Caller
        BY <1>1 DEF Caller
    <2>3. letgo' \in [Callers -> Caller]
        BY <1>1, <2>1, <2>2
    <2> QED  BY <1>1, <2>1, <2>3, ReleaseType
<1> QED  BY <1>2, <1>3, <1>4 DEF Releasing

LEMMA InputNextType ==
    InputTypeInv /\ [InputNext]_inputVars => InputTypeInv'
<1> SUFFICES ASSUME InputTypeInv, [InputNext]_inputVars PROVE InputTypeInv'
    OBVIOUS
<1> USE InputBounds
<1>1. CASE Announce
    <2>1. live' \in 0..MaxSessions /\ begun' \in 0..MaxSessions
        BY <1>1 DEF Announce, InputTypeInv, InputTypeOK
    <2>2. live' <= begun'
        BY <1>1 DEF Announce, InputTypeInv, InputTypeOK
    <2> QED  BY <1>1, <2>1, <2>2 DEF Announce, InputTypeInv, InputTypeOK, sender
<1>2. ASSUME NEW c \in Enders, EndAnnouncement(c) PROVE InputTypeInv'
    <2>1. live' \in 0..MaxSessions /\ live' <= begun'
        BY <1>2 DEF EndAnnouncement, InputTypeInv, InputTypeOK
    <2>2. letgo' \in [Callers -> Caller]
        <3>1. [pc |-> "take", keys |-> {}] \in Caller
            BY DEF Caller
        <3> QED  BY <1>2, <3>1 DEF EndAnnouncement, InputTypeInv, InputTypeOK, Caller
    <2> QED  BY <1>2, <2>1, <2>2 DEF EndAnnouncement, InputTypeInv, InputTypeOK, Caller,
                sender, history
<1>3. ASSUME NEW r \in Controllers, SendMove(r) PROVE InputTypeInv'
    BY <1>3, EmitType DEF SendMove, Kinds
<1>4. ASSUME NEW r \in Controllers, SendRelease(r) PROVE InputTypeInv'
    <2>1. ctl[r].held \in Keys
        BY <1>4 DEF SendRelease, InputTypeInv, InputTypeOK
    <2> QED  BY <1>4, <2>1, EmitType DEF SendRelease, Kinds
<1>5. ASSUME NEW r \in Controllers, NEW k \in Keys, SendPress(r, k) PROVE InputTypeInv'
    BY <1>5, EmitType DEF SendPress, Kinds
<1>6. ASSUME NEW e \in net, Lose(e) PROVE InputTypeInv'
    BY <1>6 DEF Lose, InputTypeInv, InputTypeOK, sessions, history
<1>7. ASSUME NEW e \in net, Receive(e) PROVE InputTypeInv'
    <2>1. e \in Keyed /\ e \in Event
        BY DEF InputTypeInv, Keyed
    <2>2. serve' \in {[pc |-> "allowed", e |-> e], Nothing}
        BY <1>7 DEF Receive
    <2>3. serve' = Nothing \/ serve' \in Serving
        BY <2>1, <2>2 DEF Serving
    <2>4. serve' # Nothing => serve'.e \in Keyed
        BY <2>1, <2>2
    <2> QED  BY <1>7, <2>3, <2>4 DEF Receive, InputTypeInv, InputTypeOK, Serving,
                sessions, history
<1>8. CASE Accept
    BY <1>8, AcceptType
<1>9. CASE Apply
    <2>1. down' \in SUBSET Keys
        BY <1>9 DEF Apply, InputTypeInv, InputTypeOK, Keyed
    <2> QED  BY <1>9, <2>1 DEF Apply, InputTypeInv, InputTypeOK, sessions,
                sender, history
<1>10. CASE FallQuiet
    <2>1. peer' \in PeerState
        BY <1>10 DEF FallQuiet, InputTypeInv, InputTypeOK, PeerState
    <2> QED  BY <1>10, <2>1 DEF FallQuiet, InputTypeInv, InputTypeOK, sessions,
                sender, history
<1>11. CASE Notice
    <2>1. letgo \in [Callers -> Caller] /\ Loop \in Callers
        BY DEF InputTypeInv, InputTypeOK, Caller, Callers
    <2>2. [letgo[Loop] EXCEPT !.pc = "take"] \in Caller
        BY <2>1 DEF Caller
    <2>3. letgo' \in [Callers -> Caller]
        BY <1>11, <2>1, <2>2 DEF Notice
    <2> QED  BY <1>11, <2>3 DEF Notice, InputTypeInv, InputTypeOK, Caller, sessions,
                sender, history
<1>12. ASSUME NEW c \in Callers, Releasing(c) PROVE InputTypeInv'
    BY <1>12, ReleasingType
<1>13. CASE UNCHANGED inputVars
    BY <1>13 DEF inputVars, sessions, sender, history, InputTypeInv,
       InputTypeOK
<1> QED
    BY <1>1, <1>2, <1>3, <1>4, <1>5, <1>6, <1>7, <1>8, <1>9, <1>10, <1>11, <1>12, <1>13
       DEF InputNext

\* Remote input's state has its type in every behaviour, whatever datagrams are lost
\* or reordered and whoever ends an announcement.
THEOREM InputTypeCorrect == InputSpec => []InputTypeOK
<1>1. InputTypeInv => InputTypeOK
    BY DEF InputTypeInv
<1>2. InputInit => InputTypeInv
    BY InputInitType
<1>3. InputTypeInv /\ [InputNext]_inputVars => InputTypeInv'
    BY InputNextType
<1> QED  BY <1>1, <1>2, <1>3, PTL DEF InputSpec

----------------------------------------------------------------------------
(* Input: it stops.                                                         *)

LEMMA NextStop ==
    InputTypeInv /\ StopInv /\ [InputNext]_inputVars => StopInv'
<1> SUFFICES ASSUME InputTypeInv, StopInv, [InputNext]_inputVars PROVE StopInv'
    OBVIOUS
<1>t. live \in Nat /\ late \in Nat
    BY InputBounds DEF InputTypeInv, InputTypeOK
<1>1. CASE Announce
    BY <1>1 DEF Announce, StopInv
<1>2. ASSUME NEW c \in Enders, EndAnnouncement(c) PROVE StopInv'
    BY <1>2, <1>t DEF EndAnnouncement, StopInv, history
<1>3. ASSUME NEW e \in net, Receive(e) PROVE StopInv'
    <2>1. UNCHANGED <<live, late>>
        BY <1>3 DEF Receive, sessions, history
    <2>2. serve' = Nothing \/ live > 0
        BY <1>3 DEF Receive, Allowed
    <2> QED  BY <2>1, <2>2 DEF StopInv
<1>4. CASE Accept
    <2>0. late = 0
        BY <1>4 DEF Accept, StopInv
    <2>3. live' = live /\ late' = IF live = 0 THEN late + 1 ELSE late
        BY <1>4 DEF Accept, sessions
    <2>1. late' \in {0, 1} /\ (live > 0 => late' = 0)
        BY <1>t, <2>0, <2>3
    <2>2. serve' = Nothing \/ serve'.pc = "recorded"
        BY <1>4 DEF Accept, InputTypeInv, InputTypeOK
    <2> QED  BY <2>1, <2>2, <2>3 DEF StopInv, Nothing
<1>5. CASE Apply
    BY <1>5 DEF Apply, StopInv, sessions, history
<1>6. CASE UNCHANGED <<live, serve, late>>
    BY <1>6 DEF StopInv
<1>7. UNCHANGED <<live, serve, late>> \/ Announce \/ Accept \/ Apply
        \/ (\E c \in Enders : EndAnnouncement(c)) \/ \E e \in net : Receive(e)
    BY DEF InputNext, SendMove, SendRelease, SendPress, Emit,
       Lose, FallQuiet, Notice, Releasing, TakeHeld,
       InjectUp, Released, inputVars, sessions, history
<1> QED  BY <1>1, <1>2, <1>3, <1>4, <1>5, <1>6, <1>7

\* After the last announcement ended, by whatever goroutine, at most the one event
\* already past inputAllowed is accepted.
THEOREM InputEnds == InputSpec => []InputStopsAtEnd
<1>1. InputInit => InputTypeInv /\ StopInv
    <2>1. InputInit => StopInv
        BY DEF InputInit, StopInv
    <2> QED  BY <2>1, InputInitType
<1>2. InputTypeInv /\ StopInv /\ [InputNext]_inputVars => (InputTypeInv /\ StopInv)'
    BY InputNextType, NextStop
<1>3. StopInv => InputStopsAtEnd
    BY DEF StopInv, InputStopsAtEnd
<1> QED  BY <1>1, <1>2, <1>3, PTL DEF InputSpec

----------------------------------------------------------------------------
(* Input: moves in order.                                                   *)

LEMMA PendingIsFinite == IsFiniteSet(Pending) /\ Cardinality(Pending) \in Nat
BY EndersAreFinite, FS_Subset, FS_CardinalityType DEF Pending

LEMMA InitSteps == InputInit => StepInv
<1> SUFFICES ASSUME InputInit PROVE StepInv
    OBVIOUS
<1>1. Pending = {}
    BY DEF InputInit, Pending, Callers
<1>2. Cardinality(Pending) = 0
    BY <1>1, FS_EmptySet
<1>3. Known.highest = 0
    BY DEF InputInit, Known, NewPeer
<1> QED  BY <1>2, <1>3 DEF InputInit, StepInv, Ahead

\* A step that ends no announcement, finishes no Forget and takes no move.
LEMMA StepsSame ==
    ASSUME StepInv, UNCHANGED <<live, begun, last, back>>,
           Known'.highest = Known.highest, Pending' \subseteq Pending, InputTypeInv
    PROVE  StepInv'
<1>1. Cardinality(Pending') <= Cardinality(Pending) /\ Cardinality(Pending') \in Nat
    BY PendingIsFinite, FS_Subset, FS_CardinalityType
<1>2. begun \in Nat /\ live \in Nat /\ back \in [Controllers -> Nat]
    BY InputBounds DEF InputTypeInv, InputTypeOK
<1> QED  BY <1>1, <1>2, PendingIsFinite DEF StepInv, Ahead

LEMMA AcceptSteps ==
    ASSUME InputTypeInv, StepInv, Accept PROVE StepInv'
<1> USE InputBounds
<1> DEFINE e == serve.e
<1>1. e \in Event /\ e.by \in Controllers /\ e.seq \in 1..MaxEvents
    BY DEF Accept, InputTypeInv, InputTypeOK, Event
<1>2. Known.highest \in 0..MaxEvents /\ (peer # Absent => peer.highest = Known.highest)
    BY DEF Known, NewPeer, InputTypeInv, InputTypeOK, PeerState
<1>3. UNCHANGED <<live, begun>> /\ Pending' = Pending
    BY DEF Accept, sessions, Pending
<1>4. peer' # Absent
    <2>1. serve.e \in Keyed
        BY DEF Accept, InputTypeInv
    <2>2. Known \in PeerState
        BY DEF InputTypeInv, InputTypeOK, Known, NewPeer, PeerState
    <2>3. Known.keys \subseteq Keys /\ [Known EXCEPT !.quiet = FALSE] \in PeerState
        BY <2>2 DEF PeerState
    <2>4. Recorded(serve.e) \in PeerState
        BY <1>1, <2>1, <2>2, <2>3 DEF Recorded, PeerState, Keyed, Event, Kinds
    <2> QED  BY <2>3, <2>4, AbsentIsNoPeer DEF Accept
<1>5. CASE Fresh(e) /\ e.kind = "move"
    <2>1. peer' = Recorded(e) /\ MoveTaken(e)
        BY <1>5 DEF Accept
    <2>2. Known'.highest = e.seq
        BY <1>4, <1>5, <2>1 DEF Known, Recorded
    <2>3. e.seq > Known.highest
        BY <1>5 DEF Fresh
    <2>4. SUFFICES ASSUME NEW r \in Controllers
                   PROVE  (back[r] + Ahead(r) + Cardinality(Pending) <= begun - live)'
        BY DEF StepInv
    <2>5. /\ back[r] \in Nat /\ last[r] \in 0..MaxEvents /\ last[e.by] \in 0..MaxEvents
          /\ Cardinality(Pending) \in Nat /\ begun \in Nat /\ live \in Nat
          /\ back[r] + Ahead(r) + Cardinality(Pending) <= begun - live
        BY <1>1, PendingIsFinite DEF InputTypeInv, InputTypeOK, StepInv
    <2>6. CASE r = e.by
        <3>1. last'[r] = e.seq
            BY <1>1, <2>1, <2>6 DEF MoveTaken, InputTypeInv, InputTypeOK
        <3>2. Ahead(r)' = 0
            BY <1>1, <2>2, <3>1 DEF Ahead
        <3>3. CASE e.seq > last[r]
            <4>1. back'[r] = back[r]
                BY <2>1, <2>6, <3>3 DEF MoveTaken
            <4> QED  BY <1>3, <2>5, <3>2, <4>1 DEF Ahead
        <3>4. CASE ~(e.seq > last[r])
            <4>1. back'[r] = back[r] + 1
                BY <2>1, <2>6, <3>4 DEF MoveTaken, InputTypeInv, InputTypeOK
            <4>2. Ahead(r) = 1
                BY <1>1, <1>2, <2>3, <2>5, <3>4 DEF Ahead
            <4> QED  BY <1>3, <2>5, <3>2, <4>1, <4>2
        <3> QED  BY <3>3, <3>4
    <2>7. CASE r # e.by
        <3>1. last'[r] = last[r] /\ back'[r] = back[r]
            BY <2>1, <2>7 DEF MoveTaken, InputTypeInv, InputTypeOK
        <3>2. Ahead(r)' <= Ahead(r) /\ Ahead(r)' \in Nat /\ Ahead(r) \in Nat
            BY <1>1, <1>2, <2>2, <2>3, <2>5, <3>1 DEF Ahead
        <3> QED  BY <1>3, <2>5, <3>1, <3>2
    <2> QED  BY <2>6, <2>7
<1>6. CASE ~(Fresh(e) /\ e.kind = "move")
    <2>1. UNCHANGED <<last, back>>
        BY <1>6 DEF Accept
    <2>2. (peer' = Recorded(e) /\ e.kind # "move") \/ peer' = [Known EXCEPT !.quiet = FALSE]
        BY <1>6 DEF Accept
    <2>3. Known \in PeerState
        BY DEF InputTypeInv, InputTypeOK, Known, NewPeer, PeerState
    <2>4. peer'.highest = Known.highest
        BY <2>2, <2>3 DEF Recorded, PeerState
    <2>5. Known'.highest = Known.highest
        BY <1>4, <2>4 DEF Known
    <2> QED  BY <1>3, <2>1, <2>5, StepsSame
<1> QED  BY <1>5, <1>6

LEMMA EndAnnouncementSteps ==
    ASSUME InputTypeInv, StepInv, NEW c \in Enders, EndAnnouncement(c) PROVE StepInv'
<1>1. Pending' = Pending \cup {c} /\ c \notin Pending
    <2>1. letgo' = [letgo EXCEPT ![c] = [pc |-> "take", keys |-> {}]] /\ letgo[c] = Idle
        BY DEF EndAnnouncement
    <2>2. DOMAIN letgo = Callers /\ Enders \subseteq Callers
        BY DEF InputTypeInv, InputTypeOK, Callers
    <2> QED  BY <2>1, <2>2 DEF Pending, Idle
<1>2. Cardinality(Pending') = Cardinality(Pending) + 1
    BY <1>1, PendingIsFinite, FS_AddElement
<1>3. Known' = Known /\ UNCHANGED <<last, back, begun>> /\ live' = live - 1
    BY DEF EndAnnouncement, Known, history
<1>4. begun \in Nat /\ live \in Nat /\ back \in [Controllers -> Nat]
    BY InputBounds DEF InputTypeInv, InputTypeOK
<1> QED  BY <1>2, <1>3, <1>4, PendingIsFinite DEF StepInv, Ahead

LEMMA ReleasingSteps ==
    ASSUME InputTypeInv, StepInv, NEW c \in Callers, Releasing(c) PROVE StepInv'
<1>t. DOMAIN letgo = Callers /\ Enders \subseteq Callers
    BY DEF InputTypeInv, InputTypeOK, Callers
<1>1. CASE TakeHeld(c)
    <2>1. Pending' = Pending
        BY <1>1, <1>t DEF TakeHeld, Pending, Idle
    <2>2. Known'.highest = Known.highest
        <3>1. CASE peer = Absent
            BY <1>1, <3>1 DEF TakeHeld, Known
        <3>2. CASE peer # Absent
            <4>1. peer' = [peer EXCEPT !.keys = {}] /\ peer \in PeerState
                BY <1>1, <3>2 DEF TakeHeld, InputTypeInv, InputTypeOK
            <4>2. peer' \in PeerState /\ peer'.highest = peer.highest
                BY <4>1 DEF PeerState
            <4> QED  BY <3>2, <4>2, AbsentIsNoPeer DEF Known
        <3> QED  BY <3>1, <3>2
    <2> QED  BY <1>1, <2>1, <2>2, StepsSame DEF TakeHeld, sessions, history
<1>2. ASSUME NEW k \in Keys, InjectUp(c, k) PROVE StepInv'
    <2>1. Pending' \subseteq Pending
        BY <1>2, <1>t DEF InjectUp, Pending, Idle
    <2>2. Known' = Known
        BY <1>2 DEF InjectUp, Known
    <2> QED  BY <1>2, <2>1, <2>2, StepsSame DEF InjectUp, sessions, history
<1>3. CASE Released(c) /\ c = Loop
    <2>1. Pending' = Pending /\ Known' = Known
        BY <1>3, <1>t, LoopIsNoEnder DEF Released, Pending, Known
    <2> QED  BY <1>3, <2>1, StepsSame DEF Released, sessions, history
<1>4. CASE Released(c) /\ c # Loop
    <2>0. c \in Enders
        BY <1>4 DEF Callers
    <2>1. Pending' = Pending \ {c} /\ c \in Pending
        BY <1>4, <1>t, <2>0 DEF Released, Pending, Idle
    <2>2. Cardinality(Pending') = Cardinality(Pending) - 1
        BY <2>1, PendingIsFinite, FS_RemoveElement
    <2>3. UNCHANGED <<live, begun, last, back>>
        BY <1>4 DEF Released, sessions, history
    <2>4. begun \in Nat /\ live \in Nat /\ back \in [Controllers -> Nat]
        BY InputBounds DEF InputTypeInv, InputTypeOK
    <2>5. SUFFICES ASSUME NEW r \in Controllers
                   PROVE  (back[r] + Ahead(r) + Cardinality(Pending) <= begun - live)'
        BY DEF StepInv
    <2>6. Ahead(r) \in {0, 1} /\ Ahead(r)' \in {0, 1}
        BY DEF Ahead
    <2> QED  BY <2>2, <2>3, <2>4, <2>6, PendingIsFinite DEF StepInv
<1> QED  BY <1>1, <1>2, <1>3, <1>4 DEF Releasing

LEMMA NextSteps ==
    InputTypeInv /\ StepInv /\ [InputNext]_inputVars => StepInv'
<1> SUFFICES ASSUME InputTypeInv, StepInv, [InputNext]_inputVars PROVE StepInv'
    OBVIOUS
<1>t. /\ DOMAIN letgo = Callers /\ Enders \subseteq Callers
      /\ begun \in Nat /\ live \in Nat /\ back \in [Controllers -> Nat]
    BY InputBounds DEF InputTypeInv, InputTypeOK, Callers
<1>1. CASE Announce
    <2>1. Known' = Known /\ Pending' = Pending
        BY <1>1 DEF Announce, Known, Pending
    <2>2. UNCHANGED <<last, back>> /\ begun' - live' = begun - live
        BY <1>1, <1>t DEF Announce
    <2> QED  BY <2>1, <2>2 DEF StepInv, Ahead
<1>2. ASSUME NEW c \in Enders, EndAnnouncement(c) PROVE StepInv'
    BY <1>2, EndAnnouncementSteps
<1>3. CASE Accept
    BY <1>3, AcceptSteps
<1>4. CASE FallQuiet
    <2>1. peer # Absent /\ peer \in PeerState /\ peer' = [peer EXCEPT !.quiet = TRUE]
        BY <1>4 DEF FallQuiet, InputTypeInv, InputTypeOK
    <2>2. peer' \in PeerState /\ peer'.highest = peer.highest
        BY <2>1 DEF PeerState
    <2>3. Known'.highest = Known.highest /\ Pending' = Pending
        BY <1>4, <2>1, <2>2, AbsentIsNoPeer DEF FallQuiet, Known, Pending
    <2> QED  BY <1>4, <2>3, StepsSame DEF FallQuiet, sessions, history
<1>5. CASE Notice
    <2>1. Pending' = Pending /\ Known' = Known
        BY <1>5, <1>t, LoopIsNoEnder DEF Notice, Pending, Known
    <2> QED  BY <1>5, <2>1, StepsSame DEF Notice, sessions, history
<1>6. ASSUME NEW c \in Callers, Releasing(c) PROVE StepInv'
    BY <1>6, ReleasingSteps
<1>7. CASE UNCHANGED <<peer, letgo, live, begun, last, back>>
    <2>1. Pending' = Pending /\ Known' = Known
        BY <1>7 DEF Pending, Known
    <2> QED  BY <1>7, <2>1, StepsSame
<1>8. \/ UNCHANGED <<peer, letgo, live, begun, last, back>>
      \/ Announce \/ Accept \/ FallQuiet \/ Notice
      \/ (\E c \in Enders : EndAnnouncement(c)) \/ \E c \in Callers : Releasing(c)
    BY DEF InputNext, SendMove, SendRelease, SendPress, Emit, Lose, Receive, Apply,
       inputVars, sessions, history
<1> QED  BY <1>1, <1>2, <1>3, <1>4, <1>5, <1>6, <1>7, <1>8

\* However datagrams are reordered and whoever ends announcements, the moves of one
\* Controller are accepted in order, but for one step back for each ended announcement.
THEOREM LatestWins == InputSpec => []LatestWinsBetweenEnds
<1>1. InputInit => InputTypeInv /\ StepInv
    BY InputInitType, InitSteps
<1>2. InputTypeInv /\ StepInv /\ [InputNext]_inputVars => (InputTypeInv /\ StepInv)'
    BY InputNextType, NextSteps
<1>3. InputTypeInv /\ StepInv => LatestWinsBetweenEnds
    <2> SUFFICES ASSUME InputTypeInv, StepInv, NEW r \in Controllers
                 PROVE  back[r] <= begun - live
        BY DEF LatestWinsBetweenEnds
    <2>1. back[r] \in Nat /\ begun \in Nat /\ live \in Nat /\ Ahead(r) \in {0, 1}
        BY InputBounds DEF InputTypeInv, InputTypeOK, Ahead
    <2> QED  BY <2>1, PendingIsFinite DEF StepInv
<1> QED  BY <1>1, <1>2, <1>3, PTL DEF InputSpec
=============================================================================
