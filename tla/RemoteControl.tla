----------------------------- MODULE RemoteControl -----------------------------
(****************************************************************************)
(* Control sessions: internal/daemon/control.go and input.go on both ends.  *)
(* One daemon announces a session and waits for the acknowledgement before  *)
(* it sends input; the other shows the announcement, accepts input while it *)
(* stands, and ends it when the peer says so, when it goes quiet, or when a *)
(* local user kills it.                                                     *)
(*                                                                          *)
(* One controlling and one controlled device.  A shell request that opens a *)
(* control session announces it under a fresh random id: here the request's *)
(* own name.  What an input event does to the keyboard is RemoteInput's     *)
(* matter; here it only keeps the announcement alive, and one event stands  *)
(* for all those of a request.                                              *)
(****************************************************************************)
EXTENDS Naturals, Sequences

CONSTANTS
    Requests,        \* shell requests, and the ids they announce
    Killers,         \* KillSessions calls that may run at once
    MaxDrops,        \* bound on lost sessions
    None             \* no request

ASSUME NoneIsNoRequest == None \notin Requests
ASSUME MaxDropsIsNat == MaxDrops \in Nat

VARIABLES
    req,         \* request -> where sendInput is, and the control session it uses
    control,     \* Daemon.controls[peer]
    kills,       \* Daemon.outgoingKills: the ids registered there
    closes,      \* id -> how often its killed channel was closed
    acks,        \* Daemon.announceAcks: id -> its channel
    watching,    \* the watchControl goroutines
    ann,         \* Daemon.announcements at the controlled device
    silent,      \* announcements not touched for controlSessionIdle
    watched,     \* the watchAnnouncement goroutines
    cooling,     \* is now before killedUntil[peer]?
    handler,     \* the control-message queue: where onSessionAnnounce is
       \* is the datagram loop between inputAllowed and onInputEvent?
    killer,      \* KillSessions call -> where it is, and its victims left
    toTarget,    \* the control stream, either way
    toInit,
    inflight,    \* how many input events are in flight
    connected,   \* is there a session?
    drops,       \* sessions lost so far
    recorded     \* history: announcements ever recorded

initiator == <<req, control, kills, closes, acks, watching>>
announced == <<ann, silent, watched>>
target    == <<announced, cooling, handler, killer, recorded>>
link      == <<toTarget, toInit, inflight, connected, drops>>
vars      == <<initiator, target, link>>

Msg(type, i) == [type |-> type, id |-> i]
Message == [type : {"announce", "end", "yes", "no", "kill"}, id : Requests]
Ready == [pc |-> "idle", id |-> None, up |-> TRUE]
Resting == [pc |-> "idle", left |-> {}, id |-> None]

TypeOK ==
    /\ req \in [Requests -> [pc : {"idle", "sent", "waiting", "acked", "using", "done"},
                             use : Requests \cup {None}]]
    /\ control \in Requests \cup {None}
    /\ kills \in SUBSET Requests
    /\ closes \in [Requests -> Nat]
    /\ acks \in [Requests -> {"none", "empty", "yes", "no"}]
    /\ watching \in SUBSET Requests
    /\ ann \in SUBSET Requests
    /\ silent \in SUBSET Requests
    /\ watched \in SUBSET Requests
    /\ cooling \in BOOLEAN
    /\ handler \in [pc : {"idle", "accepted", "recorded", "watched"},
                    id : Requests \cup {None}, up : BOOLEAN]
    /\ killer \in [Killers -> [pc : {"idle", "chosen", "ending", "telling"},
                               left : SUBSET Requests, id : Requests \cup {None}]]
    /\ toTarget \in Seq(Message)
    /\ toInit \in Seq(Message)
    /\ inflight \in Nat
    /\ connected \in BOOLEAN
    /\ drops \in 0..MaxDrops
    /\ recorded \in SUBSET Requests

Init ==
    /\ req = [r \in Requests |-> [pc |-> "idle", use |-> None]]
    /\ control = None
    /\ kills = {}
    /\ closes = [r \in Requests |-> 0]
    /\ acks = [r \in Requests |-> "none"]
    /\ watching = {}
    /\ ann = {}
    /\ silent = {}
    /\ watched = {}
    /\ cooling = FALSE
    /\ handler = Ready
    /\ killer = [u \in Killers |-> Resting]
    /\ toTarget = <<>>
    /\ toInit = <<>>
    /\ inflight = 0
    /\ connected = TRUE
    /\ drops = 0
    /\ recorded = {}

\* A message sent with no session is lost.
Post(ch, type, i) == IF connected THEN Append(ch, Msg(type, i)) ELSE ch

----------------------------------------------------------------------------
(* The controlling device: sendInput, controlling and announce.             *)

Done(r) == req' = [req EXCEPT ![r] = [pc |-> "done", use |-> None]]

\* controlling returned control session i: sendInput drops it if it was killed.
Begin(r, i) ==
    IF closes[i] > 0
    THEN control' = None /\ Done(r)
    ELSE control' = i /\ req' = [req EXCEPT ![r] = [pc |-> "using", use |-> i]]

\* controlling's lookup: a control session is used, or else announced.
Lookup(r) ==
    /\ req[r].pc = "idle"
    /\ connected
    /\ IF control # None
       THEN Begin(r, control) /\ UNCHANGED toTarget
       ELSE /\ req' = [req EXCEPT ![r].pc = "sent"]
            /\ toTarget' = Post(toTarget, "announce", r)
            /\ UNCHANGED control
    /\ UNCHANGED <<kills, closes, acks, watching, target, toInit, inflight,
                   connected, drops>>

\* announce after SendOwnedIfUnlocked: only now can an answer be heard.
Register(r) ==
    /\ req[r].pc = "sent"
    /\ req' = [req EXCEPT ![r].pc = "waiting"]
    /\ kills' = kills \cup {r}
    /\ acks' = [acks EXCEPT ![r] = "empty"]
    /\ UNCHANGED <<control, closes, watching, target, link>>

\* Slip: any answer is taken for a yes.
IsYesSlip(answer) == answer \in {"yes", "no"}

IsYes(answer) == answer = "yes"

Acked(r) ==
    /\ req[r].pc = "waiting"
    /\ IsYes(acks[r])
    /\ req' = [req EXCEPT ![r].pc = "acked"]
    /\ acks' = [acks EXCEPT ![r] = "none"]
    /\ UNCHANGED <<control, kills, closes, watching, target, link>>

Refused(r) ==
    /\ req[r].pc = "waiting"
    /\ acks[r] = "no"
    /\ Done(r)
    /\ acks' = [acks EXCEPT ![r] = "none"]
    /\ kills' = kills \ {r}
    /\ UNCHANGED <<control, closes, watching, target, link>>

\* announceWait, or the request's context.
TimeOut(r) ==
    /\ req[r].pc = "waiting"
    /\ Done(r)
    /\ acks' = [acks EXCEPT ![r] = "none"]
    /\ UNCHANGED <<control, kills, closes, watching, target, link>>

\* The rest of controlling: the session is stored, and watched.
Store(r) ==
    /\ req[r].pc = "acked"
    /\ Begin(r, r)
    /\ watching' = watching \cup {r}
    /\ UNCHANGED <<kills, closes, acks, target, link>>

\* applyAction
Act(r) ==
    /\ req[r].pc = "using"
    /\ connected
    /\ inflight' = inflight + 1
    /\ Done(r)
    /\ UNCHANGED <<control, kills, closes, acks, watching, target, toTarget, toInit, connected,
                   drops>>

\* SendDatagram failed.
ActFails(r) ==
    /\ req[r].pc = "using"
    /\ ~connected
    /\ Done(r)
    /\ UNCHANGED <<control, kills, closes, acks, watching, target, link>>

EndAnnounced(i) ==
    /\ kills' = kills \ {i}
    /\ toTarget' = Post(toTarget, "end", i)

StopControlling ==
    /\ connected
    /\ control # None
    /\ control' = None
    /\ EndAnnounced(control)
    /\ UNCHANGED <<req, closes, acks, watching, target, toInit, inflight, connected, drops>>

\* watchControl: the session was killed, or the peer is gone.
DropControl(i) ==
    /\ i \in watching
    /\ closes[i] > 0 \/ ~connected
    /\ control' = None
    /\ watching' = watching \ {i}
    /\ UNCHANGED <<req, kills, closes, acks, target, link>>

\* watchControl: inputIdle has passed.
ControlIdle(i) ==
    /\ i \in watching
    /\ connected
    /\ watching' = watching \ {i}
    /\ IF control = i
       THEN control' = None /\ EndAnnounced(i)
       ELSE UNCHANGED <<control, kills, toTarget>>
    /\ UNCHANGED <<req, closes, acks, target, toInit, inflight, connected, drops>>

\* onSessionAnnounceAck and onSessionKill.
HearAnswer ==
    /\ toInit # <<>>
    /\ toInit' = Tail(toInit)
    /\ LET m == Head(toInit) IN
       /\ acks' = IF m.type \in {"yes", "no"} /\ acks[m.id] = "empty"
                  THEN [acks EXCEPT ![m.id] = m.type] ELSE acks
       /\ closes' = IF m.type = "kill" /\ m.id \in kills
                    THEN [closes EXCEPT ![m.id] = @ + 1] ELSE closes
    /\ UNCHANGED <<req, control, kills, watching, target, toTarget, inflight, connected, drops>>

----------------------------------------------------------------------------
(* The controlled device.                                                   *)

\* The queue of control messages is handled one message at a time.
Arrives(type, i) ==
    /\ toTarget # <<>> /\ Head(toTarget) = Msg(type, i)
    /\ handler.pc = "idle"
    /\ toTarget' = Tail(toTarget)

\* onSessionAnnounce up to acceptsAnnounced.
HearAnnounce(i) ==
    /\ Arrives("announce", i)
    /\ IF cooling
       THEN toInit' = Post(toInit, "no", i) /\ UNCHANGED handler
       ELSE handler' = [pc |-> "accepted", id |-> i, up |-> TRUE] /\ UNCHANGED toInit
    /\ UNCHANGED <<initiator, announced, cooling, killer, recorded, inflight,
                   connected, drops>>

RecordAnnouncement ==
    LET i == handler.id IN
    /\ handler.pc = "accepted"
    /\ handler' = [handler EXCEPT !.pc = "recorded"]
    /\ ann' = ann \cup {i}
    /\ recorded' = recorded \cup {i}
    /\ UNCHANGED <<initiator, silent, watched, cooling, killer, link>>

SpawnWatch ==
    /\ handler.pc = "recorded"
    /\ handler' = [handler EXCEPT !.pc = "watched"]
    /\ watched' = watched \cup {handler.id}
    /\ UNCHANGED <<initiator, ann, silent, cooling, killer, recorded, link>>

\* The announcement is acknowledged on the session it came from.
Acknowledge ==
    /\ handler.pc = "watched"
    /\ handler' = Ready
    /\ toInit' = IF handler.up THEN Post(toInit, "yes", handler.id) ELSE toInit
    /\ UNCHANGED <<initiator, announced, cooling, killer, recorded, toTarget,
                   inflight, connected, drops>>

\* endAnnouncement
DropAnnouncement(i) ==
    /\ ann' = ann \ {i}
    /\ silent' = silent \ {i}

\* onSessionEnd
HearEnd(i) ==
    /\ Arrives("end", i)
    /\ DropAnnouncement(i)
    /\ UNCHANGED <<initiator, watched, cooling, handler, killer, recorded, toInit,
                   inflight, connected, drops>>

\* controlSessionIdle passes with no event.
FallSilent(i) ==
    /\ i \in ann \ silent
    /\ silent' = silent \cup {i}
    /\ UNCHANGED <<initiator, ann, watched, cooling, handler, killer, recorded, link>>

\* Slip: the watcher gives up once the session is gone.
WatchOverSlip(i) == i \notin ann \/ ~connected

\* watchAnnouncement stops once its announcement is gone or ended by it.
WatchOver(i) == i \notin ann \/ i \in silent

WatchAnnouncement(i) ==
    /\ i \in watched
    /\ WatchOver(i)
    /\ watched' = watched \ {i}
    /\ IF i \in silent THEN DropAnnouncement(i) ELSE UNCHANGED <<ann, silent>>
    /\ UNCHANGED <<initiator, cooling, handler, killer, recorded, link>>

\* KillSessions: the victims are collected in one critical section, the
\* cooldown is set in the next, and each victim is ended and told.
Collect(u) ==
    /\ killer[u].pc = "idle"
    /\ ann # {}
    /\ killer' = [killer EXCEPT ![u] = [pc |-> "chosen", left |-> ann, id |-> None]]
    /\ UNCHANGED <<initiator, announced, cooling, handler, recorded, link>>

SetCooldown(u) ==
    /\ killer[u].pc = "chosen"
    /\ cooling' = TRUE
    /\ killer' = [killer EXCEPT ![u].pc = "ending"]
    /\ UNCHANGED <<initiator, announced, handler, recorded, link>>

EndVictim(u, i) ==
    /\ killer[u].pc = "ending"
    /\ i \in killer[u].left
    /\ DropAnnouncement(i)
    /\ killer' = [killer EXCEPT ![u] = [pc |-> "telling", left |-> @.left \ {i}, id |-> i]]
    /\ UNCHANGED <<initiator, watched, cooling, handler, recorded, link>>

TellVictim(u) ==
    /\ killer[u].pc = "telling"
    /\ toInit' = Post(toInit, "kill", killer[u].id)
    /\ killer' = [killer EXCEPT ![u] =
                    IF @.left = {} THEN Resting
                    ELSE [pc |-> "ending", left |-> @.left, id |-> None]]
    /\ UNCHANGED <<initiator, announced, cooling, handler, recorded, toTarget,
                   inflight, connected, drops>>

\* killCooldown has passed.
CooldownOver ==
    /\ cooling
    /\ cooling' = FALSE
    /\ UNCHANGED <<initiator, announced, handler, killer, recorded, link>>

----------------------------------------------------------------------------
(* Input at the controlled device, and the session.                         *)

\* inputAllowed touches the first announcement it finds; an event that is then
\* applied, and not stale, touches them all (onInputEvent).
InputArrives ==
    /\ inflight > 0
    /\ inflight' = inflight - 1
    /\ ann # {}
    /\ silent' \in {silent \ {i} : i \in ann} \cup {{}}
    /\ UNCHANGED <<initiator, ann, watched, cooling, handler, killer, recorded, toTarget,
                   toInit, connected, drops>>

\* A datagram is lost, or refused because nothing is announced.
LoseInput ==
    /\ inflight > 0
    /\ inflight' = inflight - 1
    /\ UNCHANGED <<initiator, target, toTarget, toInit, connected, drops>>

Disconnect ==
    /\ connected
    /\ drops < MaxDrops
    /\ connected' = FALSE
    /\ drops' = drops + 1
    /\ toTarget' = <<>>
    /\ toInit' = <<>>
    /\ inflight' = 0
    /\ handler' = [handler EXCEPT !.up = FALSE]
    /\ UNCHANGED <<initiator, announced, cooling, killer, recorded>>

Reconnect ==
    /\ ~connected
    /\ connected' = TRUE
    /\ UNCHANGED <<initiator, target, toTarget, toInit, inflight, drops>>

Initiator(r) ==
    \/ Lookup(r) \/ Register(r) \/ Acked(r) \/ Refused(r) \/ TimeOut(r)
    \/ Store(r) \/ Act(r) \/ ActFails(r)
    \/ DropControl(r) \/ ControlIdle(r)

Target(i) == HearAnnounce(i) \/ HearEnd(i) \/ FallSilent(i) \/ WatchAnnouncement(i)

Killing(u) == Collect(u) \/ SetCooldown(u) \/ TellVictim(u) \/ \E i \in Requests : EndVictim(u, i)

Next ==
    \/ \E r \in Requests : Initiator(r) \/ Target(r)
    \/ StopControlling \/ HearAnswer
    \/ RecordAnnouncement \/ SpawnWatch \/ Acknowledge
    \/ \E u \in Killers : Killing(u)
    \/ CooldownOver
    \/ InputArrives \/ LoseInput
    \/ Disconnect \/ Reconnect

Spec == Init /\ [][Next]_vars

\* Goroutines and timers of the controlled device run.  Its peer owes nothing:
\* no end, no further event, and no session.
Fairness ==
    /\ WF_vars(SpawnWatch)
    /\ \A i \in Requests : WF_vars(FallSilent(i)) /\ WF_vars(WatchAnnouncement(i))

FairSpec == Spec /\ Fairness

----------------------------------------------------------------------------
(* Properties.                                                              *)

\* A control session is used only for an announcement the other device has
\* recorded, so its input has something to be authorised against (the comment on
\* onSessionAnnounce's acknowledgement): whatever was delayed, lost or refused.
StoredMeansRecorded ==
    /\ control # None => control \in recorded
    /\ \A r \in Requests : req[r].pc = "using" => req[r].use \in recorded

\* An announcement ends once its input stops, even if its initiator crashed, timed
\* out or lost the session (watchAnnouncement).
AnnouncementsEnd == \A i \in Requests : []<>(i \notin ann)

================================================================================
