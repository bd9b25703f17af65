------------------------------ MODULE RemoteInput ------------------------------
(****************************************************************************)
(* Remote input: internal/caps/input.  A Controller numbers events and      *)
(* sends them as datagrams; the receiving device drops stale pointer moves, *)
(* records what the peer holds down, and hands the event to the operating   *)
(* system outside its lock.  Release, called by the safety timer and by     *)
(* whoever ends a control session, lets go of what is recorded.             *)
(*                                                                          *)
(* One controlling peer and one controlled device.  A scroll is numbered    *)
(* like a move, and a button or a touch is held like a key, so moves and    *)
(* keys stand for all five kinds.  Announcements come and go as in          *)
(* RemoteControl; here only their number counts.                            *)
(****************************************************************************)
EXTENDS Naturals, FiniteSets

CONSTANTS
    Keys,            \* what can be held down
    Controllers,     \* the Controllers, one of each shell request
    Enders,          \* goroutines that may be inside endAnnouncement
    Loop,            \* the goroutine of releaseLoop
    MaxEvents,       \* bound on events sent
    MaxSessions,     \* bound on announcements
    Absent           \* no key, no peer state

ASSUME LoopIsNoEnder == Loop \notin Enders
ASSUME InputBounds == MaxEvents \in Nat /\ MaxSessions \in Nat
ASSUME AbsentIsNoKey == Absent \notin Keys
ASSUME EndersAreFinite == IsFiniteSet(Enders)

VARIABLES
    live,        \* the peer's announcements that name input
    begun,       \* announcements so far
    net,         \* datagrams in flight: a set, as they are lost and reordered
    sent,        \* how many events were sent
    ctl,         \* request -> its Controller's seq, and the key it has pressed
    peer,        \* Capability.state[peer], or Absent
    serve,       \* the session's datagram loop, inside ServeDatagram
    letgo,       \* caller -> where its Release or Forget is
    down,        \* the keys the operating system holds down for the peer
    took,        \* history: the moves accepted
    last,        \* history: Controller -> the number of the last move accepted of it
    back,        \* history: Controller -> how often a move accepted was older than the last
    missed,      \* history: was the newest move dropped?
    late         \* history: events accepted since the last announcement ended

sessions == <<live, begun>>
sender   == <<net, sent, ctl>>
history  == <<took, last, back, missed, late>>
inputVars == <<sessions, sender, peer, serve, letgo, down, history>>

Callers == {Loop} \cup Enders

Kinds == {"move", "press", "release"}
Event == [kind : Kinds, key : Keys \cup {Absent}, by : Controllers, seq : 1..MaxEvents,
          stamp : 1..MaxEvents]
PeerState == [highest : 0..MaxEvents, keys : SUBSET Keys, quiet : BOOLEAN]
ASSUME AbsentIsNoPeer == Absent \notin PeerState

NewPeer == [highest |-> 0, keys |-> {}, quiet |-> FALSE]
Idle == [pc |-> "idle", keys |-> {}]
Nothing == [pc |-> "idle"]

InputTypeOK ==
    /\ live \in 0..MaxSessions
    /\ begun \in 0..MaxSessions
    /\ net \in SUBSET Event
    /\ sent \in 0..MaxEvents
    /\ ctl \in [Controllers -> [seq : 0..MaxEvents, held : Keys \cup {Absent}]]
    /\ peer = Absent \/ peer \in PeerState
    /\ serve = Nothing \/ serve \in [pc : {"allowed", "recorded"}, e : Event]
    /\ letgo \in [Callers -> [pc : {"idle", "take", "inject"}, keys : SUBSET Keys]]
    /\ down \in SUBSET Keys
    /\ took \in SUBSET Event
    /\ last \in [Controllers -> 0..MaxEvents]
    /\ back \in [Controllers -> Nat]
    /\ missed \in BOOLEAN
    /\ late \in Nat

InputInit ==
    /\ live = 0
    /\ begun = 0
    /\ net = {}
    /\ sent = 0
    /\ ctl = [r \in Controllers |-> [seq |-> 0, held |-> Absent]]
    /\ peer = Absent
    /\ serve = Nothing
    /\ letgo = [c \in Callers |-> Idle]
    /\ down = {}
    /\ took = {}
    /\ last = [r \in Controllers |-> 0]
    /\ back = [r \in Controllers |-> 0]
    /\ missed = FALSE
    /\ late = 0

----------------------------------------------------------------------------
(* Announcements: RemoteControl has their handlers.                         *)

Announce ==
    /\ begun < MaxSessions
    /\ begun' = begun + 1
    /\ live' = live + 1
    /\ late' = 0
    /\ UNCHANGED <<sender, peer, serve, letgo, down, took, last, back, missed>>

\* endAnnouncement: the announcement goes, then Forget is called.
EndAnnouncement(c) ==
    /\ live > 0
    /\ letgo[c] = Idle
    /\ live' = live - 1
    /\ letgo' = [letgo EXCEPT ![c] = [pc |-> "take", keys |-> {}]]
    /\ UNCHANGED <<begun, sender, peer, serve, down, history>>

----------------------------------------------------------------------------
(* The controlling side.                                                    *)

\* Controller.Send: number the event and put it on the wire.
Emit(r, kind, k, held) ==
    /\ begun > 0
    /\ sent < MaxEvents
    /\ sent' = sent + 1
    /\ ctl' = [ctl EXCEPT ![r] = [seq |-> ctl[r].seq + 1, held |-> held]]
    /\ net' = net \cup {[kind |-> kind, key |-> k, by |-> r,
                         seq |-> ctl[r].seq + 1, stamp |-> sent + 1]}
    /\ UNCHANGED <<sessions, peer, serve, letgo, down, history>>

\* Move; and Tap, which presses and then releases.
SendMove(r) == ctl[r].held = Absent /\ Emit(r, "move", Absent, Absent)
SendPress(r, k) == ctl[r].held = Absent /\ Emit(r, "press", k, k)
SendRelease(r) == ctl[r].held # Absent /\ Emit(r, "release", ctl[r].held, Absent)

\* A datagram that never arrives.
Lose(e) ==
    /\ e \in net
    /\ net' = net \ {e}
    /\ UNCHANGED <<sessions, sent, ctl, peer, serve, letgo, down, history>>

----------------------------------------------------------------------------
(* ServeDatagram, which the session's datagram loop calls for one datagram  *)
(* after another.                                                           *)

\* Slip: an announcement that has ended still counts.
AllowedSlip == begun > 0

\* inputAllowed: there is an announcement.
Allowed == live > 0

\* A refused event is dropped.
Receive(e) ==
    /\ serve = Nothing
    /\ e \in net
    /\ net' = net \ {e}
    /\ serve' = IF Allowed THEN [pc |-> "allowed", e |-> e] ELSE Nothing
    /\ UNCHANGED <<sessions, sent, ctl, peer, letgo, down, history>>

Known == IF peer = Absent THEN NewPeer ELSE peer

\* A move no newer than the highest number seen is dropped.
Fresh(e) == e.kind = "move" => e.seq > Known.highest

Recorded(e) ==
    [highest |-> IF e.kind = "move" THEN e.seq ELSE Known.highest,
     keys |-> CASE e.kind = "press" -> Known.keys \cup {e.key}
                [] e.kind = "release" -> Known.keys \ {e.key}
                [] OTHER -> Known.keys,
     quiet |-> FALSE]

\* What the history keeps of a move that is accepted.
MoveTaken(e) ==
    /\ took' = took \cup {e}
    /\ last' = [last EXCEPT ![e.by] = e.seq]
    /\ back' = IF e.seq > last[e.by] THEN back ELSE [back EXCEPT ![e.by] = @ + 1]

\* accept, under the lock.
Accept ==
    LET e == serve.e IN
    /\ serve # Nothing /\ serve.pc = "allowed"
    /\ late' = IF live = 0 THEN late + 1 ELSE late
    /\ IF Fresh(e)
       THEN /\ peer' = Recorded(e)
            /\ serve' = [serve EXCEPT !.pc = "recorded"]
            /\ IF e.kind = "move" THEN MoveTaken(e) ELSE UNCHANGED <<took, last, back>>
            /\ UNCHANGED missed
       ELSE /\ peer' = [Known EXCEPT !.quiet = FALSE]
            /\ serve' = Nothing
            /\ missed' = (missed \/ \A m \in took : m.stamp < e.stamp)
            /\ UNCHANGED <<took, last, back>>
    /\ UNCHANGED <<sessions, sender, letgo, down>>

\* apply, outside it.
Apply ==
    /\ serve # Nothing /\ serve.pc = "recorded"
    /\ serve' = Nothing
    /\ down' = CASE serve.e.kind = "press" -> down \cup {serve.e.key}
                 [] serve.e.kind = "release" -> down \ {serve.e.key}
                 [] OTHER -> down
    /\ UNCHANGED <<sessions, sender, peer, letgo, history>>

----------------------------------------------------------------------------
(* Release and Forget.                                                      *)

\* SafetyRelease passes with no datagram from the peer.
FallQuiet ==
    /\ peer # Absent
    /\ ~peer.quiet
    /\ peer' = [peer EXCEPT !.quiet = TRUE]
    /\ UNCHANGED <<sessions, sender, serve, letgo, down, history>>

\* Slip: only a peer with an announcement is looked at.
StaleSlip == live > 0 /\ peer # Absent /\ (peer.quiet /\ peer.keys # {})

\* releaseStale's test.
Stale == peer # Absent /\ (peer.quiet /\ peer.keys # {})

\* releaseStale finds the peer, and calls Release after it has let the lock go.
Notice ==
    /\ Stale
    /\ letgo[Loop] = Idle
    /\ letgo' = [letgo EXCEPT ![Loop].pc = "take"]
    /\ UNCHANGED <<sessions, sender, peer, serve, down, history>>

\* Release's critical section: what is recorded is taken and no longer held.
TakeHeld(c) ==
    /\ letgo[c].pc = "take"
    /\ letgo' = [letgo EXCEPT ![c] = [pc |-> "inject",
                                      keys |-> IF peer = Absent THEN {} ELSE peer.keys]]
    /\ peer' = IF peer = Absent THEN Absent ELSE [peer EXCEPT !.keys = {}]
    /\ UNCHANGED <<sessions, sender, serve, down, history>>

InjectUp(c, k) ==
    /\ k \in letgo[c].keys
    /\ down' = down \ {k}
    /\ letgo' = [letgo EXCEPT ![c].keys = @ \ {k}]
    /\ UNCHANGED <<sessions, sender, peer, serve, history>>

\* Slip: the safety timer forgets the peer instead of letting go.
ReleasedSlip(c) ==
    /\ letgo[c].pc = "inject"
    /\ letgo[c].keys = {}
    /\ letgo' = [letgo EXCEPT ![c] = Idle]
    /\ peer' = Absent
    /\ UNCHANGED <<sessions, sender, serve, down, history>>

\* Release is done; Forget, which endAnnouncement calls, then drops the peer's state
\* and with it the highest number.
Released(c) ==
    /\ letgo[c].pc = "inject"
    /\ letgo[c].keys = {}
    /\ letgo' = [letgo EXCEPT ![c] = Idle]
    /\ IF c = Loop THEN UNCHANGED peer ELSE peer' = Absent
    /\ UNCHANGED <<sessions, sender, serve, down, history>>

Releasing(c) == TakeHeld(c) \/ Released(c) \/ \E k \in Keys : InjectUp(c, k)

InputNext ==
    \/ Announce
    \/ \E c \in Enders : EndAnnouncement(c)
    \/ \E r \in Controllers : SendMove(r) \/ SendRelease(r) \/ \E k \in Keys : SendPress(r, k)
    \/ \E e \in net : Lose(e) \/ Receive(e)
    \/ Accept \/ Apply \/ FallQuiet \/ Notice
    \/ \E c \in Callers : Releasing(c)

InputSpec == InputInit /\ [][InputNext]_inputVars

\* Goroutines run and time passes.  Nobody owes an event, its arrival, or an
\* announcement.
InputFairness ==
    /\ WF_inputVars(Accept \/ Apply)
    /\ WF_inputVars(FallQuiet)
    /\ WF_inputVars(Notice)
    /\ \A c \in Callers : WF_inputVars(Releasing(c))

InputFairSpec == InputSpec /\ InputFairness

----------------------------------------------------------------------------
(* Properties.                                                              *)

\* "Latest wins", as far as the code keeps it: the moves of one Controller are
\* accepted in the order it numbered them, however the datagrams are reordered,
\* but for one step back for each announcement of the peer that has ended (accept;
\* endAnnouncement forgets the peer's highest number, even while another
\* announcement of the peer stands).
LatestWinsBetweenEnds == \A r \in Controllers : back[r] <= begun - live

\* Once no announcement stands, at most the one event already past inputAllowed
\* is still accepted, whoever ended the last one.
InputStopsAtEnd == late <= 1

\* What is recorded as held is let go of once the peer falls silent, with or
\* without an announcement (releaseLoop).
HeldIsReleased ==
    \A k \in Keys : []<>(peer = Absent \/ k \notin peer.keys)

\* A move sent after every move accepted so far is not dropped as stale.
NewestIsTaken == ~missed

\* Whatever is down for the peer can still be let go of: it is recorded, or its
\* release is under way ("Release lets go of everything one peer is holding").
NothingStuck ==
    \A k \in down :
        \/ peer # Absent /\ k \in peer.keys
        \/ serve # Nothing /\ (serve.pc = "recorded" /\ serve.e.key = k)
        \/ \E c \in Callers : k \in letgo[c].keys

================================================================================
