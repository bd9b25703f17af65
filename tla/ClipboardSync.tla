---------------------------- MODULE ClipboardSync ----------------------------
(***************************************************************************)
(* Automatic clipboard sync (caps/clipboard/sync.go, clipboard.go,         *)
(* daemon/autoclip.go, onClipboardReceived in daemon/ipcserver.go): every  *)
(* device polls its clipboard, pushes what its user copied to its live     *)
(* sessions, and applies what it receives.                                 *)
(*                                                                         *)
(* The copies of the users are numbered, and a text is its copy's number.  *)
(* A digest is the text.  A mishap is an overlap the suppression does not  *)
(* foresee; their number is bounded, and the properties count them.        *)
(***************************************************************************)
EXTENDS Naturals, Sequences, SequencesExt, FiniteSets

CONSTANTS Devices,
          Grain,      \* origin_ts is in milliseconds, localAt is not
          Skew,       \* how far apart the devices' clocks may be
          MaxCopies,  \* bound: copies the users make
          MaxMishaps, \* bound: see Mishap
          MaxLosses,  \* bound: lost sessions
          MaxTime     \* bound: the time

\* A device syncs with another one.
ASSUME ClipboardAssumption ==
    /\ IsFiniteSet(Devices) /\ \A d \in Devices : Devices # {d}
    /\ {Grain, MaxTime} \subseteq Nat \ {0}
    /\ {Skew, MaxCopies, MaxMishaps, MaxLosses} \subseteq Nat

VARIABLES
    now,      \* the time, which no device knows: see Clock
    clip,     \* clip[d]: the system clipboard
    applied,  \* applied[d]: SyncState.applied
    localAt,  \* localAt[d]: SyncState.localAt
    watcher,  \* watcher[d]: where Run is, its text and the sessions it has yet to push to
    net,      \* net[<<d, e>>]: the pushes from d to e
    handler,  \* handler[<<d, e>>]: the push of d that e has found worth applying
    writes,   \* writes[d]: the texts of the goroutines in WriteOS
    copies,   \* the copies made so far
    seen,     \* history: seen[d], the texts d has pushed or applied
    echoes,   \* history: pushes of a text the device had seen, as far as they matter
    mishaps,  \* history: overlaps
    crossed,  \* history: see Crossing
    pushed,   \* history: pushed[d], the time of d's last push
    losses    \* the sessions lost so far

state == <<applied, localAt>>
history == <<seen, echoes, crossed, pushed>>
vars == <<now, clip, state, watcher, net, handler, writes, copies, history, mishaps, losses>>

None == 0
Texts == 1..MaxCopies

Sleeps == [pc |-> "asleep", text |-> None, to |-> {}]

Others(d) == Devices \ {d}
Links == {l \in Devices \X Devices : l[1] # l[2]}

Init ==
    /\ now = 1
    /\ clip = [d \in Devices |-> None]
    /\ applied = [d \in Devices |-> None]
    /\ localAt = [d \in Devices |-> 0]
    /\ watcher = [d \in Devices |-> Sleeps]
    /\ net = [l \in Links |-> <<>>]
    /\ handler = [l \in Links |-> None]
    /\ writes = [d \in Devices |-> <<>>]
    /\ copies = 0
    /\ seen = [d \in Devices |-> {}]
    /\ echoes = 0
    /\ mishaps = 0
    /\ crossed = FALSE
    /\ pushed = [d \in Devices |-> 0]
    /\ losses = 0

Tick ==
    /\ now < MaxTime
    /\ now' = now + 1
    /\ UNCHANGED <<clip, state, watcher, net, handler, writes, copies, history, mishaps, losses>>

\* What time.Now() may return on a device.  Every device has a clock of its own, which
\* runs on its own and may be set, forward or back, so two devices, and two readings
\* of one, are up to Skew apart: sync.go "leans on clocks being roughly right".
Clock == now..(now + Skew)

\* Time.UnixMilli
Milli(t) == t - (t % Grain)

\* A received text is on its way into the clipboard: found worth applying and
\* not yet written.
Applying(d) == writes[d] # <<>> \/ \E e \in Others(d) : handler[<<e, d>>] # None

\* Whether it happens now; each takes one of the bounded number.
Mishap(happens) ==
    IF happens THEN mishaps < MaxMishaps /\ mishaps' = mishaps + 1 ELSE UNCHANGED mishaps

Copy(d) ==
    /\ copies < MaxCopies
    /\ copies' = copies + 1
    /\ clip' = [clip EXCEPT ![d] = copies + 1]
    /\ UNCHANGED <<now, state, watcher, net, handler, writes, history, mishaps, losses>>

-----------------------------------------------------------------------------
(* The watcher                                                             *)

\* A mishap while a received text is being applied.
Poll(d) ==
    /\ watcher[d] = Sleeps
    /\ watcher' = [watcher EXCEPT ![d] = [pc |-> "read", text |-> clip[d], to |-> {}]]
    /\ Mishap(Applying(d))
    /\ UNCHANGED <<now, clip, state, net, handler, writes, copies, history, losses>>

WorthSending(d, text) == text # None /\ text # applied[d]

Record(d, text) ==
    /\ applied' = [applied EXCEPT ![d] = text]
    /\ \E t \in Clock : localAt' = [localAt EXCEPT ![d] = t]

\* Another device has still to push, or has pushed more recently than the clocks may
\* differ, and a grain.
Crossing(d) ==
    \E e \in Others(d) :
        \/ watcher[e].pc = "push"
        \/ pushed[e] # 0 /\ now < pushed[e] + Skew + Grain

\* ShouldSend, and liveSessions.
Decide(d) ==
    LET text == watcher[d].text IN
    /\ watcher[d].pc = "read"
    /\ IF WorthSending(d, text)
       THEN /\ Record(d, text)
            /\ watcher' = [watcher EXCEPT ![d].pc = "push", ![d].to = Others(d)]
            /\ seen' = [seen EXCEPT ![d] = @ \cup {text}]
            /\ echoes' = IF text \in seen[d] /\ echoes <= 2 * MaxMishaps
                         THEN echoes + 1 ELSE echoes
            /\ crossed' = (crossed \/ Crossing(d))
       ELSE /\ watcher' = [watcher EXCEPT ![d] = Sleeps]
            /\ UNCHANGED <<state, seen, echoes, crossed>>
    /\ UNCHANGED <<now, clip, net, handler, writes, copies, pushed, mishaps, losses>>

\* The watcher does not notice that it is through with its sessions.
RestSlip(w, e) == [w EXCEPT !.to = @ \ {e}]

Rest(w, e) == IF w.to = {e} THEN Sleeps ELSE [w EXCEPT !.to = @ \ {e}]

\* pushClipboard: one session after the other, each push with a time of its own.
Push(d) ==
    /\ watcher[d].pc = "push"
    /\ \E e \in watcher[d].to, t \in Clock :
         /\ net' = [net EXCEPT ![<<d, e>>] =
                      Append(@, [text |-> watcher[d].text, ts |-> Milli(t)])]
         /\ watcher' = [watcher EXCEPT ![d] = Rest(@, e)]
    /\ pushed' = [pushed EXCEPT ![d] = now]
    /\ UNCHANGED <<now, clip, state, handler, writes, copies, seen, echoes, crossed, mishaps, losses>>

-----------------------------------------------------------------------------
(* The receiving side                                                      *)

\* Newer or older, whatever comes is applied.
ShouldApplySlip(d, p) == p.text # applied[d]

ShouldApply(d, p) ==
    /\ p.text # applied[d]
    /\ localAt[d] # 0 => p.ts >= localAt[d]

\* Serve, up to ShouldApply.  A mishap when the watcher has read the clipboard
\* that will change, or another text is being applied.
Receive(e, d) ==
    /\ handler[<<e, d>>] = None
    /\ net[<<e, d>>] # <<>>
    /\ net' = [net EXCEPT ![<<e, d>>] = Tail(@)]
    /\ LET p == Head(net[<<e, d>>]) IN
         IF ShouldApply(d, p)
         THEN /\ handler' = [handler EXCEPT ![<<e, d>>] = p.text]
              /\ Mishap(Applying(d) \/ watcher[d].pc = "read")
         ELSE UNCHANGED <<handler, mishaps>>
    /\ UNCHANGED <<now, clip, state, watcher, writes, copies, history, losses>>

\* The text is written without being recorded.
ApplySlip(e, d) ==
    LET text == handler[<<e, d>>] IN
    /\ text # None
    /\ handler' = [handler EXCEPT ![<<e, d>>] = None]
    /\ writes' = [writes EXCEPT ![d] = Append(@, text)]
    /\ seen' = [seen EXCEPT ![d] = @ \cup {text}]
    /\ UNCHANGED <<now, clip, state, watcher, net, copies, echoes, crossed, pushed, mishaps, losses>>

\* Applied, and the goroutine that will write.
Apply(e, d) ==
    LET text == handler[<<e, d>>] IN
    /\ text # None
    /\ handler' = [handler EXCEPT ![<<e, d>>] = None]
    /\ applied' = [applied EXCEPT ![d] = text]
    /\ writes' = [writes EXCEPT ![d] = Append(@, text)]
    /\ seen' = [seen EXCEPT ![d] = @ \cup {text}]
    /\ UNCHANGED <<now, clip, localAt, watcher, net, copies, echoes, crossed, pushed, mishaps, losses>>

\* WriteOS, in a goroutine of its own for each text.
Write(d) ==
    /\ \E i \in DOMAIN writes[d] :
         /\ clip' = [clip EXCEPT ![d] = writes[d][i]]
         /\ writes' = [writes EXCEPT ![d] = RemoveAt(@, i)]
    /\ UNCHANGED <<now, state, watcher, net, handler, copies, history, mishaps, losses>>

WriteFails(d) ==
    /\ \E i \in DOMAIN writes[d] : writes' = [writes EXCEPT ![d] = RemoveAt(@, i)]
    /\ Mishap(TRUE)
    /\ UNCHANGED <<now, clip, state, watcher, net, handler, copies, history, losses>>

\* A session ends with what is on its way.
Lose(d, e) ==
    /\ losses < MaxLosses
    /\ losses' = losses + 1
    /\ net' = [net EXCEPT ![<<d, e>>] = <<>>, ![<<e, d>>] = <<>>]
    /\ UNCHANGED <<now, clip, state, watcher, handler, writes, copies, history, mishaps>>

-----------------------------------------------------------------------------
Next ==
    \/ Tick
    \/ \E d \in Devices :
         Copy(d) \/ Poll(d) \/ Decide(d) \/ Push(d) \/ Write(d) \/ WriteFails(d)
    \/ \E l \in Links :
         Receive(l[1], l[2]) \/ Apply(l[1], l[2]) \/ Lose(l[1], l[2])

Spec == Init /\ [][Next]_vars

\* The pollers and the sessions' queues are goroutines that run; a helper that
\* writes ends.  A poll takes a moment of each interval, so a push is received at
\* last although the bound on mishaps keeps it from the moments of the polls.
Fairness ==
    /\ \A d \in Devices :
         WF_vars(Poll(d)) /\ WF_vars(Decide(d)) /\ WF_vars(Push(d)) /\ WF_vars(Write(d))
    /\ \A l \in Links : SF_vars(Receive(l[1], l[2])) /\ WF_vars(Apply(l[1], l[2]))

FairSpec == Spec /\ Fairness

-----------------------------------------------------------------------------
(* Properties                                                              *)

TypeOK ==
    /\ now \in 1..MaxTime
    /\ clip \in [Devices -> Texts \cup {None}]
    /\ applied \in [Devices -> Texts \cup {None}]
    /\ localAt \in [Devices -> 0..(MaxTime + Skew)]
    /\ watcher \in [Devices -> [pc : {"asleep", "read", "push"}, text : Texts \cup {None},
                                to : SUBSET Devices]]
    /\ \A d \in Devices :
         /\ watcher[d].pc = "push" <=> watcher[d].to # {}
         /\ watcher[d].pc = "asleep" => watcher[d] = Sleeps
    /\ net \in [Links -> Seq([text : Texts, ts : 0..(MaxTime + Skew)])]
    /\ handler \in [Links -> Texts \cup {None}]
    /\ writes \in [Devices -> Seq(Texts)]
    /\ copies \in 0..MaxCopies
    /\ seen \in [Devices -> SUBSET Texts]
    /\ mishaps \in 0..MaxMishaps
    /\ losses \in 0..MaxLosses

\* What two devices have applied of each other goes back and forth only by a new
\* overlap each time: no mishap costs more than two echoes (sync.go: "the
\* failure mode is a clipboard that loses one copy rather than a loop").
EchoesNeedMishaps == echoes <= 2 * mishaps

Settled(d) ==
    /\ ~WorthSending(d, clip[d])
    /\ watcher[d].pc # "push"
    /\ watcher[d].pc = "read" => ~WorthSending(d, watcher[d].text)
    /\ writes[d] = <<>>

Quiet ==
    /\ \A d \in Devices : Settled(d)
    /\ \A l \in Links : net[l] = <<>> /\ handler[l] = None

\* Copies further apart than Skew and a grain end in one text everywhere (sync.go:
\* "both converge on the later one and stop"), unless an overlap or a lost session
\* got in the way.  Copies closer than that may leave the clipboards different for
\* good: the later one can bear the earlier stamp, and is refused.  Two devices: a
\* third has no time for what it applied, and keeps of two texts the one that
\* reaches it last.
EditsConverge ==
    Quiet /\ mishaps = 0 /\ losses = 0 /\ ~crossed
        => \A d, e \in Devices : clip[d] = clip[e]

\* When the users have stopped copying, the devices stop pushing.
ExchangeStops == <>[]Quiet
=============================================================================
