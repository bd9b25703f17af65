------------------------------- MODULE Mirror -------------------------------
(***************************************************************************)
(* Screen sharing between two devices: the requests of the watching device *)
(* (daemon/mirror.go, caps/mirror/sink.go) and the announcements, handlers *)
(* and captures of the shared one (caps/mirror/source.go, control.go).     *)
(*                                                                         *)
(* A request to watch announces itself, publishes a view and asks for the  *)
(* picture; its name is also that of its announcement and of the capture   *)
(* it leads to.  Each session has a control queue and a mirror queue, read *)
(* by one handler each; the handler of a session that was lost finishes    *)
(* what it is doing.  Kills are in RemoteControl: at the shared device one *)
(* is to a capture what a quiet announcement is.                           *)
(***************************************************************************)
EXTENDS Naturals, Sequences, FiniteSets

CONSTANTS MaxRequests, \* bound: mirror requests of the watching device's shells
          MaxSessions  \* bound: sessions of the two devices

ASSUME MirrorAssumption == MaxRequests \in Nat /\ MaxSessions \in Nat \ {0}

VARIABLES
    session,   \* the current session, or the last one
    up,        \* whether it lives
    req,       \* the requests: [kind, pc, s]
    view,      \* views[peer]: the request whose view is published
    kept,      \* mirrorSessions[peer]
    watching,  \* whether the sink has watching[peer]
    acked,     \* announcements that were acknowledged
    ctl,       \* ctl[s]: the shared device's control queue
    mir,       \* mir[s]: its mirror queue
    handler,   \* handler[s]: where startSharing is, and for which request
    ann,       \* standing announcements for the screen
    ending,    \* those inside endAnnouncement, between the delete and the stop
    sending,   \* sending[peer]
    capture,   \* capture[r]: "none", "running", "over"
    from,      \* from[r]: the session of the capture's pump
    pump,      \* pump[r]: whether the pump runs
    raced,     \* history: captures a stop passed by while they were starting
    lost       \* history: captures another one replaced in sending

sink == <<req, view, kept, watching>>
wire == <<session, up, acked, ctl, mir>>
shares == <<handler, ann, ending, sending, capture, from, pump, raced, lost>>
mirrorVars == <<sink, wire, shares>>

Requests == 1..MaxRequests
None == 0

Sessions == 1..MaxSessions

\* Stands beside the sessions' control handlers as one that ends announcements.
Timer == 0

Rests == [pc |-> "idle", id |-> None]

MirrorInit ==
    /\ session = 1
    /\ up = TRUE
    /\ req = [r \in Requests |-> [kind |-> "watch", pc |-> "new", s |-> 1]]
    /\ view = None
    /\ kept = None
    /\ watching = FALSE
    /\ acked = {}
    /\ ctl = [s \in Sessions |-> <<>>]
    /\ mir = [s \in Sessions |-> <<>>]
    /\ handler = [s \in Sessions |-> Rests]
    /\ ann = {}
    /\ ending = {}
    /\ sending = None
    /\ capture = [r \in Requests |-> "none"]
    /\ from = [r \in Requests |-> 1]
    /\ pump = [r \in Requests |-> FALSE]
    /\ raced = {}
    /\ lost = {}

Open(s) == up /\ s = session

-----------------------------------------------------------------------------
(* The session *)

\* What was queued goes with it; both ends know.
Lose ==
    /\ up
    /\ up' = FALSE
    /\ ctl' = [ctl EXCEPT ![session] = <<>>]
    /\ mir' = [mir EXCEPT ![session] = <<>>]
    /\ UNCHANGED <<session, acked, sink, shares>>

Dial ==
    /\ ~up
    /\ session < MaxSessions
    /\ session' = session + 1
    /\ up' = TRUE
    /\ UNCHANGED <<acked, ctl, mir, sink, shares>>

-----------------------------------------------------------------------------
(* The watching device *)

At(r, pc) == req[r].pc = pc

Goto(r, pc) == req' = [req EXCEPT ![r].pc = pc]

\* Requests are numbered as they are made.
IsNext(r) == At(r, "new") /\ \A q \in Requests : At(q, "new") => r <= q

\* mirror, up to the announcement it sends.  A view that is already published
\* is all the answer there is, whatever has become of its picture.
AskToWatch(r) ==
    /\ IsNext(r)
    /\ up
    /\ IF view # None
       THEN Goto(r, "done") /\ UNCHANGED ctl
       ELSE /\ req' = [req EXCEPT ![r] = [kind |-> "watch", pc |-> "announcing", s |-> session]]
            /\ ctl' = [ctl EXCEPT ![session] = Append(@, <<"announce", r>>)]
    /\ UNCHANGED <<session, up, acked, mir, view, kept, watching, shares>>

\* No acknowledgement in time, or the session is gone.
NotAcknowledged(r) ==
    /\ At(r, "announcing")
    /\ Goto(r, "done")
    /\ UNCHANGED <<view, kept, watching, wire, shares>>

PublishView(r) ==
    /\ At(r, "announcing")
    /\ r \in acked
    /\ Goto(r, "watching")
    /\ view' = r
    /\ kept' = r
    /\ UNCHANGED <<watching, wire, shares>>

\* Watch, and what mirror does when it fails.
Watch(r) ==
    /\ At(r, "watching")
    /\ Goto(r, "done")
    /\ \/ /\ watching
          /\ UNCHANGED <<watching, view, mir>>
       \/ /\ ~watching /\ Open(req[r].s)
          /\ watching' = TRUE
          /\ mir' = [mir EXCEPT ![session] = Append(@, <<"start", r>>)]
          /\ UNCHANGED view
       \/ /\ ~watching /\ ~Open(req[r].s)
          /\ view' = None
          /\ UNCHANGED <<watching, mir>>
    /\ UNCHANGED <<kept, session, up, acked, ctl, shares>>

AskToStop(r) ==
    /\ IsNext(r)
    /\ up
    /\ IF view = None
       THEN Goto(r, "done")
       ELSE req' = [req EXCEPT ![r] = [kind |-> "stop", pc |-> "stopping", s |-> session]]
    /\ view' = None
    /\ UNCHANGED <<kept, watching, wire, shares>>

\* StopWatching: an error leaves the announcement where it is.
Unwatch(r) ==
    /\ At(r, "stopping")
    /\ watching' = FALSE
    /\ IF watching /\ Open(req[r].s)
       THEN mir' = [mir EXCEPT ![session] = Append(@, <<"stop", r>>)]
       ELSE UNCHANGED mir
    /\ Goto(r, IF watching /\ ~Open(req[r].s) THEN "done" ELSE "ending")
    /\ UNCHANGED <<view, kept, session, up, acked, ctl, shares>>

\* endMirrorAnnouncement, over whatever session there is by now.
EndMirrorAnnouncement(r) ==
    /\ At(r, "ending")
    /\ Goto(r, "done")
    /\ kept' = None
    /\ ctl' = IF kept # None /\ up
              THEN [ctl EXCEPT ![session] = Append(@, <<"end", kept>>)] ELSE ctl
    /\ UNCHANGED <<view, watching, session, up, acked, mir, shares>>

-----------------------------------------------------------------------------
(* The shared device: stopping *)

\* The requests whose startSharing is past its check and not yet in sending.
Starting == {handler[s].id : s \in Sessions} \ {None}

\* stopSharing: whatever is in sending goes, and its context is cancelled.
StopSharing ==
    /\ sending' = None
    /\ capture' = [r \in Requests |-> IF r = sending THEN "over" ELSE capture[r]]
    /\ raced' = raced \cup Starting

\* An input announcement of the same peer ends, or the daemon stops them all.
StopOther ==
    /\ StopSharing
    /\ UNCHANGED <<handler, ann, ending, from, pump, lost, wire, sink>>

\* endAnnouncement with the stop before the delete.
EndAnnouncementSlip(who, id) ==
    \/ /\ id \in ann /\ <<who, id>> \notin ending
       /\ StopSharing
       /\ ending' = ending \cup {<<who, id>>}
       /\ UNCHANGED ann
    \/ /\ <<who, id>> \in ending
       /\ ann' = ann \ {id}
       /\ ending' = ending \ {<<who, id>>}
       /\ UNCHANGED <<sending, capture, raced>>

\* endAnnouncement: the delete, and once it found something, the stop.
EndAnnouncement(who, id) ==
    \/ /\ id \in ann
       /\ ann' = ann \ {id}
       /\ ending' = ending \cup {<<who, id>>}
       /\ UNCHANGED <<sending, capture, raced>>
    \/ /\ <<who, id>> \in ending
       /\ StopSharing
       /\ ending' = ending \ {<<who, id>>}
       /\ UNCHANGED ann

\* watchAnnouncement: an announcement is touched when its capture starts and
\* at no other time, so two minutes later it is quiet, watched or not.
WentQuiet(id) ==
    /\ EndAnnouncement(Timer, id)
    /\ UNCHANGED <<handler, from, pump, lost, wire, sink>>

-----------------------------------------------------------------------------
(* The shared device: its control queue *)

Busy(s) == \E id \in Requests : <<s, id>> \in ending

HearAnnounce(s) ==
    /\ ~Busy(s)
    /\ ctl[s] # <<>>
    /\ Head(ctl[s])[1] = "announce"
    /\ ann' = ann \cup {Head(ctl[s])[2]}
    /\ acked' = acked \cup {Head(ctl[s])[2]}
    /\ ctl' = [ctl EXCEPT ![s] = Tail(@)]
    /\ UNCHANGED <<handler, ending, sending, capture, from, pump, raced, lost,
                   session, up, mir, sink>>

\* onSessionEnd; an announcement that is gone already needs nothing.
HearEnd(s) ==
    /\ ~Busy(s)
    /\ ctl[s] # <<>>
    /\ Head(ctl[s])[1] = "end"
    /\ LET id == Head(ctl[s])[2] IN
         IF id \in ann THEN EndAnnouncement(s, id)
         ELSE UNCHANGED <<ann, ending, sending, capture, raced>>
    /\ ctl' = [ctl EXCEPT ![s] = Tail(@)]
    /\ UNCHANGED <<handler, from, pump, lost, session, up, acked, mir, sink>>

\* The rest of onSessionEnd.
FinishEnd(s) ==
    /\ \E id \in Requests : <<s, id>> \in ending /\ EndAnnouncement(s, id)
    /\ UNCHANGED <<handler, from, pump, lost, wire, sink>>

-----------------------------------------------------------------------------
(* The shared device: its mirror queue *)

Hears(s, kind) ==
    /\ handler[s] = Rests
    /\ mir[s] # <<>>
    /\ Head(mir[s])[1] = kind
    /\ mir' = [mir EXCEPT ![s] = Tail(@)]

Handles(s, pc, id) == handler' = [handler EXCEPT ![s] = [pc |-> pc, id |-> id]]

\* startSharing: Config.Allowed is mirrorAllowed.
Admit(s) ==
    /\ Hears(s, "start")
    /\ IF ann # {} THEN Handles(s, "admitted", Head(mir[s])[2]) ELSE UNCHANGED handler
    /\ UNCHANGED <<ann, ending, sending, capture, from, pump, raced, lost,
                   session, up, acked, ctl, sink>>

\* startSharing: one capture a peer.
LookForOne(s) ==
    /\ handler[s].pc = "admitted"
    /\ IF sending = None THEN Handles(s, "alone", handler[s].id)
       ELSE handler' = [handler EXCEPT ![s] = Rests]
    /\ UNCHANGED <<ann, ending, sending, capture, from, pump, raced, lost, wire, sink>>

\* startSharing: Quiesce and capture.Start, which may take long and may fail.
StartCapture(s) ==
    /\ handler[s].pc = "alone"
    /\ \/ /\ Handles(s, "started", handler[s].id)
          /\ capture' = [capture EXCEPT ![handler[s].id] = "running"]
       \/ /\ handler' = [handler EXCEPT ![s] = Rests]
          /\ UNCHANGED capture
    /\ UNCHANGED <<ann, ending, sending, from, pump, raced, lost, wire, sink>>

\* startSharing: the session is entered, over any other, and pumped.
Share(s) ==
    LET id == handler[s].id IN
    /\ handler[s].pc = "started"
    /\ handler' = [handler EXCEPT ![s] = Rests]
    /\ sending' = id
    /\ lost' = lost \cup ({sending} \ {None})
    /\ from' = [from EXCEPT ![id] = s]
    /\ pump' = [pump EXCEPT ![id] = TRUE]
    /\ UNCHANGED <<ann, ending, capture, raced, wire, sink>>

\* MirrorStop.
HearStop(s) ==
    /\ Hears(s, "stop")
    /\ StopSharing
    /\ UNCHANGED <<handler, ann, ending, from, pump, lost, session, up, acked, ctl, sink>>

\* The pump of a session that is gone goes on looking for a stream.
DeadSlip(r) == FALSE

\* OpenStream fails at the next frame.
Dead(r) == ~Open(from[r])

\* The pump returns without its deferred stop.
PumpReturnsSlip(r) ==
    /\ pump[r]
    /\ pump' = [pump EXCEPT ![r] = FALSE]
    /\ \/ capture[r] = "over" \/ Dead(r)
    /\ UNCHANGED <<handler, ann, ending, sending, capture, from, raced, lost, wire, sink>>

\* pump returns: its context was cancelled, its session is gone, or the
\* encoder stopped.  The deferred stop ends whatever is in sending by then.
PumpReturns(r) ==
    /\ pump[r]
    /\ pump' = [pump EXCEPT ![r] = FALSE]
    /\ \/ capture[r] = "over" \/ Dead(r)
    /\ StopSharing
    /\ UNCHANGED <<handler, ann, ending, from, lost, wire, sink>>

\* The encoder ends by itself and closes the channel of frames.
EncoderEnds(r) ==
    /\ pump[r] /\ capture[r] = "running"
    /\ pump' = [pump EXCEPT ![r] = FALSE]
    /\ sending' = None
    /\ capture' = [q \in Requests |-> IF q \in {r, sending} THEN "over" ELSE capture[q]]
    /\ raced' = raced \cup Starting
    /\ UNCHANGED <<handler, ann, ending, from, lost, wire, sink>>

-----------------------------------------------------------------------------
MirrorNext ==
    \/ Lose \/ Dial \/ StopOther
    \/ \E r \in Requests :
         \/ AskToWatch(r) \/ NotAcknowledged(r) \/ PublishView(r) \/ Watch(r)
         \/ AskToStop(r) \/ Unwatch(r) \/ EndMirrorAnnouncement(r)
         \/ WentQuiet(r) \/ PumpReturns(r) \/ EncoderEnds(r)
    \/ \E s \in Sessions :
         \/ HearAnnounce(s) \/ HearEnd(s) \/ FinishEnd(s)
         \/ Admit(s) \/ LookForOne(s) \/ StartCapture(s) \/ Share(s) \/ HearStop(s)

MirrorSpec == MirrorInit /\ [][MirrorNext]_mirrorVars

\* Goroutines of the shared device run, its timers fire and frames come; the
\* watching device owes nothing.
MirrorFairness ==
    /\ \A r \in Requests : WF_mirrorVars(WentQuiet(r)) /\ WF_mirrorVars(PumpReturns(r))
    /\ \A s \in Sessions :
         WF_mirrorVars(LookForOne(s)) /\ WF_mirrorVars(StartCapture(s)) /\ WF_mirrorVars(Share(s))
         /\ WF_mirrorVars(FinishEnd(s)) /\ WF_mirrorVars(Admit(s)) /\ WF_mirrorVars(HearStop(s))

MirrorFairSpec == MirrorSpec /\ MirrorFairness

-----------------------------------------------------------------------------
(* Properties *)

Kinds == {"watch", "stop"}

MirrorTypeOK ==
    /\ session \in Sessions
    /\ up \in BOOLEAN
    /\ req \in [Requests -> [kind : Kinds,
                             pc : {"new", "announcing", "watching", "stopping", "ending", "done"},
                             s : Sessions]]
    /\ {view, kept, sending} \subseteq Requests \cup {None}
    /\ watching \in BOOLEAN
    /\ ctl \in [Sessions -> Seq({"announce", "end"} \X Requests)]
    /\ mir \in [Sessions -> Seq({"start", "stop"} \X Requests)]
    /\ handler \in [Sessions -> [pc : {"idle", "admitted", "alone", "started"},
                                 id : Requests \cup {None}]]
    /\ ann \cup acked \cup raced \cup lost \subseteq Requests
    /\ ending \subseteq (Sessions \cup {Timer}) \X Requests
    /\ capture \in [Requests -> {"none", "running", "over"}]
    /\ from \in [Requests -> Sessions]
    /\ pump \in [Requests -> BOOLEAN]
    /\ sending # None => pump[sending]
    /\ \A s \in Sessions : handler[s].pc = "idle" <=> handler[s].id = None

\* A capture runs only for an announcement that stands or is just being ended,
\* and where a stop finds it (control.go, endAnnouncement: "ending the
\* announcement has to stop the capture as well").  The exceptions are the two
\* races of startSharing's check with its insertion: a stop that passed between
\* them, and another capture entered over it.
CapturesAreAnnounced ==
    \A r \in Requests \ (raced \cup lost) :
        capture[r] = "running" =>
            /\ ann # {} \/ ending # {}
            /\ sending = r \/ r \in Starting

\* A capture that was not raced ends, whatever the watching device does or
\* loses; a raced one ends when its session does.
Owed(r) ==
    /\ capture[r] = "running"
    /\ r \notin lost
    /\ r \in raced => pump[r] /\ ~Open(from[r])
CapturesEnd == \A r \in Requests : []<>~Owed(r)
=============================================================================
