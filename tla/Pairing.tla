-------------------------------- MODULE Pairing --------------------------------
(****************************************************************************)
(* Two devices pair: internal/pairing, with the trust-store records it      *)
(* writes, and the sessions of internal/daemon it runs over.  One device    *)
(* shows a code and awaits; the other scans it, dials and initiates.  Each  *)
(* user compares the digits, each device tells the other the answer, and    *)
(* both pin the other's keys at Trusted.                                    *)
(*                                                                          *)
(* Meanwhile each device's user promotes, demotes or unpairs the other, and *)
(* a device that connects has its record read and written back (touch).     *)
(* Both devices hold a privilege key and present the keys they announce, so *)
(* a record is its trust level.                                             *)
(****************************************************************************)
EXTENDS Integers, Sequences, FiniteSets

CONSTANTS
    Shower,         \* the device that shows the code
    Scanner,        \* the device that scans it
    Daemons,        \* those that pair in the daemon, and not in a command or the app
    InitialLevels,  \* what both may hold of each other at first
    MaxSessions, MaxDecisions   \* bounds

Devices == {Shower, Scanner}

ASSUME TwoDevices == Shower # Scanner
ASSUME DaemonsAreDevices == Daemons \subseteq Devices
ASSUME InitialLevelsAreLevels == InitialLevels \subseteq {"absent", "trusted", "owned"}
ASSUME PairingBounds == MaxSessions \in Nat /\ MaxDecisions \in Nat

VARIABLES
    store,      \* device -> its record of the other
    pc,         \* device -> where its pairing is
    cur,        \* device -> the session it pairs over, or 0
    known,      \* the sessions registered when the code was shown
    end,        \* device -> session -> its end of it
    copy,       \* device -> session -> the record Authorize read and will write back
    registry,   \* device -> the session the daemon holds for the peer, or 0
    wire,       \* device -> session -> what is on its way to it
    inbox,      \* device -> session -> the exchange's messages
    trust,      \* device -> the level onTrust is about to write
    decisions,  \* how many the users have taken
    agreed,     \* history: device -> the sessions whose digits its user confirmed
    pinned,     \* history: device -> the sessions it recorded the peer in
    excused,    \* history: sessions lost or closed under the exchange, expired, late
                \* beyond the linger, or not recorded by a full disk
    wish,       \* history: device -> the level last decided
    overlapped  \* history: devices where a decision met a record being written back

exchange == <<pc, cur, known, agreed, pinned>>
sessions == <<end, registry, wire, inbox>>
records  == <<store, copy, trust, decisions, wish, overlapped>>
vars     == <<exchange, sessions, records, excused>>

Sessions == 1..MaxSessions
Levels   == {"absent", "trusted", "owned"}
Messages == {"req", "resp", "yes", "no"}
Waiting  == {"offering", "waitReq", "waitResp", "waitConf"}
Lingering == {"declining", "accepting"}

Peer(d) == IF d = Shower THEN Scanner ELSE Shower

TypeOK ==
    /\ store \in [Devices -> Levels]
    /\ pc \in [Devices -> {"idle", "confirm"} \cup Waiting \cup Lingering]
    /\ cur \in [Devices -> 0..MaxSessions]
    /\ known \in SUBSET Sessions
    /\ end \in [Devices -> [Sessions -> {"none", "hello", "open", "closed"}]]
    /\ copy \in [Devices -> [Sessions -> Levels]]
    /\ registry \in [Devices -> 0..MaxSessions]
    /\ wire \in [Devices -> [Sessions -> Seq(Messages \cup {"close"})]]
    /\ inbox \in [Devices -> [Sessions -> SUBSET Messages]]
    /\ trust \in [Devices -> Levels]
    /\ decisions \in 0..MaxDecisions
    /\ agreed \in [Devices -> SUBSET Sessions]
    /\ pinned \in [Devices -> SUBSET Sessions]
    /\ excused \in SUBSET Sessions
    /\ wish \in [Devices -> Levels]
    /\ overlapped \in SUBSET Devices

All(v) == [d \in Devices |-> v]
PerSession(v) == All([s \in Sessions |-> v])

Init ==
    /\ \E l \in InitialLevels : store = All(l) /\ wish = All(l)
    /\ pc = All("idle")
    /\ cur = All(0)
    /\ known = {}
    /\ end = PerSession("none")
    /\ copy = PerSession("absent")
    /\ registry = All(0)
    /\ wire = PerSession(<<>>)
    /\ inbox = PerSession({})
    /\ trust = All("absent")
    /\ decisions = 0
    /\ agreed = All({})
    /\ pinned = All({})
    /\ excused = {}
    /\ overlapped = {}

----------------------------------------------------------------------------
(* Sessions.                                                                *)

Tell(w, d, s, m) == [w EXCEPT ![d][s] = Append(@, m)]

\* A close overtakes what is still on its way.
Cut(w, d, s) == [w EXCEPT ![d][s] = <<"close">>]

Exchanging(s) == \E d \in Devices : cur[d] = s

\* The pairing window is open while a pairing runs (OpenWindow, deferred).
WindowOpen(d) == pc[d] # "idle"

Unused(s) == end[Scanner][s] = "none" /\ \A t \in 1..s-1 : end[Scanner][t] # "none"

\* The acceptor's Hello ends in Authorize, which reads the record.  A peer
\* without one needs the window; a refused one is told by the close.
Admitted == store[Shower] # "absent" \/ WindowOpen(Shower)
Acceptor == IF Admitted THEN "hello" ELSE "closed"

\* sessionTo: no session is registered, so dial; this end authorises too.
Connect(s) ==
    /\ Unused(s) /\ registry[Scanner] = 0 /\ store[Scanner] # "absent"
    /\ end' = [end EXCEPT ![Scanner][s] = "hello", ![Shower][s] = Acceptor]
    /\ copy' = [copy EXCEPT ![Scanner][s] = store[Scanner], ![Shower][s] = store[Shower]]
    /\ wire' = IF Admitted THEN wire ELSE Cut(wire, Scanner, s)
    /\ UNCHANGED <<exchange, registry, inbox, store, trust, decisions, wish, overlapped,
                   excused>>

\* register: the session before this one is superseded.
Register(d, s) ==
    LET prev == registry[d]
    IN  /\ registry' = [registry EXCEPT ![d] = s]
        /\ IF prev \notin {0, s} /\ end[d][prev] = "open"
           THEN /\ end' = [end EXCEPT ![d][prev] = "closed", ![d][s] = "open"]
                /\ wire' = [Cut(wire, Peer(d), prev) EXCEPT ![d][prev] = <<>>]
                /\ excused' = excused \cup {prev}
           ELSE end' = [end EXCEPT ![d][s] = "open"] /\ UNCHANGED <<wire, excused>>

\* Slip: the peer is recorded as it introduced itself, at Trusted.
TouchSlip(d, s) ==
    /\ end[d][s] = "hello"
    /\ store' = IF copy[d][s] # "absent" THEN [store EXCEPT ![d] = "trusted"] ELSE store
    /\ copy' = [copy EXCEPT ![d][s] = "absent"]
    /\ Register(d, s)
    /\ UNCHANGED <<exchange, inbox, trust, decisions, wish, overlapped>>

\* touch writes back the record Authorize read, or fails to, and the session is
\* registered.
Touch(d, s) ==
    /\ end[d][s] = "hello"
    /\ \/ copy[d][s] # "absent" /\ store' = [store EXCEPT ![d] = copy[d][s]]
       \/ UNCHANGED store
    /\ copy' = [copy EXCEPT ![d][s] = "absent"]
    /\ Register(d, s)
    /\ UNCHANGED <<exchange, inbox, trust, decisions, wish, overlapped>>

\* Serve, deliver: a message finds its slot empty or is dropped.
Slot(m) == IF m \in {"yes", "no"} THEN {"yes", "no"} ELSE {m}
Deliver(d, s) ==
    /\ end[d][s] = "open" /\ wire[d][s] # <<>>
    /\ LET m == Head(wire[d][s])
       IN  IF m = "close"
           THEN end' = [end EXCEPT ![d][s] = "closed"] /\ UNCHANGED inbox
           ELSE /\ inbox' = [inbox EXCEPT ![d][s] =
                               IF @ \cap Slot(m) = {} THEN @ \cup {m} ELSE @]
                /\ UNCHANGED end
    /\ wire' = [wire EXCEPT ![d][s] = Tail(@)]
    /\ UNCHANGED <<exchange, registry, records, excused>>

\* The network loses the session; the other end finds out for itself.
Lose(d, s) ==
    /\ end[d][s] = "open"
    /\ end' = [end EXCEPT ![d][s] = "closed"]
    /\ wire' = [wire EXCEPT ![d][s] = <<>>, ![Peer(d)][s] = <<>>]
    /\ excused' = excused \cup {s}
    /\ UNCHANGED <<exchange, registry, inbox, records>>

\* The watcher of a registered session that ended.
Watch(d) ==
    /\ registry[d] # 0 /\ end[d][registry[d]] = "closed"
    /\ registry' = [registry EXCEPT ![d] = 0]
    /\ UNCHANGED <<exchange, end, wire, inbox, records, excused>>

----------------------------------------------------------------------------
(* The exchange.                                                            *)

\* pairAwait: the window opens and the code is shown.
Show ==
    /\ pc[Shower] = "idle"
    /\ pc' = [pc EXCEPT ![Shower] = "offering"]
    /\ known' = {registry[Shower]} \ {0}
    /\ UNCHANGED <<cur, agreed, pinned, sessions, records, excused>>

\* awaitPairingSession: any session that was not there before will do.
Pick ==
    /\ pc[Shower] = "offering" /\ registry[Shower] \notin {0} \cup known
    /\ pc' = [pc EXCEPT ![Shower] = "waitReq"]
    /\ cur' = [cur EXCEPT ![Shower] = registry[Shower]]
    /\ UNCHANGED <<known, agreed, pinned, sessions, records, excused>>

\* pairInitiate: the window opens, the scanner dials and sends its request.
Scan(s) ==
    /\ pc[Scanner] = "idle" /\ Unused(s)
    /\ pc' = [pc EXCEPT ![Scanner] = "waitResp"]
    /\ cur' = [cur EXCEPT ![Scanner] = s]
    /\ end' = [end EXCEPT ![Scanner][s] = "open", ![Shower][s] = Acceptor]
    /\ copy' = [copy EXCEPT ![Shower][s] = store[Shower]]
    /\ wire' = IF Admitted THEN Tell(wire, Shower, s, "req") ELSE Cut(wire, Scanner, s)
    /\ UNCHANGED <<known, agreed, pinned, registry, inbox, store, trust, decisions, wish,
                   overlapped, excused>>

Goto(d, at) == pc' = [pc EXCEPT ![d] = at] /\ UNCHANGED cur
Send(d, m) == wire' = Tell(wire, Peer(d), cur[d], m) /\ UNCHANGED end
Open(d) == end[d][cur[d]] = "open"

CloseEnd(d, s) ==
    IF end[d][s] = "open"
    THEN /\ end' = [end EXCEPT ![d][s] = "closed"]
         /\ wire' = [Cut(wire, Peer(d), s) EXCEPT ![d][s] = <<>>]
    ELSE UNCHANGED <<end, wire>>

\* The pairing is over: pairInitiate closes the session when it failed, the
\* command and the app always do.
Leave(d) == pc' = [pc EXCEPT ![d] = "idle"] /\ cur' = [cur EXCEPT ![d] = 0]
Fail(d) ==
    /\ Leave(d)
    /\ IF cur[d] # 0 /\ (d = Scanner \/ d \notin Daemons)
       THEN CloseEnd(d, cur[d]) ELSE UNCHANGED <<end, wire>>
    /\ UNCHANGED registry

\* Await: the request is answered.
TakeRequest ==
    /\ pc[Shower] = "waitReq" /\ "req" \in inbox[Shower][cur[Shower]]
    /\ IF Open(Shower)
       THEN Goto(Shower, "confirm") /\ Send(Shower, "resp") /\ UNCHANGED registry
       ELSE Fail(Shower)
    /\ UNCHANGED <<known, agreed, pinned, inbox, records, excused>>

\* Initiate: the response arrived.
TakeResponse ==
    /\ pc[Scanner] = "waitResp" /\ "resp" \in inbox[Scanner][cur[Scanner]]
    /\ Goto(Scanner, "confirm")
    /\ UNCHANGED <<known, agreed, pinned, sessions, records, excused>>

\* settle: the digits match, and the peer is told; or it cannot be.
Accept(d) ==
    /\ pc[d] = "confirm"
    /\ agreed' = [agreed EXCEPT ![d] = @ \cup {cur[d]}]
    /\ IF Open(d) THEN Goto(d, "waitConf") /\ Send(d, "yes") /\ UNCHANGED registry
                  ELSE Fail(d)
    /\ UNCHANGED <<known, pinned, inbox, records, excused>>

\* settle: they do not, or nobody is there to look.
Decline(d) ==
    /\ pc[d] = "confirm"
    /\ Goto(d, "declining")
    /\ IF Open(d) THEN Send(d, "no") ELSE UNCHANGED <<end, wire>>
    /\ UNCHANGED <<known, agreed, pinned, registry, inbox, records, excused>>

\* The exchange's two minutes passed while the user looked, and nothing can be
\* sent any more.  The daemon's ask gives up by itself; the Confirm of a command or
\* the app ignores its context and waits for the user, who says no too late, ...
Overlook(d) ==
    /\ pc[d] = "confirm"
    /\ Goto(d, "declining")
    /\ excused' = excused \cup {cur[d]}
    /\ UNCHANGED <<known, agreed, pinned, sessions, records>>

\* ... or yes: the confirmation is not sent, and settle fails without a linger.
AcceptLate(d) ==
    /\ pc[d] = "confirm"
    /\ agreed' = [agreed EXCEPT ![d] = @ \cup {cur[d]}]
    /\ excused' = excused \cup {cur[d]}
    /\ Fail(d)
    /\ UNCHANGED <<known, pinned, inbox, records>>

\* notifyLinger is over; it may have been too short for what was sent.
LingerEnds(d, more) ==
    LET s == cur[d]
    IN  excused' = excused \cup more \cup (IF wire[Peer(d)][s] # <<>> THEN {s} ELSE {})

GiveUp(d) ==
    /\ pc[d] = "declining"
    /\ LingerEnds(d, {})
    /\ Fail(d)
    /\ UNCHANGED <<known, agreed, pinned, inbox, records>>

\* Slip: any answer is taken for a yes.
AnyConfirmSlip(d) ==
    /\ pc[d] = "waitConf" /\ inbox[d][cur[d]] \cap {"yes", "no"} # {}
    /\ Goto(d, "accepting")
    /\ UNCHANGED <<known, agreed, pinned, end, wire, registry, inbox, records, excused>>

\* settle: what the peer answered.
TakeConfirm(d) ==
    /\ pc[d] = "waitConf"
    /\ LET got == inbox[d][cur[d]]
       IN  \/ "yes" \in got /\ Goto(d, "accepting") /\ UNCHANGED <<end, wire, registry>>
           \/ "no" \in got /\ Fail(d)
    /\ UNCHANGED <<known, agreed, pinned, inbox, records, excused>>

\* A decision about the peer, while a record is on its way back or not.
Decide(d, l) ==
    /\ store' = [store EXCEPT ![d] = l]
    /\ wish' = [wish EXCEPT ![d] = l]
    /\ overlapped' = IF \E s \in Sessions : copy[d][s] # "absent"
                     THEN overlapped \cup {d} ELSE overlapped

\* Slip: an accepted exchange does not linger (before D-86).
PinAtOnceSlip(d) ==
    /\ pc[d] = "accepting"
    /\ Decide(d, "trusted")
    /\ pinned' = [pinned EXCEPT ![d] = @ \cup {cur[d]}]
    /\ Leave(d)
    /\ IF d \notin Daemons THEN CloseEnd(d, cur[d]) ELSE UNCHANGED <<end, wire>>
    /\ UNCHANGED <<known, agreed, inbox, copy, trust, decisions, registry, excused>>

\* settle: both accepted, and the peer is recorded at Trusted.
Pin(d) ==
    /\ pc[d] = "accepting"
    /\ Decide(d, "trusted")
    /\ pinned' = [pinned EXCEPT ![d] = @ \cup {cur[d]}]
    /\ Leave(d)
    /\ UNCHANGED <<known, agreed, inbox, copy, trust, decisions>>
    /\ IF d \notin Daemons
       THEN CloseEnd(d, cur[d]) /\ LingerEnds(d, {}) /\ UNCHANGED registry
       ELSE IF d = Scanner /\ Open(d)
       THEN Register(d, cur[d])
       ELSE UNCHANGED <<end, wire, registry, excused>>

\* settle: the record could not be written.
PinFails(d) ==
    /\ pc[d] = "accepting"
    /\ LingerEnds(d, {cur[d]})
    /\ Fail(d)
    /\ UNCHANGED <<known, agreed, pinned, inbox, records>>

\* The timeout races the peer, or an answer on its way or not yet read.
Racing(d) ==
    LET s == cur[d]
    IN  \/ cur[Peer(d)] = s
        \/ \E k \in DOMAIN wire[d][s] : wire[d][s][k] \in Messages
        \/ "yes" \in inbox[d][s]
Excuse(d) ==
    excused' = IF cur[d] # 0 /\ Racing(d) THEN excused \cup {cur[d]} ELSE excused

\* Slip: the wait for the peer's answer has no timeout.
ExpireSlip(d) ==
    /\ pc[d] \in Waiting \ {"waitConf"}
    /\ Excuse(d)
    /\ Fail(d)
    /\ UNCHANGED <<known, agreed, pinned, inbox, records>>

\* The wait's context ends: two minutes passed, or the user stopped waiting.
Expire(d) ==
    /\ pc[d] \in Waiting
    /\ Excuse(d)
    /\ Fail(d)
    /\ UNCHANGED <<known, agreed, pinned, inbox, records>>

----------------------------------------------------------------------------
(* What the users decide meanwhile.                                         *)

\* onTrust reads the record, ...
ReadTrust(d, l) ==
    /\ decisions < MaxDecisions /\ trust[d] = "absent" /\ store[d] # "absent"
    /\ trust' = [trust EXCEPT ![d] = l]
    /\ decisions' = decisions + 1
    /\ UNCHANGED <<exchange, sessions, store, copy, wish, overlapped, excused>>

\* ... and writes it at the level asked for.
WriteTrust(d) ==
    /\ trust[d] # "absent"
    /\ Decide(d, trust[d])
    /\ trust' = [trust EXCEPT ![d] = "absent"]
    /\ UNCHANGED <<exchange, sessions, copy, decisions, excused>>

\* The app's Unpair.
Unpair(d) ==
    /\ decisions < MaxDecisions /\ store[d] # "absent"
    /\ Decide(d, "absent")
    /\ decisions' = decisions + 1
    /\ UNCHANGED <<exchange, sessions, copy, trust, excused>>

Next ==
    \/ Show \/ Pick \/ TakeRequest \/ TakeResponse
    \/ \E s \in Sessions : Connect(s) \/ Scan(s)
    \/ \E d \in Devices :
         \/ Accept(d) \/ Decline(d) \/ Overlook(d) \/ AcceptLate(d) \/ GiveUp(d)
         \/ TakeConfirm(d) \/ Pin(d) \/ PinFails(d) \/ Expire(d)
         \/ Watch(d) \/ WriteTrust(d) \/ Unpair(d)
         \/ \E l \in {"trusted", "owned"} : ReadTrust(d, l)
         \/ \E s \in Sessions : Touch(d, s) \/ Deliver(d, s) \/ Lose(d, s)

Spec == Init /\ [][Next]_vars

\* Where a timeout runs: in every wait for the peer, but for the first session and
\* for the user's answer only in the daemon.  A command or the app waits in
\* ln.Accept and in Confirm until somebody comes.
Timed(d) == d \in Daemons \/ pc[d] \notin {"offering", "confirm"}

\* The timeout, where there is one, and the linger pass.
Timers(d) ==
    \/ Timed(d) /\ (Expire(d) \/ Overlook(d))
    \/ GiveUp(d) \/ Pin(d) \/ PinFails(d)
FairSpec == Spec /\ \A d \in Devices : WF_vars(Timers(d))

----------------------------------------------------------------------------
(* Properties.                                                              *)

\* Section 5.2: pairing completes only when both users accepted.
Consent == INSTANCE MutualConsent WITH Exchanges <- Sessions
ImplementsMutualConsent == Consent!Spec

\* An exchange that is over ended the same way for both, unless it was lost,
\* timed out, met a full disk, or a message took longer than the linger (D-86).
EndsAlike ==
    \A s \in Sessions \ excused :
        (\A d \in Devices : cur[d] # s)
            => (s \in pinned[Shower] <=> s \in pinned[Scanner])

\* What a user decided about the peer stays decided; only a record that a
\* connecting session read before the decision, and writes back after it, can
\* undo it.
UndoneByOverlapOnly == \A d \in Devices : store[d] = wish[d] \/ d \in overlapped

\* The pairing window, open while the exchange runs, shuts again, whatever the
\* peer and its user do; a command or the app that waits for its own user, or for
\* the first session, may keep it open (finding 30).
DoorShuts == \A d \in Devices : []<>(~WindowOpen(d) \/ ~Timed(d))
================================================================================
