----------------------------- MODULE RelayLink -----------------------------
(***************************************************************************)
(* The connection every device keeps to the relay: the client's retry loop *)
(* (internal/daemon/relay.go) and the server's table of mailboxes          *)
(* (internal/relay/server.go).  A connection is known by the number of the *)
(* dial that made it, so that one which died and the one that replaced it  *)
(* are told apart.  Frames are not stored: the relay drops what it cannot  *)
(* pass on at once, so all a link has to say is whether it carries now.    *)
(***************************************************************************)
EXTENDS Naturals, FiniteSets

CONSTANTS Devices,   \* the devices that use the relay
          MaxDials,  \* bound: connections a device makes
          MaxDrops   \* bound: connections that die under all the devices

ASSUME RelayAssumption == MaxDials \in Nat \ {0} /\ MaxDrops \in Nat

Dials == 1..MaxDials
NoDial == 0

VARIABLES
    dialled,  \* dialled[d]: connections d has made
    attached, \* attached[d]: the one its path conn holds (Conn.relay), or NoDial
    handler,  \* handler[d][g]: the server's goroutine for connection g
    mailbox,  \* mailbox[d]: the connection whose mailbox is in Server.clients
    shut,     \* shut[d]: connections whose mailbox is closed
    resting,  \* the devices whose retry loop is in its wait (relayRetry)
    drops     \* connections that have died

relayVars == <<dialled, attached, handler, mailbox, shut, resting, drops>>

Handlers == {"none", "authenticated", "serving", "gone"}

RelayTypeOK ==
    /\ dialled \in [Devices -> 0..MaxDials]
    /\ attached \in [Devices -> 0..MaxDials]
    /\ handler \in [Devices -> [Dials -> Handlers]]
    /\ mailbox \in [Devices -> 0..MaxDials]
    /\ shut \in [Devices -> SUBSET Dials]
    /\ resting \in SUBSET Devices
    /\ drops \in 0..MaxDrops

\* The session this model starts from came up over the relay.
RelayInit ==
    /\ dialled = [d \in Devices |-> 1]
    /\ attached = [d \in Devices |-> 1]
    /\ handler = [d \in Devices |->
                    [g \in Dials |-> IF g = 1 THEN "serving" ELSE "none"]]
    /\ mailbox = [d \in Devices |-> 1]
    /\ shut = [d \in Devices |-> {}]
    /\ resting = {}
    /\ drops = 0

\* Dial returns once the server has answered the signature; SetRelay attaches
\* the connection.  The server's goroutine has yet to register it.
DialRelay(d) ==
    /\ attached[d] = NoDial
    /\ d \notin resting
    /\ dialled[d] < MaxDials
    /\ LET g == dialled[d] + 1 IN
         /\ dialled' = [dialled EXCEPT ![d] = g]
         /\ attached' = [attached EXCEPT ![d] = g]
         /\ handler' = [handler EXCEPT ![d][g] = "authenticated"]
    /\ UNCHANGED <<mailbox, shut, resting, drops>>

\* Server.register: a device that reconnects replaces itself.
Register(d, g) ==
    /\ handler[d][g] = "authenticated"
    /\ handler' = [handler EXCEPT ![d][g] = "serving"]
    /\ shut' = [shut EXCEPT ![d] = @ \cup ({mailbox[d]} \ {NoDial})]
    /\ mailbox' = [mailbox EXCEPT ![d] = g]
    /\ UNCHANGED <<dialled, attached, resting, drops>>

\* unregister with the comparison of mailboxes left out.
UnregisterSlip(d, g) ==
    /\ handler[d][g] = "serving"
    /\ attached[d] # g \/ g \in shut[d]
    /\ handler' = [handler EXCEPT ![d][g] = "gone"]
    /\ shut' = [shut EXCEPT ![d] = @ \cup {g}]
    /\ mailbox' = [mailbox EXCEPT ![d] = NoDial]
    /\ UNCHANGED <<dialled, attached, resting, drops>>

\* The server's reader fails, because the client is gone or because the pump of
\* a closed mailbox closed the socket: only its own mailbox leaves the table.
Unregister(d, g) ==
    /\ handler[d][g] = "serving"
    /\ attached[d] # g \/ g \in shut[d]
    /\ handler' = [handler EXCEPT ![d][g] = "gone"]
    /\ shut' = [shut EXCEPT ![d] = @ \cup {g}]
    /\ mailbox' = [mailbox EXCEPT ![d] = IF @ = g THEN NoDial ELSE @]
    /\ UNCHANGED <<dialled, attached, resting, drops>>

\* The connection dies under the client; the server has not noticed.
DropRelay(d) ==
    /\ attached[d] # NoDial
    /\ drops < MaxDrops
    /\ attached' = [attached EXCEPT ![d] = NoDial]
    /\ resting' = resting \cup {d}
    /\ drops' = drops + 1
    /\ UNCHANGED <<dialled, handler, mailbox, shut>>

\* The server closed the connection: runRelay ends and detaches it.
RelayEnds(d) ==
    /\ attached[d] \in shut[d]
    /\ attached' = [attached EXCEPT ![d] = NoDial]
    /\ resting' = resting \cup {d}
    /\ UNCHANGED <<dialled, handler, mailbox, shut, drops>>

\* relayRetry has passed.
Rested ==
    /\ resting' = {}
    /\ UNCHANGED <<dialled, attached, handler, mailbox, shut, drops>>

\* deliver forwards from a connection the server reads to the mailbox in the
\* table; the frame arrives when the peer reads that mailbox's connection.
RelayCarries(d, p) ==
    /\ attached[d] # NoDial
    /\ handler[d][attached[d]] = "serving"
    /\ mailbox[p] # NoDial
    /\ mailbox[p] = attached[p]
    /\ mailbox[p] \notin shut[p]

\* What the retry loop and the server's goroutines do of themselves.
RelayRecovers ==
    \E d \in Devices :
        \/ DialRelay(d)
        \/ RelayEnds(d)
        \/ \E g \in Dials : Register(d, g) \/ Unregister(d, g)

RelayNext == RelayRecovers \/ \E d \in Devices : DropRelay(d)
=============================================================================
