----------------------------- MODULE MutualConsent -----------------------------
(****************************************************************************)
(* What pairing promises (docs/PROTOCOL.md section 5.2): a device pins the  *)
(* other's keys only in an exchange both users agreed to.                   *)
(****************************************************************************)
CONSTANTS Devices, Exchanges
VARIABLES agreed,   \* device -> the exchanges its user agreed to
          pinned    \* device -> the exchanges it pinned the peer in
vars == <<agreed, pinned>>

Init == agreed = [d \in Devices |-> {}] /\ pinned = [d \in Devices |-> {}]

Agree(d, x) ==
    /\ agreed' = [agreed EXCEPT ![d] = @ \cup {x}]
    /\ UNCHANGED pinned

Pin(d, x) ==
    /\ \A e \in Devices : x \in agreed[e]
    /\ pinned' = [pinned EXCEPT ![d] = @ \cup {x}]
    /\ UNCHANGED agreed

Next == \E d \in Devices, x \in Exchanges : Agree(d, x) \/ Pin(d, x)

Spec == Init /\ [][Next]_vars
================================================================================
