------------------------------ MODULE FileDelivery ------------------------------
(****************************************************************************)
(* What the files capability promises a sender, with no streams, chunks,    *)
(* bitmaps or part files: a transfer is delivered in one step, is never     *)
(* undelivered, and Send returns nil only for a delivered one.  Send may    *)
(* also fail, and a failed transfer may be tried again under the same id.   *)
(* FileTransfer implements this.                                            *)
(*                                                                          *)
(* Nothing is promised of a voided id: one the receiver took up again with  *)
(* a resume record that its disk did not back.                              *)
(****************************************************************************)
CONSTANT Ids
VARIABLES
    delivered,   \* the ids whose files are all in place at the receiver
    voided,      \* the ids the promise has been broken for
    result       \* id -> what Send returned

TypeOK ==
    /\ delivered \in SUBSET Ids /\ voided \in SUBSET Ids
    /\ result \in [Ids -> {"pending", "ok", "error"}]

Init == delivered = {} /\ voided = {} /\ result \in [Ids -> {"pending"}]

Deliver(t) ==
    t \notin delivered /\ delivered' = delivered \cup {t} /\ UNCHANGED <<voided, result>>

Succeed(t) ==
    /\ result[t] = "pending"
    /\ t \in delivered \cup voided
    /\ result' = [result EXCEPT ![t] = "ok"]
    /\ UNCHANGED <<delivered, voided>>

Fail(t) ==
    /\ result[t] = "pending"
    /\ result' = [result EXCEPT ![t] = "error"]
    /\ UNCHANGED <<delivered, voided>>

Retry(t) ==
    /\ result[t] = "error"
    /\ result' = [result EXCEPT ![t] = "pending"]
    /\ UNCHANGED <<delivered, voided>>

Void(t) == voided' = voided \cup {t} /\ UNCHANGED <<delivered, result>>

\* Its files are replaced by what is not whole.
Spoil(t) == t \in voided /\ delivered' = delivered \ {t} /\ UNCHANGED <<voided, result>>

Next == \E t \in Ids :
    Deliver(t) \/ Succeed(t) \/ Fail(t) \/ Retry(t) \/ Void(t) \/ Spoil(t)

Spec == Init /\ [][Next]_<<delivered, voided, result>>
================================================================================
