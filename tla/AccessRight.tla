----------------------------- MODULE AccessRight -----------------------------
(***************************************************************************)
(* What apps/access_requests promises about one request for sensitive       *)
(* access: it waits for the Owner's one decision, and if it is approved it  *)
(* gives its right once, for one stretch of time, and never again.          *)
(***************************************************************************)
CONSTANT AccessRequests

VARIABLE phase

Phases == {"absent", "pending", "denied", "granted", "over"}

Init == phase = [r \in AccessRequests |-> "absent"]

(* A right that is granted ends: revoked, replaced or expired.              *)
Ends(r) == phase[r] = "granted" /\ phase'[r] = "over"

Stays(r) == phase'[r] = phase[r]

(* The request is made, or decided.  A right may be over as it is granted,   *)
(* when the transaction that grants it outlasts it.                         *)
Moves(r) ==
    \/ phase[r] = "absent" /\ phase'[r] = "pending"
    \/ phase[r] = "pending" /\ phase'[r] \in {"denied", "granted", "over"}

(* One request moves on at a time; any number of rights may end with it.    *)
Next ==
    /\ phase' \in [AccessRequests -> Phases]
    /\ \/ \A q \in AccessRequests : Ends(q) \/ Stays(q)
       \/ \E r \in AccessRequests :
             /\ Moves(r)
             /\ \A q \in AccessRequests \ {r} : Ends(q) \/ Stays(q)

Spec == Init /\ [][Next]_phase

=============================================================================
