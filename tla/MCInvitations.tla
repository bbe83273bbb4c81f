--------------------------- MODULE MCInvitations ----------------------------
(* Small instances of Invitations.  A behaviour either has requests that     *)
(* overlap (racing) or one request after another.                           *)
EXTENDS Invitations, TLC

VARIABLE racing

OneBusy == \A r, q \in Requests : InProgress(r) /\ InProgress(q) => r = q
MCInit == Init /\ racing \in BOOLEAN

(* The tokens are random and alike: they are taken in one order.  So are    *)
(* the addresses: the first to be invited is always the same.  That a       *)
(* closed invitation expires makes no difference to anything.               *)
Reduced ==
    \A i \in Tokens : invitation'[i] # invitation[i] =>
        IF i \in Created THEN IsOpen(i) \/ invitation'[i].expired = invitation[i].expired
        ELSE /\ i = CHOOSE j \in Tokens : invitation[j] = None
             /\ Created # {} \/ invitation'[i].email = CHOOSE e \in Emails : TRUE

MCNext == Next /\ UNCHANGED racing /\ (racing \/ OneBusy') /\ Reduced
MCSpec == MCInit /\ [][MCNext]_<<vars, racing>> /\ Fairness

(* What only one request after another keeps.                               *)
SerialAcceptedIsNeverRevoked == racing \/ AcceptedIsNeverRevoked
SerialOneWayIn == racing \/ OneWayIn
=============================================================================
