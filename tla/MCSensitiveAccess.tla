------------------------- MODULE MCSensitiveAccess --------------------------
(* Small instances of SensitiveAccess.  In a behaviour either any two        *)
(* requests overlap (racing) or two approvals for one access do not.        *)
EXTENDS SensitiveAccess, TLC

VARIABLE racing

(* Two approvals for one person and subject do not overlap.                 *)
SameAccess(q, r) ==
    request[q].requester = request[r].requester /\ request[q].subject = request[r].subject
ApprovalsApart ==
    \A v, w \in Workers :
        Approving(v) /\ Approving(w) /\ SameAccess(job[v].request, job[w].request) => v = w

MCInit == Init /\ racing \in BOOLEAN
MCNext == Next /\ UNCHANGED racing /\ (racing \/ ApprovalsApart')
MCSpec == MCInit /\ [][MCNext]_<<vars, racing>>

Symmetric == Permutations(AccessRequests) \cup Permutations(Grants) \cup Permutations(Workers)

(* A new approval replaces the access of before, unless two approvals for   *)
(* one person and subject have overlapped; revocations, expiries, denials   *)
(* and the approvals for others may race it.                                *)
SerialOneLiveGrant == racing \/ OneLiveGrant

(* Revoking a grant ends the access to its subject, unless two approvals    *)
(* for one person and subject have overlapped.                              *)
SerialRevocationEndsAccess ==
    [][racing \/ \A g \in Grants :
          /\ Live(g)
          /\ grant'[g].revoked_at
          /\ \A h \in Grants : grant[h] = None => grant'[h] = None
          => \A h \in GrantsFor(grant[g].grantee, grant[g].subject) :
                h # g => ~Live(h)]_vars
=============================================================================
