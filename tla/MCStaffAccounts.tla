-------------------------- MODULE MCStaffAccounts ---------------------------
(* Small instances of StaffAccounts, with the rights of the accounts.  In a  *)
(* behaviour either any two requests overlap (racing) or two requests about  *)
(* one person do not.                                                        *)
EXTENDS StaffAccounts, RolePermissions, TLC

VARIABLE racing

(* Requests about one person do not overlap.                                *)
OneForEach ==
    \A q, r \in Requests :
        /\ request[q] # None /\ request[r] # None
        /\ request[q].user = request[r].user
        => q = r

MCInit == Init /\ racing \in BOOLEAN
MCNext == Next /\ UNCHANGED racing /\ (racing \/ OneForEach')
MCSpec == MCInit /\ [][MCNext]_<<vars, racing>>

(* Bound: where requests overlap, all of them are about one person, for no  *)
(* request touches the row or the sessions of another.                      *)
OneRaced ==
    racing => \E u \in Staff : \A v \in Staff \ {u} :
        /\ account[v].session_version = 1
        /\ \A r \in Requests : request[r] # None => request[r].user # v

Symmetric == Permutations(Staff) \cup Permutations(Sessions) \cup Permutations(Requests)

(* However an account came to its role and status, the permissions of the   *)
(* forms, the capabilities of the services and the page permissions of the  *)
(* editor group let the same person do the same things, and the Owners and  *)
(* everybody else outside Staff too.                                        *)
RightsAgree ==
    /\ \A u \in Staff :
          /\ AgreeAbout(account[u])
          /\ u \in editors <=> HasCapability(account[u], "article.manage")
    /\ \A role \in AnyRole, status \in AnyStatus :
          AgreeAbout([role |-> role, status |-> status, is_active |-> status = "ACTIVE"])

(* While requests about one person come one after another: the editor group *)
(* is right, the rights agree, a change of role or status ends the sessions *)
(* and no later change revives one.                                         *)
GroupUnlessRacing == racing \/ EditorsAreActiveAdmins
RightsUnlessRacing == racing \/ RightsAgree
SessionsEndUnlessRacing == [][racing \/ ChangesEndSessions]_vars
NoRevivalUnlessRacing == [][racing \/ NoSessionRevives]_vars

=============================================================================
