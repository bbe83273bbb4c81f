--------------------------- MODULE SensitiveAccess ---------------------------
(***************************************************************************)
(* Temporary access to customers' phone numbers and exact locations, of     *)
(* apps/access_requests: an active Admin asks, the Owner approves or denies, *)
(* an approval grants access until it expires or is revoked.                *)
(*                                                                         *)
(* Asking and looking are one statement each after the check, and one step. *)
(* review_sensitive_access locks the access request, revokes the grants its *)
(* UPDATE can see and then inserts its own; revoke_sensitive_access writes  *)
(* on what the view has read: another transaction may commit in between.    *)
(* At READ COMMITTED an UPDATE fixes the rows it looks at when it begins,   *)
(* locks them one by one as their other writers end, and looks again only   *)
(* whether those rows still qualify.                                        *)
(*                                                                         *)
(* A subject stands for a scope with its location: the phone numbers        *)
(* (PHONE_NUMBER, no location) or one Location (EXACT_LOCATION).            *)
(***************************************************************************)
EXTENDS Naturals

CONSTANTS
    Admins,          \* the staff who are not the Owner; Owner's row never changes
    PhoneNumbers,    \* the subject of the scope PHONE_NUMBER
    Locations,       \* the subjects of the scope EXACT_LOCATION
    AccessRequests,
    Grants,
    Durations,       \* requested_minutes, in ticks of the clock
    MaxTime,         \* bound: where the clock stops
    Workers,         \* the requests that can be in progress at the same time
    None

Subjects == {PhoneNumbers} \cup Locations

ASSUME TimeAssumption == Durations \subseteq Nat \ {0} /\ MaxTime \in Nat

VARIABLES
    now,
    active,          \* the Admins whose account is ACTIVE with the role ADMIN
    request,         \* the SensitiveAccessRequest rows
    grant,           \* the SensitiveAccessGrant rows
    job,             \* what each worker is doing, with the copies it has read
    unrecorded       \* the subjects that were shown without an AuditEvent

vars == <<now, active, request, grant, job, unrecorded>>
tables == <<now, active, request, grant, unrecorded>>

Status == {"PENDING", "APPROVED", "DENIED", "CANCELLED"}
Request ==
    [requester: Admins, subject: Subjects, requested_minutes: Durations, status: Status]
Grant ==
    [grantee: Admins, subject: Subjects, source_request: AccessRequests,
     expires_at: Nat, revoked_at: BOOLEAN]

(* A review, with the time it began at, the grants its UPDATE has yet to    *)
(* come to and those it has locked; a revocation, with the grant's          *)
(* revoked_at as the view read it.                                          *)
Review == [op: {"approve", "deny"}, step: {"read", "update"}, request: AccessRequests,
           now: Nat, seen: SUBSET Grants, locks: SUBSET Grants]
Revocation == [op: {"revoke"}, grant: Grants, revoked_at: BOOLEAN, locks: {{}}]

ASSUME NoneAssumption == None \notin Request \cup Grant \cup Review \cup Revocation

Init ==
    /\ now = 0
    /\ active = Admins
    /\ request = [r \in AccessRequests |-> None]
    /\ grant = [g \in Grants |-> None]
    /\ job = [w \in Workers |-> None]
    /\ unrecorded = {}

Doing(w, ops) == job[w] # None /\ job[w].op \in ops
Locked(g) == \E w \in Workers : job[w] # None /\ g \in job[w].locks
Approving(w) == Doing(w, {"approve"})
At(w, step) == Approving(w) /\ job[w].step = step
UnderReview(r) == \E w \in Workers : Doing(w, {"approve", "deny"}) /\ job[w].request = r

Issued == {g \in Grants : grant[g] # None}
Live(g) == grant[g] # None /\ ~grant[g].revoked_at /\ grant[g].expires_at > now

(* The grants of the same person and subject as request r.                  *)
GrantsFor(a, s) == {g \in Issued : grant[g].grantee = a /\ grant[g].subject = s}

(* The grants review_sensitive_access revokes before it makes a new one.    *)
Replaced(r) ==
    {g \in GrantsFor(request[r].requester, request[r].subject) : ~grant[g].revoked_at}

(* user_has_sensitive_access of an Admin; the Owner's capability needs no   *)
(* grant.                                                                   *)
HasSensitiveAccess(a, s) == a \in active /\ \E g \in GrantsFor(a, s) : Live(g)

-----------------------------------------------------------------------------
Begin(w, j) ==
    /\ job[w] = None
    /\ job' = [job EXCEPT ![w] = j]
    /\ UNCHANGED tables

Finish(w) == job' = [job EXCEPT ![w] = None]

(* request_sensitive_access *)
Ask(a, r, s, minutes) ==
    /\ a \in active
    /\ request[r] = None
    /\ request' = [request EXCEPT
           ![r] = [requester |-> a, subject |-> s, requested_minutes |-> minutes,
                   status |-> "PENDING"]]
    /\ UNCHANGED <<now, active, grant, job, unrecorded>>

(* Mutant of StartReview: the row is read without select_for_update.        *)
StartReviewUnlocked(w, r, op) ==
    /\ request[r] # None
    /\ request[r].status = "PENDING"
    /\ Begin(w, [op |-> op, step |-> "read", request |-> r, now |-> now,
                 seen |-> {}, locks |-> {}])

(* review_sensitive_access: the request is locked and still PENDING.        *)
StartReview(w, r, op) ==
    /\ request[r] # None
    /\ ~UnderReview(r)
    /\ request[r].status = "PENDING"
    /\ Begin(w, [op |-> op, step |-> "read", request |-> r, now |-> now,
                 seen |-> {}, locks |-> {}])

(* The UPDATE of the grants to replace begins.                              *)
SeeGrants(w) ==
    /\ At(w, "read")
    /\ job' = [job EXCEPT ![w].step = "update", ![w].seen = Replaced(job[w].request)]
    /\ UNCHANGED tables

(* It comes to g, once nobody else has g locked.                            *)
LockGrant(w, g) ==
    /\ At(w, "update")
    /\ g \in job[w].seen
    /\ ~Locked(g)
    /\ job' = [job EXCEPT ![w].seen = @ \ {g},
                          ![w].locks = @ \cup ({g} \cap Replaced(job[w].request))]
    /\ UNCHANGED tables

Decided(w, status) == [request EXCEPT ![job[w].request].status = status]

(* The grant an approval inserts.                                           *)
NewGrant(w) ==
    LET r == job[w].request
    IN [grantee |-> request[r].requester, subject |-> request[r].subject,
        source_request |-> r, expires_at |-> job[w].now + request[r].requested_minutes,
        revoked_at |-> FALSE]

(* Mutants of Approve: the grants of before stay; the time starts to count  *)
(* when the grant is first used.                                            *)
ApproveBeside(w, g) ==
    /\ At(w, "update")
    /\ job[w].seen = {}
    /\ grant[g] = None
    /\ request' = Decided(w, "APPROVED")
    /\ grant' = [grant EXCEPT ![g] = NewGrant(w)]
    /\ Finish(w)
    /\ UNCHANGED <<now, active, unrecorded>>
ApproveForLonger(w, g) ==
    /\ At(w, "update")
    /\ job[w].seen = {}
    /\ grant[g] = None
    /\ request' = Decided(w, "APPROVED")
    /\ grant' = [h \in Grants |->
                    IF h = g THEN [NewGrant(w) EXCEPT !.expires_at = @ + 1]
                    ELSE IF h \in job[w].locks THEN [grant[h] EXCEPT !.revoked_at = TRUE]
                    ELSE grant[h]]
    /\ Finish(w)
    /\ UNCHANGED <<now, active, unrecorded>>

Approve(w, g) ==
    /\ At(w, "update")
    /\ job[w].seen = {}
    /\ grant[g] = None
    /\ request' = Decided(w, "APPROVED")
    /\ grant' = [h \in Grants |->
                    IF h = g THEN NewGrant(w)
                    ELSE IF h \in job[w].locks THEN [grant[h] EXCEPT !.revoked_at = TRUE]
                    ELSE grant[h]]
    /\ Finish(w)
    /\ UNCHANGED <<now, active, unrecorded>>

(* Mutant of Deny: a status that is none of the choices.                    *)
DenyAsRejected(w) ==
    /\ Doing(w, {"deny"})
    /\ request' = Decided(w, "REJECTED")
    /\ Finish(w)
    /\ UNCHANGED <<now, active, grant, unrecorded>>

Deny(w) ==
    /\ Doing(w, {"deny"})
    /\ request' = Decided(w, "DENIED")
    /\ Finish(w)
    /\ UNCHANGED <<now, active, grant, unrecorded>>

(* revoke_access_grant reads the grant.                                     *)
StartRevoke(w, g) ==
    /\ grant[g] # None
    /\ Begin(w, [op |-> "revoke", grant |-> g, revoked_at |-> grant[g].revoked_at,
                 locks |-> {}])

(* Mutant of Revoke: the columns are toggled, not set.                      *)
RevokeToggles(w) ==
    /\ Doing(w, {"revoke"})
    /\ IF job[w].revoked_at THEN UNCHANGED grant
       ELSE /\ ~Locked(job[w].grant)
            /\ grant' = [grant EXCEPT ![job[w].grant].revoked_at = ~@]
    /\ Finish(w)
    /\ UNCHANGED <<now, active, request, unrecorded>>

(* revoke_sensitive_access: nothing to do for a grant read as revoked.      *)
Revoke(w) ==
    /\ Doing(w, {"revoke"})
    /\ IF job[w].revoked_at THEN UNCHANGED grant
       ELSE /\ ~Locked(job[w].grant)
            /\ grant' = [grant EXCEPT ![job[w].grant].revoked_at = TRUE]
    /\ Finish(w)
    /\ UNCHANGED <<now, active, request, unrecorded>>

(* inquiries.views.phone writes an AuditEvent, private_location none.       *)
View(a, s) ==
    /\ HasSensitiveAccess(a, s)
    /\ unrecorded' = unrecorded \cup ({s} \cap Locations)
    /\ UNCHANGED <<now, active, request, grant, job>>

(* PermissionDenied, ValueError, a deadlock PostgreSQL ends, a lost worker. *)
Abort(w) ==
    /\ job[w] # None
    /\ Finish(w)
    /\ UNCHANGED tables

-----------------------------------------------------------------------------
(* change_staff_role and change_account_status, in one step each.           *)
ChangeAccount(a) ==
    /\ active' = IF a \in active THEN active \ {a} ELSE active \cup {a}
    /\ UNCHANGED <<now, request, grant, job, unrecorded>>

Tick ==
    /\ now < MaxTime
    /\ now' = now + 1
    /\ UNCHANGED <<active, request, grant, job, unrecorded>>

Next ==
    \/ \E w \in Workers :
          \/ \E r \in AccessRequests, op \in {"approve", "deny"} : StartReview(w, r, op)
          \/ SeeGrants(w)
          \/ \E g \in Grants : LockGrant(w, g) \/ Approve(w, g) \/ StartRevoke(w, g)
          \/ Deny(w)
          \/ Revoke(w)
          \/ Abort(w)
    \/ \E a \in Admins :
          \/ \E r \in AccessRequests, s \in Subjects, m \in Durations : Ask(a, r, s, m)
          \/ \E s \in Subjects : View(a, s)
          \/ ChangeAccount(a)
    \/ Tick

Spec == Init /\ [][Next]_vars

-----------------------------------------------------------------------------
TypeOK ==
    /\ now \in Nat
    /\ active \subseteq Admins
    /\ request \in [AccessRequests -> Request \cup {None}]
    /\ grant \in [Grants -> Grant \cup {None}]
    /\ job \in [Workers -> Review \cup Revocation \cup {None}]
    /\ unrecorded \subseteq Subjects

(* However reviews race, an approved request has given exactly one grant    *)
(* and another request none: the lock on its row makes the decision once.   *)
OneGrantPerRequest ==
    \A r \in AccessRequests :
        LET given == {g \in Issued : grant[g].source_request = r}
        IN IF request[r] # None /\ request[r].status = "APPROVED"
           THEN \E g \in given : given = {g}
           ELSE given = {}

(* Nobody has access that was not approved for that person and that subject, *)
(* nor for longer than was asked: whatever is live now was decided less than *)
(* requested_minutes ago.                                                   *)
AccessWasApproved ==
    \A g \in Grants : Live(g) =>
        LET r == request[grant[g].source_request]
        IN /\ r # None
           /\ r.status = "APPROVED"
           /\ r.requester = grant[g].grantee
           /\ r.subject = grant[g].subject
           /\ grant[g].expires_at <= now + r.requested_minutes

(* A new approval replaces the access of before.                            *)
OneLiveGrant ==
    \A a \in Admins, s \in Subjects : \A g, h \in GrantsFor(a, s) :
        Live(g) /\ Live(h) => g = h

(* Revoking a grant ends the access to its subject: when a live grant is    *)
(* revoked and no new one takes its place, no other is left.                *)
RevocationEndsAccess ==
    [][\A g \in Grants :
          /\ Live(g)
          /\ grant'[g].revoked_at
          /\ \A h \in Grants : grant[h] = None => grant'[h] = None
          => \A h \in GrantsFor(grant[g].grantee, grant[g].subject) :
                h # g => ~Live(h)]_vars

(* Every look at a customer's phone number or an exact location is in the   *)
(* audit log.                                                               *)
AccessIsRecorded == unrecorded = {}

(* The phase of a request in the abstract specification.                    *)
Phase(r) ==
    CASE request[r] = None -> "absent"
      [] request[r] # None /\ request[r].status = "PENDING" -> "pending"
      [] request[r] # None /\ request[r].status = "DENIED" -> "denied"
      [] OTHER -> IF \E g \in Grants : Live(g) /\ grant[g].source_request = r
                  THEN "granted" ELSE "over"

Right == INSTANCE AccessRight WITH phase <- [r \in AccessRequests |-> Phase(r)]

(* Each request is decided once and gives its right once: the requests,     *)
(* reviews, replacements, revocations and the clock implement AccessRight.  *)
ImplementsAccessRight == Right!Spec

=============================================================================
