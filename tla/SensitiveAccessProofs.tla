----------------------- MODULE SensitiveAccessProofs ------------------------
(***************************************************************************)
(* Proofs about SensitiveAccess, for every set of people, subjects,         *)
(* requests and workers.  A decision is made once because its request stays *)
(* locked and PENDING until the decision commits; so a request has one      *)
(* grant at most, and a grant only ever ends.                               *)
(***************************************************************************)
EXTENDS MCSensitiveAccess, TLAPS

Reviewing(w) == job[w] # None /\ job[w].op \in {"approve", "deny"}
Revoking(w) == job[w] # None /\ job[w].op = "revoke"

(* A grant and the request it came from.                                    *)
GrantFits(g) ==
    LET r == grant[g].source_request
    IN /\ request[r] # None
       /\ request[r].status = "APPROVED"
       /\ request[r].requester = grant[g].grantee
       /\ request[r].subject = grant[g].subject
       /\ grant[g].expires_at <= now + request[r].requested_minutes
GrantsFit == \A g \in Issued : GrantFits(g)

SourcesDiffer ==
    \A g, h \in Issued : grant[g].source_request = grant[h].source_request => g = h

ApprovedGave ==
    \A r \in AccessRequests :
        request[r] # None /\ request[r].status = "APPROVED" =>
            \E g \in Issued : grant[g].source_request = r

(* What a review has read stays true until it commits.                      *)
ReviewHolds(w) ==
    /\ request[job[w].request] # None
    /\ request[job[w].request].status = "PENDING"
    /\ job[w].now <= now
    /\ job[w].locks \subseteq Issued
ReviewsHold == \A w \in Workers : Reviewing(w) => ReviewHolds(w)
ReviewsDiffer ==
    \A v, w \in Workers :
        Reviewing(v) /\ Reviewing(w) /\ job[v].request = job[w].request => v = w
RevocationsHold == \A w \in Workers : Revoking(w) => job[w].grant \in Issued

IInv ==
    /\ TypeOK
    /\ GrantsFit
    /\ SourcesDiffer
    /\ ApprovedGave
    /\ ReviewsHold
    /\ ReviewsDiffer
    /\ RevocationsHold

LEMMA NoneIsNoRow ==
  /\ None \notin Request
  /\ None \notin Grant
  /\ None \notin Review
  /\ None \notin Revocation
  BY NoneAssumption

LEMMA InitIInv == Init => IInv
  BY NoneIsNoRow DEF Init, IInv, TypeOK, GrantsFit, SourcesDiffer, ApprovedGave, ReviewsHold,
     ReviewsDiffer, RevocationsHold, Reviewing, Revoking, Issued

(* A step that only starts or ends the work of w.                           *)
LEMMA JobStep ==
  ASSUME IInv, NEW w \in Workers, NEW j \in Review \cup Revocation \cup {None},
         job' = [job EXCEPT ![w] = j], UNCHANGED tables,
         j # None /\ j.op \in {"approve", "deny"} =>
            /\ request[j.request] # None
            /\ request[j.request].status = "PENDING"
            /\ j.now <= now
            /\ j.locks \subseteq Issued
            /\ \A v \in Workers : v # w /\ Reviewing(v) => job[v].request # j.request,
         j # None /\ j.op = "revoke" => j.grant \in Issued
  PROVE  IInv'
  <1> USE DEF IInv, tables
  <1>1. TypeOK'
    BY DEF TypeOK
  <1>2. GrantsFit' /\ SourcesDiffer' /\ ApprovedGave'
    BY DEF GrantsFit, GrantFits, SourcesDiffer, ApprovedGave, Issued
  <1>3. job'[w] = j /\ \A v \in Workers : v # w => job'[v] = job[v]
    BY DEF TypeOK
  <1>4. ReviewsHold'
    BY <1>3 DEF ReviewsHold, ReviewHolds, Reviewing, Issued
  <1>5. ReviewsDiffer'
    BY <1>3 DEF ReviewsDiffer, Reviewing
  <1>6. RevocationsHold'
    BY <1>3 DEF RevocationsHold, Revoking, Issued
  <1>7. QED
    BY <1>1, <1>2, <1>4, <1>5, <1>6

LEMMA StartReviewKeepsIInv ==
  ASSUME IInv, NEW w \in Workers, NEW r \in AccessRequests, NEW op \in {"approve", "deny"},
         StartReview(w, r, op)
  PROVE  IInv'
  <1> DEFINE j == [op |-> op, step |-> "read", request |-> r, now |-> now,
                   seen |-> {}, locks |-> {}]
  <1>1. now \in Nat
    BY DEF IInv, TypeOK
  <1>2. j \in Review
    BY <1>1 DEF Review
  <1>3. \A v \in Workers : Reviewing(v) => job[v].request # r
    BY DEF StartReview, UnderReview, Reviewing, Doing
  <1>4. job' = [job EXCEPT ![w] = j] /\ UNCHANGED tables
    BY DEF StartReview, Begin
  <1>5. request[r] # None /\ request[r].status = "PENDING"
    BY DEF StartReview
  <1>6. j.op = op /\ j.request = r /\ j.now = now /\ j.locks = {}
    OBVIOUS
  <1> HIDE DEF j
  <1>7. /\ request[j.request] # None
        /\ request[j.request].status = "PENDING"
        /\ j.now <= now
        /\ j.locks \subseteq Issued
        /\ \A v \in Workers : v # w /\ Reviewing(v) => job[v].request # j.request
    BY <1>1, <1>3, <1>5, <1>6
  <1>8. j.op # "revoke"
    BY <1>6
  <1>9. QED
    BY <1>2, <1>4, <1>7, <1>8, JobStep

(* The steps of an approval's UPDATE: only the rows seen and locked change. *)
LEMMA UpdateStepKeepsIInv ==
  ASSUME IInv, NEW w \in Workers, Approving(w), NEW j \in Review,
         job' = [job EXCEPT ![w] = j], UNCHANGED tables,
         j.op = job[w].op, j.request = job[w].request, j.now = job[w].now,
         j.locks \subseteq Issued
  PROVE  IInv'
  <1>1. Reviewing(w) /\ j.op = "approve" /\ j # None
    BY NoneIsNoRow DEF Approving, Doing, Reviewing
  <1>2. /\ request[j.request] # None
        /\ request[j.request].status = "PENDING"
        /\ j.now <= now
        /\ \A v \in Workers : v # w /\ Reviewing(v) => job[v].request # j.request
    BY <1>1 DEF IInv, ReviewsHold, ReviewHolds, ReviewsDiffer
  <1>3. QED
    BY <1>1, <1>2, JobStep

LEMMA ApprovingRow ==
  ASSUME IInv, NEW w \in Workers, Approving(w)
  PROVE  job[w] \in Review
  BY DEF IInv, TypeOK, Approving, Doing, Revocation

(* What the two steps do to the worker's review.                            *)
LEMMA SeenRow ==
  ASSUME IInv, NEW w \in Workers, SeeGrants(w)
  PROVE  \E j \in Review :
            /\ Approving(w) /\ UNCHANGED tables
            /\ job' = [job EXCEPT ![w] = j]
            /\ j.op = job[w].op /\ j.request = job[w].request /\ j.now = job[w].now
            /\ j.locks = job[w].locks
            /\ j.seen = Replaced(job[w].request)
  <1> DEFINE j == [job[w] EXCEPT !.step = "update", !.seen = Replaced(job[w].request)]
  <1>1. Approving(w) /\ UNCHANGED tables
    BY DEF SeeGrants, At
  <1>2. job[w] \in Review
    BY <1>1, ApprovingRow
  <1>3. Replaced(job[w].request) \subseteq Grants
    BY DEF Replaced, GrantsFor, Issued
  <1>4. /\ j \in Review
        /\ j.op = job[w].op /\ j.request = job[w].request /\ j.now = job[w].now
        /\ j.locks = job[w].locks
        /\ j.seen = Replaced(job[w].request)
    BY <1>2, <1>3 DEF Review
  <1>5. job' = [job EXCEPT ![w] = j]
    BY DEF SeeGrants
  <1> HIDE DEF j
  <1>6. QED
    BY <1>1, <1>4, <1>5

LEMMA LockedRow ==
  ASSUME IInv, NEW w \in Workers, NEW g \in Grants, LockGrant(w, g)
  PROVE  \E j \in Review :
            /\ Approving(w) /\ UNCHANGED tables
            /\ job' = [job EXCEPT ![w] = j]
            /\ j.op = job[w].op /\ j.request = job[w].request /\ j.now = job[w].now
            /\ j.step = job[w].step
            /\ j.seen = job[w].seen \ {g}
            /\ j.locks = job[w].locks \cup ({g} \cap Replaced(job[w].request))
  <1> DEFINE j == [job[w] EXCEPT !.seen = @ \ {g},
                                 !.locks = @ \cup ({g} \cap Replaced(job[w].request))]
  <1>1. Approving(w) /\ UNCHANGED tables
    BY DEF LockGrant, At
  <1>2. job[w] \in Review
    BY <1>1, ApprovingRow
  <1>3. /\ j \in Review
        /\ j.op = job[w].op /\ j.request = job[w].request /\ j.now = job[w].now
        /\ j.step = job[w].step
        /\ j.seen = job[w].seen \ {g}
        /\ j.locks = job[w].locks \cup ({g} \cap Replaced(job[w].request))
    BY <1>2 DEF Review
  <1>4. job' = [job EXCEPT ![w] = j]
    BY DEF LockGrant
  <1> HIDE DEF j
  <1>5. QED
    BY <1>1, <1>3, <1>4

LEMMA SeeGrantsKeepsIInv ==
  ASSUME IInv, NEW w \in Workers, SeeGrants(w)
  PROVE  IInv'
  <1>1. PICK j \in Review :
           /\ Approving(w) /\ UNCHANGED tables
           /\ job' = [job EXCEPT ![w] = j]
           /\ j.op = job[w].op /\ j.request = job[w].request /\ j.now = job[w].now
           /\ j.locks = job[w].locks
           /\ j.seen = Replaced(job[w].request)
    BY SeenRow
  <1>2. job[w].locks \subseteq Issued
    BY <1>1 DEF IInv, ReviewsHold, ReviewHolds, Reviewing, Approving, Doing
  <1>3. QED
    BY <1>1, <1>2, UpdateStepKeepsIInv

LEMMA LockGrantKeepsIInv ==
  ASSUME IInv, NEW w \in Workers, NEW g \in Grants, LockGrant(w, g)
  PROVE  IInv'
  <1>1. PICK j \in Review :
           /\ Approving(w) /\ UNCHANGED tables
           /\ job' = [job EXCEPT ![w] = j]
           /\ j.op = job[w].op /\ j.request = job[w].request /\ j.now = job[w].now
           /\ j.step = job[w].step
           /\ j.seen = job[w].seen \ {g}
           /\ j.locks = job[w].locks \cup ({g} \cap Replaced(job[w].request))
    BY LockedRow
  <1>2. job[w].locks \subseteq Issued
    BY <1>1 DEF IInv, ReviewsHold, ReviewHolds, Reviewing, Approving, Doing
  <1>3. Replaced(job[w].request) \subseteq Issued
    BY DEF Replaced, GrantsFor
  <1>4. QED
    BY <1>1, <1>2, <1>3, UpdateStepKeepsIInv

LEMMA StartRevokeKeepsIInv ==
  ASSUME IInv, NEW w \in Workers, NEW g \in Grants, StartRevoke(w, g)
  PROVE  IInv'
  <1> DEFINE j == [op |-> "revoke", grant |-> g, revoked_at |-> grant[g].revoked_at,
                   locks |-> {}]
  <1>1. g \in Issued
    BY DEF StartRevoke, Issued
  <1>2. grant[g].revoked_at \in BOOLEAN
    BY <1>1 DEF IInv, TypeOK, Issued, Grant
  <1>3. j \in Revocation
    BY <1>2 DEF Revocation
  <1>4. job' = [job EXCEPT ![w] = j] /\ UNCHANGED tables
    BY DEF StartRevoke, Begin
  <1>5. j.op = "revoke" /\ j.grant = g
    OBVIOUS
  <1> HIDE DEF j
  <1>6. QED
    BY <1>1, <1>3, <1>4, <1>5, JobStep

LEMMA AbortKeepsIInv ==
  ASSUME IInv, NEW w \in Workers, Abort(w)
  PROVE  IInv'
  BY JobStep DEF Abort, Finish

(* The steps that touch neither the requests, the grants nor the jobs.      *)
LEMMA OtherStepsKeepIInv ==
  ASSUME IInv, UNCHANGED <<request, grant, job>>, now' \in Nat, now' >= now,
         active' \subseteq Admins, unrecorded' \subseteq Subjects
  PROVE  IInv'
  <1> USE DEF IInv
  <1>1. TypeOK'
    BY DEF TypeOK
  <1>2. ASSUME NEW g \in Issued
        PROVE  GrantFits(g)'
    <2>1. GrantFits(g)
      BY <1>2 DEF GrantsFit
    <2>2. grant[g] \in Grant /\ grant[g].expires_at \in Nat
      BY <1>2 DEF TypeOK, Issued, Grant
    <2>3. request[grant[g].source_request] \in Request
      BY <2>1, <2>2 DEF TypeOK, GrantFits, Grant
    <2>4. request[grant[g].source_request].requested_minutes \in Nat
      BY <2>3, TimeAssumption DEF Request
    <2>5. now \in Nat
      BY DEF TypeOK
    <2>6. QED
      BY <2>1, <2>2, <2>4, <2>5 DEF GrantFits
  <1>3. GrantsFit'
    BY <1>2 DEF GrantsFit, Issued
  <1>4. SourcesDiffer' /\ ApprovedGave' /\ ReviewsDiffer' /\ RevocationsHold'
    BY DEF SourcesDiffer, ApprovedGave, ReviewsDiffer, RevocationsHold, Reviewing, Revoking,
       Issued
  <1>5. ReviewsHold'
    <2> SUFFICES ASSUME NEW w \in Workers, Reviewing(w) PROVE ReviewHolds(w)'
      BY DEF ReviewsHold, Reviewing
    <2>1. ReviewHolds(w)
      BY DEF ReviewsHold
    <2>2. job[w].now \in Nat /\ now \in Nat
      BY DEF TypeOK, Reviewing, Review, Revocation
    <2>3. QED
      BY <2>1, <2>2 DEF ReviewHolds, Issued
  <1>6. QED
    BY <1>1, <1>3, <1>4, <1>5

(* A request row is inserted or decided; what depends on the others stays.  *)
LEMMA AskKeepsIInv ==
  ASSUME IInv, NEW a \in Admins, NEW r \in AccessRequests, NEW s \in Subjects,
         NEW minutes \in Durations, Ask(a, r, s, minutes)
  PROVE  IInv'
  <1> USE DEF IInv
  <1> DEFINE row == [requester |-> a, subject |-> s, requested_minutes |-> minutes,
                     status |-> "PENDING"]
  <1>1. row \in Request
    BY DEF Request, Status
  <1>2. row.status = "PENDING" /\ row # None
    BY <1>1, NoneIsNoRow
  <1>3. request' = [request EXCEPT ![r] = row]
    BY DEF Ask
  <1> HIDE DEF row
  <1>4. TypeOK'
    BY <1>1, <1>3 DEF TypeOK, Ask
  <1>5. request'[r] = row /\ \A q \in AccessRequests : q # r => request'[q] = request[q]
    BY <1>3 DEF TypeOK
  <1>6. request[r] = None /\ UNCHANGED <<now, grant, job>>
    BY DEF Ask
  <1>7. \A g \in Issued : grant[g].source_request \in AccessRequests
    BY DEF TypeOK, Issued, Grant
  <1>8. GrantsFit'
    BY <1>5, <1>6, <1>7 DEF GrantsFit, GrantFits, Issued
  <1>9. SourcesDiffer' /\ ReviewsDiffer' /\ RevocationsHold'
    BY <1>6 DEF SourcesDiffer, ReviewsDiffer, RevocationsHold, Reviewing, Revoking, Issued
  <1>10. ApprovedGave'
    BY <1>2, <1>5, <1>6 DEF ApprovedGave, Issued
  <1>11. \A w \in Workers : Reviewing(w) => job[w].request \in AccessRequests
    BY DEF TypeOK, Reviewing, Review, Revocation
  <1>12. ReviewsHold'
    BY <1>5, <1>6, <1>11 DEF ReviewsHold, ReviewHolds, Reviewing, Issued
  <1>13. QED
    BY <1>4, <1>8, <1>9, <1>10, <1>12

(* The row a review writes: the pending request with its new status.        *)
LEMMA DecidedRow ==
  ASSUME IInv, NEW w \in Workers, Reviewing(w), NEW st \in Status
  PROVE  LET r == job[w].request
             row == Decided(w, st)
         IN /\ r \in AccessRequests
            /\ request[r] \in Request
            /\ request[r].status = "PENDING"
            /\ row \in [AccessRequests -> Request \cup {None}]
            /\ row[r] \in Request /\ row[r] # None
            /\ row[r].status = st
            /\ row[r].requester = request[r].requester
            /\ row[r].subject = request[r].subject
            /\ row[r].requested_minutes = request[r].requested_minutes
            /\ \A q \in AccessRequests : q # r => row[q] = request[q]
  <1> DEFINE r == job[w].request
             new == [request[r] EXCEPT !.status = st]
  <1>1. r \in AccessRequests
    BY DEF IInv, Reviewing, TypeOK, Review, Revocation
  <1>2. request[r] \in Request /\ request[r].status = "PENDING"
    BY <1>1 DEF IInv, ReviewsHold, ReviewHolds, TypeOK
  <1>3. /\ new \in Request /\ new # None /\ new.status = st
        /\ new.requester = request[r].requester
        /\ new.subject = request[r].subject
        /\ new.requested_minutes = request[r].requested_minutes
    <2>1. new \in Request
      BY <1>2 DEF Request
    <2>2. QED
      BY <1>2, <2>1, NoneIsNoRow DEF Request
  <1>4. Decided(w, st) = [request EXCEPT ![r] = new]
    BY DEF Decided
  <1>5. request \in [AccessRequests -> Request \cup {None}]
    BY DEF IInv, TypeOK
  <1> HIDE DEF r, new
  <1>6. QED
    BY <1>1, <1>2, <1>3, <1>4, <1>5 DEF r

(* While r is PENDING no grant comes from it.                               *)
LEMMA PendingGaveNothing ==
  ASSUME IInv, NEW r \in AccessRequests, request[r] # None, request[r].status = "PENDING"
  PROVE  \A g \in Issued : grant[g].source_request # r
  BY DEF IInv, GrantsFit, GrantFits

(* A decided request is no other review's request.                          *)
LEMMA OtherReviewsHold ==
  ASSUME IInv, NEW w \in Workers, Reviewing(w), NEW st \in Status,
         request' = Decided(w, st), Finish(w), UNCHANGED now, Issued \subseteq Issued'
  PROVE  ReviewsHold' /\ ReviewsDiffer' /\ RevocationsHold'
  <1> DEFINE r == job[w].request
  <1>1. \A q \in AccessRequests : q # r => request'[q] = request[q]
    BY DecidedRow
  <1>2. job'[w] = None /\ \A v \in Workers : v # w => job'[v] = job[v]
    BY DEF IInv, TypeOK, Finish
  <1>3. \A v \in Workers : Reviewing(v) => job[v].request \in AccessRequests
    BY DEF IInv, TypeOK, Reviewing, Review, Revocation
  <1>4. \A v \in Workers : Reviewing(v) /\ v # w => job[v].request # r
    BY DEF IInv, ReviewsDiffer
  <1>5. ReviewsHold'
    BY <1>1, <1>2, <1>3, <1>4 DEF IInv, ReviewsHold, ReviewHolds, Reviewing
  <1>6. ReviewsDiffer' /\ RevocationsHold'
    BY <1>2 DEF IInv, ReviewsDiffer, RevocationsHold, Reviewing, Revoking
  <1>7. QED
    BY <1>5, <1>6

LEMMA DenyKeepsIInv ==
  ASSUME IInv, NEW w \in Workers, Deny(w)
  PROVE  IInv'
  <1> DEFINE r == job[w].request
  <1>1. Reviewing(w)
    BY DEF Deny, Doing, Reviewing
  <1>2. request' = Decided(w, "DENIED") /\ "DENIED" \in Status
    BY DEF Deny, Status
  <1>3. /\ r \in AccessRequests
        /\ request[r] # None /\ request[r].status = "PENDING"
        /\ request' \in [AccessRequests -> Request \cup {None}]
        /\ request'[r] # None /\ request'[r].status = "DENIED"
        /\ \A q \in AccessRequests : q # r => request'[q] = request[q]
    BY <1>1, <1>2, DecidedRow, NoneIsNoRow
  <1>4. \A g \in Issued : grant[g].source_request # r
                          /\ grant[g].source_request \in AccessRequests
    BY <1>3, PendingGaveNothing DEF IInv, TypeOK, Issued, Grant
  <1>5. UNCHANGED <<now, active, grant, unrecorded>> /\ Issued' = Issued
    BY DEF Deny, Issued
  <1>6. TypeOK'
    BY <1>3, <1>5 DEF IInv, TypeOK, Deny, Finish
  <1>7. GrantsFit'
    BY <1>3, <1>4, <1>5 DEF IInv, GrantsFit, GrantFits
  <1>8. SourcesDiffer'
    BY <1>5 DEF IInv, SourcesDiffer
  <1>9. ApprovedGave'
    BY <1>3, <1>5 DEF IInv, ApprovedGave
  <1>10. ReviewsHold' /\ ReviewsDiffer' /\ RevocationsHold'
    BY <1>1, <1>2, <1>5, OtherReviewsHold DEF Deny
  <1>11. QED
    BY <1>6, <1>7, <1>8, <1>9, <1>10 DEF IInv

(* Grants after some of them were revoked: nothing but revoked_at changes.  *)
LEMMA RevokedRow ==
  ASSUME IInv, NEW g \in Issued
  PROVE  LET row == [grant[g] EXCEPT !.revoked_at = TRUE]
         IN /\ row \in Grant /\ row # None
            /\ row.revoked_at
            /\ row.grantee = grant[g].grantee
            /\ row.subject = grant[g].subject
            /\ row.source_request = grant[g].source_request
            /\ row.expires_at = grant[g].expires_at
  <1>1. grant[g] \in Grant
    BY DEF IInv, TypeOK, Issued
  <1>2. [grant[g] EXCEPT !.revoked_at = TRUE] \in Grant
    BY <1>1 DEF Grant
  <1>3. QED
    BY <1>1, <1>2, NoneIsNoRow DEF Grant

(* What Approve does to the grants.                                         *)
LEMMA ApprovedGrants ==
  ASSUME IInv, NEW w \in Workers, NEW g \in Grants, Approve(w, g)
  PROVE  LET r == job[w].request
         IN /\ Reviewing(w)
            /\ g \notin Issued
            /\ Issued' = Issued \cup {g}
            /\ grant' \in [Grants -> Grant \cup {None}]
            /\ grant'[g].source_request = r
            /\ grant'[g].grantee = request[r].requester
            /\ grant'[g].subject = request[r].subject
            /\ grant'[g].expires_at = job[w].now + request[r].requested_minutes
            /\ ~grant'[g].revoked_at
            /\ \A h \in Issued :
                  /\ grant'[h].source_request = grant[h].source_request
                  /\ grant'[h].grantee = grant[h].grantee
                  /\ grant'[h].subject = grant[h].subject
                  /\ grant'[h].expires_at = grant[h].expires_at
                  /\ grant[h].revoked_at => grant'[h].revoked_at
                  /\ h \in job[w].locks => grant'[h].revoked_at
                  /\ h \notin job[w].locks => grant'[h] = grant[h]
  <1> DEFINE r == job[w].request
             new == NewGrant(w)
             Old(h) == [grant[h] EXCEPT !.revoked_at = TRUE]
  <1>1. Reviewing(w)
    BY DEF Approve, At, Approving, Doing, Reviewing
  <1>2. r \in AccessRequests /\ request[r] \in Request
    BY <1>1, DecidedRow DEF Status
  <1>3. job[w] \in Review
    BY <1>1 DEF IInv, TypeOK, Reviewing, Revocation
  <1>4. job[w].now + request[r].requested_minutes \in Nat
    <2>1. job[w].now \in Nat
      BY <1>3 DEF Review
    <2>2. request[r].requested_minutes \in Nat
      BY <1>2, TimeAssumption DEF Request
    <2>3. QED
      BY <2>1, <2>2
  <1>5. /\ new \in Grant /\ new # None
        /\ new.source_request = r /\ new.grantee = request[r].requester
        /\ new.subject = request[r].subject /\ ~new.revoked_at
        /\ new.expires_at = job[w].now + request[r].requested_minutes
    <2>1. new \in Grant
      BY <1>2, <1>4 DEF NewGrant, Grant, Request
    <2>2. QED
      BY <2>1, NoneIsNoRow DEF NewGrant
  <1>6. job[w].locks \subseteq Issued
    BY <1>1 DEF IInv, ReviewsHold, ReviewHolds
  <1>7. grant' = [h \in Grants |-> IF h = g THEN new
                                   ELSE IF h \in job[w].locks THEN Old(h) ELSE grant[h]]
    BY DEF Approve
  <1>8. g \notin Issued
    BY DEF Approve, Issued
  <1>9. \A h \in Issued :
           /\ Old(h) \in Grant /\ Old(h) # None /\ Old(h).revoked_at
           /\ Old(h).grantee = grant[h].grantee /\ Old(h).subject = grant[h].subject
           /\ Old(h).source_request = grant[h].source_request
           /\ Old(h).expires_at = grant[h].expires_at
    BY RevokedRow
  <1>10. \A h \in Grants : grant[h] \in Grant \cup {None}
    BY DEF IInv, TypeOK
  <1> HIDE DEF new, Old
  <1>11. grant' \in [Grants -> Grant \cup {None}]
    BY <1>5, <1>6, <1>7, <1>9, <1>10
  <1>12. Issued' = Issued \cup {g}
    BY <1>5, <1>6, <1>7, <1>9 DEF Issued
  <1>13. \A h \in Issued : grant'[h] = IF h \in job[w].locks THEN Old(h) ELSE grant[h]
    BY <1>7, <1>8 DEF Issued
  <1>14. QED
    BY <1>1, <1>5, <1>7, <1>8, <1>9, <1>11, <1>12, <1>13

LEMMA ApproveKeepsIInv ==
  ASSUME IInv, NEW w \in Workers, NEW g \in Grants, Approve(w, g)
  PROVE  IInv'
  <1> DEFINE r == job[w].request
  <1>1. Reviewing(w)
    BY ApprovedGrants
  <1>2. request' = Decided(w, "APPROVED") /\ "APPROVED" \in Status
    BY DEF Approve, Status
  <1>3. /\ r \in AccessRequests
        /\ request[r] \in Request
        /\ request[r] # None /\ request[r].status = "PENDING"
        /\ request' \in [AccessRequests -> Request \cup {None}]
        /\ request'[r] # None /\ request'[r].status = "APPROVED"
        /\ request'[r].requester = request[r].requester
        /\ request'[r].subject = request[r].subject
        /\ request'[r].requested_minutes = request[r].requested_minutes
        /\ \A q \in AccessRequests : q # r => request'[q] = request[q]
    BY <1>1, <1>2, DecidedRow, NoneIsNoRow
  <1>4. \A h \in Issued : grant[h].source_request # r
                          /\ grant[h].source_request \in AccessRequests
    BY <1>3, PendingGaveNothing DEF IInv, TypeOK, Issued, Grant
  <1>5. UNCHANGED <<now, active, unrecorded>> /\ Finish(w)
    BY DEF Approve
  <1>6. TypeOK'
    BY <1>3, <1>5, ApprovedGrants DEF IInv, TypeOK, Finish
  <1>7. GrantFits(g)'
    <2>1. job[w].now <= now /\ job[w].now \in Nat /\ now \in Nat
      BY <1>1 DEF IInv, ReviewsHold, ReviewHolds, TypeOK, Reviewing, Review, Revocation
    <2>2. request[r].requested_minutes \in Nat
      BY <1>3, TimeAssumption DEF Request
    <2>3. grant'[g].expires_at <= now' + request'[r].requested_minutes
      BY <2>1, <2>2, <1>3, <1>5, ApprovedGrants
    <2>4. QED
      BY <2>3, <1>3, ApprovedGrants DEF GrantFits
  <1>8. ASSUME NEW h \in Issued
        PROVE  GrantFits(h)'
    <2>1. GrantFits(h)
      BY DEF IInv, GrantsFit
    <2>2. request'[grant[h].source_request] = request[grant[h].source_request]
      BY <1>3, <1>4
    <2>3. QED
      BY <2>1, <2>2, <1>5, ApprovedGrants DEF GrantFits
  <1>9. GrantsFit'
    BY <1>7, <1>8, ApprovedGrants DEF GrantsFit
  <1>10. SourcesDiffer'
    BY <1>4, ApprovedGrants DEF IInv, SourcesDiffer
  <1>11. ApprovedGave'
    BY <1>3, ApprovedGrants DEF IInv, ApprovedGave
  <1>12. ReviewsHold' /\ ReviewsDiffer' /\ RevocationsHold'
    BY <1>1, <1>2, <1>5, ApprovedGrants, OtherReviewsHold
  <1>13. QED
    BY <1>6, <1>9, <1>10, <1>11, <1>12 DEF IInv

LEMMA RevokeKeepsIInv ==
  ASSUME IInv, NEW w \in Workers, Revoke(w)
  PROVE  IInv'
  <1>1. CASE job[w].revoked_at
    BY <1>1, JobStep DEF Revoke, Finish, tables
  <1>2. CASE ~job[w].revoked_at
    <2> DEFINE g == job[w].grant
               row == [grant[g] EXCEPT !.revoked_at = TRUE]
    <2>1. g \in Issued /\ g \in Grants
      BY DEF IInv, RevocationsHold, Revoking, Revoke, Doing, Issued
    <2>2. /\ row \in Grant /\ row # None
          /\ row.grantee = grant[g].grantee /\ row.subject = grant[g].subject
          /\ row.source_request = grant[g].source_request
          /\ row.expires_at = grant[g].expires_at
      BY <2>1, RevokedRow
    <2>3. grant' = [grant EXCEPT ![g] = row] /\ UNCHANGED <<now, active, request, unrecorded>>
      BY <1>2 DEF Revoke
    <2>4. job' = [job EXCEPT ![w] = None]
      BY DEF Revoke, Finish
    <2> HIDE DEF row, g
    <2>5. grant'[g] = row /\ \A h \in Grants : h # g => grant'[h] = grant[h]
      BY <2>1, <2>3 DEF IInv, TypeOK
    <2>6. Issued' = Issued /\ \A h \in Issued :
             /\ grant'[h].source_request = grant[h].source_request
             /\ grant'[h].grantee = grant[h].grantee
             /\ grant'[h].subject = grant[h].subject
             /\ grant'[h].expires_at = grant[h].expires_at
      BY <2>1, <2>2, <2>5 DEF Issued
    <2>7. TypeOK'
      BY <2>2, <2>3, <2>4 DEF IInv, TypeOK
    <2>8. GrantsFit' /\ SourcesDiffer' /\ ApprovedGave'
      BY <2>3, <2>6 DEF IInv, GrantsFit, GrantFits, SourcesDiffer, ApprovedGave
    <2>9. job'[w] = None /\ \A v \in Workers : v # w => job'[v] = job[v]
      BY <2>4 DEF IInv, TypeOK
    <2>10. ReviewsHold' /\ ReviewsDiffer' /\ RevocationsHold'
      BY <2>3, <2>6, <2>9 DEF IInv, ReviewsHold, ReviewHolds, ReviewsDiffer, RevocationsHold,
         Reviewing, Revoking
    <2>11. QED
      BY <2>7, <2>8, <2>10 DEF IInv
  <1>3. QED
    BY <1>1, <1>2

LEMMA NextKeepsIInv == IInv /\ [Next]_vars => IInv'
  <1> SUFFICES ASSUME IInv, [Next]_vars PROVE IInv'
    OBVIOUS
  <1>t. now \in Nat /\ active \subseteq Admins /\ unrecorded \subseteq Subjects
    BY DEF IInv, TypeOK
  <1>1. ASSUME NEW w \in Workers, NEW r \in AccessRequests, NEW op \in {"approve", "deny"},
               StartReview(w, r, op)
        PROVE  IInv'
    BY <1>1, StartReviewKeepsIInv
  <1>2. ASSUME NEW w \in Workers, NEW g \in Grants,
               LockGrant(w, g) \/ Approve(w, g) \/ StartRevoke(w, g)
        PROVE  IInv'
    BY <1>2, LockGrantKeepsIInv, ApproveKeepsIInv, StartRevokeKeepsIInv
  <1>3. ASSUME NEW w \in Workers, SeeGrants(w) \/ Deny(w) \/ Revoke(w) \/ Abort(w)
        PROVE  IInv'
    BY <1>3, SeeGrantsKeepsIInv, DenyKeepsIInv, RevokeKeepsIInv, AbortKeepsIInv
  <1>4. ASSUME NEW a \in Admins, NEW r \in AccessRequests, NEW s \in Subjects,
               NEW m \in Durations, Ask(a, r, s, m)
        PROVE  IInv'
    BY <1>4, AskKeepsIInv
  <1>5. ASSUME NEW a \in Admins, NEW s \in Subjects, View(a, s)
        PROVE  IInv'
    BY <1>5, <1>t, OtherStepsKeepIInv DEF View, Subjects
  <1>6. ASSUME NEW a \in Admins, ChangeAccount(a)
        PROVE  IInv'
    BY <1>6, <1>t, OtherStepsKeepIInv DEF ChangeAccount
  <1>7. CASE Tick
    BY <1>7, <1>t, OtherStepsKeepIInv DEF Tick
  <1>8. CASE UNCHANGED vars
    BY <1>8, <1>t, OtherStepsKeepIInv DEF vars
  <1>9. QED
    BY <1>1, <1>2, <1>3, <1>4, <1>5, <1>6, <1>7, <1>8 DEF Next

LEMMA Invariance == Spec => []IInv
  BY InitIInv, NextKeepsIInv, PTL DEF Spec

(* Every reachable state holds rows of the two models.                      *)
THEOREM TypeCorrect == Spec => []TypeOK
  <1>1. IInv => TypeOK
    BY DEF IInv
  <1>2. QED
    BY <1>1, Invariance, PTL

(* A request is decided once: it has one grant when it is approved and none  *)
(* otherwise, whatever reviews of it race.                                  *)
THEOREM OneGrant == Spec => []OneGrantPerRequest
  <1>1. IInv => OneGrantPerRequest
    <2> SUFFICES ASSUME IInv, NEW r \in AccessRequests
                 PROVE  LET given == {g \in Issued : grant[g].source_request = r}
                        IN IF request[r] # None /\ request[r].status = "APPROVED"
                           THEN \E g \in given : given = {g}
                           ELSE given = {}
      BY DEF OneGrantPerRequest
    <2>1. CASE request[r] # None /\ request[r].status = "APPROVED"
      <3>1. PICK g \in Issued : grant[g].source_request = r
        BY <2>1 DEF IInv, ApprovedGave
      <3>2. {h \in Issued : grant[h].source_request = r} = {g}
        BY <3>1 DEF IInv, SourcesDiffer
      <3>3. QED
        BY <2>1, <3>1, <3>2
    <2>2. CASE ~(request[r] # None /\ request[r].status = "APPROVED")
      BY <2>2 DEF IInv, GrantsFit, GrantFits
    <2>3. QED
      BY <2>1, <2>2
  <1>2. QED
    BY <1>1, Invariance, PTL

(* Whatever is live was approved for that person and subject, and ends in   *)
(* time.                                                                    *)
THEOREM AccessWasAlwaysApproved == Spec => []AccessWasApproved
  <1>1. IInv => AccessWasApproved
    BY DEF IInv, GrantsFit, GrantFits, AccessWasApproved, Live, Issued
  <1>2. QED
    BY <1>1, Invariance, PTL

-----------------------------------------------------------------------------
(* The refinement.                                                          *)

Gives(r) == \E g \in Grants : Live(g) /\ grant[g].source_request = r

LEMMA PhaseIsAPhase ==
  ASSUME NEW r \in AccessRequests
  PROVE  Phase(r) \in {"absent", "pending", "denied", "granted", "over"}
  BY DEF Phase

(* A request whose row stays, and that gains no live grant, stays in its    *)
(* phase or ends.                                                           *)
LEMMA RowStays ==
  ASSUME NEW r \in AccessRequests, request'[r] = request[r], Gives(r)' => Gives(r)
  PROVE  Phase(r)' = Phase(r) \/ (Phase(r) = "granted" /\ Phase(r)' = "over")
  <1>1. CASE request[r] = None \/ request[r].status \in {"PENDING", "DENIED"}
    BY <1>1 DEF Phase
  <1>2. CASE ~(request[r] = None \/ request[r].status \in {"PENDING", "DENIED"})
    <2>1. Phase(r) = (IF Gives(r) THEN "granted" ELSE "over")
      BY <1>2 DEF Phase, Gives
    <2>2. Phase(r)' = (IF Gives(r)' THEN "granted" ELSE "over")
      BY <1>2 DEF Phase, Gives
    <2>3. QED
      BY <2>1, <2>2
  <1>3. QED
    BY <1>1, <1>2

(* When all rows stay and no grant becomes live, rights only end.           *)
LEMMA RightsOnlyEnd ==
  ASSUME UNCHANGED request,
         \A g \in Grants :
            Live(g)' => Live(g) /\ grant'[g].source_request = grant[g].source_request
  PROVE  Right!Next \/ UNCHANGED [r \in AccessRequests |-> Phase(r)]
  <1>1. \A r \in AccessRequests :
           Phase(r)' = Phase(r) \/ (Phase(r) = "granted" /\ Phase(r)' = "over")
    BY RowStays DEF Gives
  <1>2. \A r \in AccessRequests : Phase(r)' \in Right!Phases
    BY PhaseIsAPhase, <1>1 DEF Right!Phases
  <1> HIDE DEF Phase
  <1>3. QED
    BY <1>1, <1>2 DEF Right!Next, Right!Ends, Right!Stays

(* A request moves on; the other rows stay.                                 *)
LEMMA OneMoves ==
  ASSUME NEW r \in AccessRequests,
         \A q \in AccessRequests : q # r => request'[q] = request[q],
         \A g \in Grants :
            Live(g)' => \/ grant'[g].source_request = r
                        \/ Live(g) /\ grant'[g].source_request = grant[g].source_request,
         \/ Phase(r) = "absent" /\ Phase(r)' = "pending"
         \/ Phase(r) = "pending" /\ Phase(r)' \in {"denied", "granted", "over"}
  PROVE  Right!Next
  <1>1. \A q \in AccessRequests : q # r =>
           Phase(q)' = Phase(q) \/ (Phase(q) = "granted" /\ Phase(q)' = "over")
    BY RowStays DEF Gives
  <1>2. \A q \in AccessRequests : Phase(q)' \in Right!Phases
    BY PhaseIsAPhase, <1>1 DEF Right!Phases
  <1> HIDE DEF Phase
  <1>3. QED
    BY <1>1, <1>2 DEF Right!Next, Right!Ends, Right!Stays, Right!Moves

LEMMA StepRefines ==
  IInv /\ [Next]_vars => [Right!Next]_([r \in AccessRequests |-> Phase(r)])
  <1> SUFFICES ASSUME IInv, [Next]_vars
               PROVE  Right!Next \/ UNCHANGED [r \in AccessRequests |-> Phase(r)]
    OBVIOUS
  <1> USE DEF IInv
  <1>1. CASE UNCHANGED <<now, request, grant>>
    BY <1>1, RightsOnlyEnd DEF Live
  <1>2. ASSUME NEW a \in Admins, NEW r \in AccessRequests, NEW s \in Subjects,
               NEW m \in Durations, Ask(a, r, s, m)
        PROVE  Right!Next
    <2> DEFINE row == [requester |-> a, subject |-> s, requested_minutes |-> m,
                       status |-> "PENDING"]
    <2>1. row \in Request
      BY DEF Request, Status
    <2>2. row # None /\ row.status = "PENDING"
      BY <2>1, NoneIsNoRow
    <2>3. request' = [request EXCEPT ![r] = row] /\ request[r] = None
          /\ UNCHANGED <<now, grant>>
      BY <1>2 DEF Ask
    <2> HIDE DEF row
    <2>4. request'[r] = row /\ \A q \in AccessRequests : q # r => request'[q] = request[q]
      BY <2>3 DEF TypeOK
    <2>5. Phase(r) = "absent" /\ Phase(r)' = "pending"
      BY <2>2, <2>3, <2>4 DEF Phase
    <2>6. \A g \in Grants :
             Live(g)' => Live(g) /\ grant'[g].source_request = grant[g].source_request
      BY <2>3 DEF Live
    <2>7. QED
      BY <2>4, <2>5, <2>6, OneMoves
  <1>3. ASSUME NEW w \in Workers, Deny(w)
        PROVE  Right!Next
    <2> DEFINE r == job[w].request
    <2>1. Reviewing(w) /\ request' = Decided(w, "DENIED") /\ "DENIED" \in Status
      BY <1>3 DEF Deny, Doing, Reviewing, Status
    <2>2. /\ r \in AccessRequests
          /\ request[r] # None /\ request[r].status = "PENDING"
          /\ request'[r] # None /\ request'[r].status = "DENIED"
          /\ \A q \in AccessRequests : q # r => request'[q] = request[q]
      BY <2>1, DecidedRow, NoneIsNoRow
    <2>3. UNCHANGED <<now, grant>>
      BY <1>3 DEF Deny
    <2>4. \A g \in Grants :
             Live(g)' => Live(g) /\ grant'[g].source_request = grant[g].source_request
      BY <2>3 DEF Live
    <2>5. PICK q \in AccessRequests : q = r
      BY <2>2
    <2>6. Phase(q) = "pending" /\ Phase(q)' = "denied"
      BY <2>2, <2>5 DEF Phase
    <2>7. QED
      BY <2>2, <2>4, <2>5, <2>6, OneMoves
  <1>4. ASSUME NEW w \in Workers, NEW g \in Grants, Approve(w, g)
        PROVE  Right!Next
    <2> DEFINE r == job[w].request
    <2>1. Reviewing(w) /\ request' = Decided(w, "APPROVED") /\ "APPROVED" \in Status
      BY <1>4, ApprovedGrants DEF Approve, Status
    <2>2. /\ r \in AccessRequests
          /\ request[r] # None /\ request[r].status = "PENDING"
          /\ request'[r] # None /\ request'[r].status = "APPROVED"
          /\ \A q \in AccessRequests : q # r => request'[q] = request[q]
      BY <2>1, DecidedRow, NoneIsNoRow
    <2>3. PICK q \in AccessRequests : q = r
      BY <2>2
    <2>4. Phase(q) = "pending" /\ Phase(q)' \in {"granted", "over"}
      BY <2>2, <2>3 DEF Phase
    <2>5. \A h \in Grants :
             Live(h)' => \/ grant'[h].source_request = q
                         \/ Live(h) /\ grant'[h].source_request = grant[h].source_request
      <3>1. now' = now
        BY <1>4 DEF Approve
      <3>2. ASSUME NEW h \in Grants, Live(h)', h # g
            PROVE  Live(h) /\ grant'[h].source_request = grant[h].source_request
        <4>1. h \in Issued'
          BY <3>2 DEF Live, Issued
        <4>2. h \in Issued
          BY <4>1, <3>2, <1>4, ApprovedGrants
        <4>3. QED
          BY <4>2, <3>1, <3>2, <1>4, ApprovedGrants DEF Live, Issued
      <3>3. grant'[g].source_request = q
        BY <1>4, <2>3, ApprovedGrants
      <3>4. QED
        BY <3>2, <3>3
    <2>6. QED
      BY <2>2, <2>3, <2>4, <2>5, OneMoves
  <1>5. ASSUME NEW w \in Workers, Revoke(w), ~job[w].revoked_at
        PROVE  Right!Next \/ UNCHANGED [r \in AccessRequests |-> Phase(r)]
    <2>1. PICK g \in Grants : g = job[w].grant /\ g \in Issued
      BY <1>5 DEF RevocationsHold, Revoking, Revoke, Doing, Issued
    <2>2. /\ grant' = [grant EXCEPT ![g] = [grant[g] EXCEPT !.revoked_at = TRUE]]
          /\ UNCHANGED <<now, request>>
      BY <1>5, <2>1 DEF Revoke
    <2>3. grant'[g].revoked_at /\ \A h \in Grants : h # g => grant'[h] = grant[h]
      BY <2>1, <2>2, RevokedRow DEF TypeOK
    <2>4. QED
      BY <2>2, <2>3, RightsOnlyEnd DEF Live
  <1>6. CASE Tick
    <2>1. now \in Nat /\ now' = now + 1 /\ UNCHANGED <<request, grant>>
      BY <1>6 DEF Tick, TypeOK
    <2>2. ASSUME NEW g \in Grants, Live(g)' PROVE Live(g)
      <3>1. grant[g].expires_at \in Nat
        BY <2>1, <2>2 DEF TypeOK, Live, Grant
      <3>2. QED
        BY <2>1, <2>2, <3>1 DEF Live
    <2>3. QED
      BY <2>1, <2>2, RightsOnlyEnd
  <1>7. ASSUME NEW w \in Workers,
               \/ \E r \in AccessRequests, op \in {"approve", "deny"} : StartReview(w, r, op)
               \/ \E g \in Grants : LockGrant(w, g) \/ StartRevoke(w, g)
               \/ SeeGrants(w)
               \/ Abort(w)
               \/ Revoke(w) /\ job[w].revoked_at
        PROVE  UNCHANGED <<now, request, grant>>
    BY <1>7 DEF StartReview, SeeGrants, LockGrant, StartRevoke, Abort, Revoke, Begin, tables
  <1>8. ASSUME NEW a \in Admins, \/ \E s \in Subjects : View(a, s)
                                 \/ ChangeAccount(a)
        PROVE  UNCHANGED <<now, request, grant>>
    BY <1>8 DEF View, ChangeAccount
  <1>9. CASE UNCHANGED vars
    BY <1>1, <1>9 DEF vars
  <1>10. QED
    BY <1>1, <1>2, <1>3, <1>4, <1>5, <1>6, <1>7, <1>8, <1>9 DEF Next

(* SensitiveAccess implements AccessRight: each request is decided once and *)
(* gives its right for one stretch of time, whatever reviews, revocations   *)
(* and expiries race.                                                       *)
THEOREM Refinement == Spec => ImplementsAccessRight
  <1>1. Init => Right!Init
    BY DEF Init, Right!Init, Phase
  <1>2. QED
    BY <1>1, StepRefines, Invariance, PTL DEF Spec, Right!Spec, ImplementsAccessRight
-----------------------------------------------------------------------------
(* Only the approvals for one person and subject race.                      *)

(* Every grant that an approval has to replace is one that it has yet to    *)
(* come to or has locked, and nobody has two grants for one subject.        *)
NoneMissed ==
    \A w \in Workers :
        At(w, "update") => Replaced(job[w].request) \subseteq job[w].seen \cup job[w].locks
OneUnrevoked ==
    \A g, h \in Issued :
        /\ grant[g].grantee = grant[h].grantee
        /\ grant[g].subject = grant[h].subject
        /\ ~grant[g].revoked_at
        /\ ~grant[h].revoked_at
        => g = h
SerialInv == IInv /\ NoneMissed /\ OneUnrevoked

LEMMA SerialInit == Init => SerialInv /\ ApprovalsApart
  BY InitIInv DEF Init, SerialInv, NoneMissed, OneUnrevoked, ApprovalsApart, At, Approving,
     Doing, Issued

(* The request of an approval in progress.                                  *)
LEMMA ApprovedRequest ==
  ASSUME IInv, NEW w \in Workers, Approving(w)
  PROVE  job[w].request \in AccessRequests /\ request[job[w].request] # None
  BY DEF IInv, TypeOK, ReviewsHold, ReviewHolds, Reviewing, Approving, Doing, Review,
     Revocation

(* A step that revokes grants at most, and leaves the request of every      *)
(* approval alone.                                                          *)
LEMMA GrantsEnd ==
  ASSUME SerialInv, IInv', Issued' = Issued,
         \A g \in Issued :
            /\ grant'[g].grantee = grant[g].grantee
            /\ grant'[g].subject = grant[g].subject
            /\ grant[g].revoked_at => grant'[g].revoked_at,
         \A w \in Workers : At(w, "update")' =>
            /\ At(w, "update") /\ job'[w] = job[w]
            /\ request'[job[w].request].requester = request[job[w].request].requester
            /\ request'[job[w].request].subject = request[job[w].request].subject
  PROVE  SerialInv'
  <1>1. OneUnrevoked'
    BY DEF SerialInv, OneUnrevoked
  <1>2. NoneMissed'
    BY DEF SerialInv, NoneMissed, Replaced, GrantsFor
  <1>3. QED
    BY <1>1, <1>2 DEF SerialInv

(* Work that ends leaves the work of the others alone.                      *)
LEMMA Finished ==
  ASSUME IInv, NEW w \in Workers, Finish(w)
  PROVE  /\ job'[w] = None
         /\ \A v \in Workers : Approving(v)' => v # w /\ Approving(v) /\ job'[v] = job[v]
         /\ \A v \in Workers :
               At(v, "update")' => v # w /\ At(v, "update") /\ job'[v] = job[v]
  BY DEF IInv, TypeOK, Finish, At, Approving, Doing

(* The other approvals while w takes a step of its own.                     *)
LEMMA SerialOwnStep ==
  ASSUME SerialInv, IInv', NEW w \in Workers, NEW j,
         job' = [job EXCEPT ![w] = j], UNCHANGED tables,
         At(w, "update")' => Replaced(j.request) \subseteq j.seen \cup j.locks
  PROVE  SerialInv'
  <1>1. job'[w] = j /\ \A v \in Workers : v # w => job'[v] = job[v]
    BY DEF SerialInv, IInv, TypeOK
  <1>2. UNCHANGED <<request, grant>>
    BY DEF tables
  <1>3. Issued' = Issued
    BY <1>2 DEF Issued
  <1>4. \A q : Replaced(q)' = Replaced(q)
    BY <1>2 DEF Replaced, GrantsFor, Issued
  <1>5. OneUnrevoked'
    BY <1>2, <1>3 DEF SerialInv, OneUnrevoked
  <1>6. NoneMissed'
    BY <1>1, <1>4 DEF SerialInv, NoneMissed, At, Approving, Doing
  <1>7. QED
    BY <1>5, <1>6 DEF SerialInv

(* The approval replaces all there is, as nobody else approves this access. *)
LEMMA SerialApprove ==
  ASSUME SerialInv, ApprovalsApart, IInv', NEW w \in Workers, NEW g \in Grants,
         Approve(w, g)
  PROVE  SerialInv'
  <1> DEFINE r == job[w].request
  <1>i. IInv
    BY DEF SerialInv
  <1>1. At(w, "update") /\ Approving(w) /\ job[w].seen = {} /\ Finish(w)
    BY DEF Approve, At
  <1>2. \A v \in Workers :
           At(v, "update")' => v # w /\ At(v, "update") /\ Approving(v) /\ job'[v] = job[v]
    BY <1>i, <1>1, Finished DEF At
  <1>3. Replaced(r) \subseteq job[w].locks
    BY <1>1 DEF SerialInv, NoneMissed
  <1>4. \A h \in Issued :
           /\ grant'[h].grantee = grant[h].grantee
           /\ grant'[h].subject = grant[h].subject
           /\ grant[h].revoked_at => grant'[h].revoked_at
           /\ h \in Replaced(r) => grant'[h].revoked_at
    BY <1>i, <1>3, ApprovedGrants
  <1>5. /\ Issued' = Issued \cup {g}
        /\ grant'[g].grantee = request[r].requester
        /\ grant'[g].subject = request[r].subject
    BY <1>i, ApprovedGrants
  <1>6. \A h \in Issued :
           /\ grant'[h].grantee = grant'[g].grantee
           /\ grant'[h].subject = grant'[g].subject
           => grant'[h].revoked_at
    BY <1>4, <1>5 DEF Replaced, GrantsFor
  <1>7. OneUnrevoked'
    BY <1>4, <1>5, <1>6 DEF SerialInv, OneUnrevoked
  <1>8. ASSUME NEW v \in Workers, At(v, "update")'
        PROVE  (Replaced(job[v].request) \subseteq job[v].seen \cup job[v].locks)'
    <2> DEFINE q == job[v].request
    <2>1. /\ v # w /\ Approving(v) /\ job'[v] = job[v]
          /\ Replaced(q) \subseteq job[v].seen \cup job[v].locks
      BY <1>2, <1>8 DEF SerialInv, NoneMissed
    <2>2. /\ q \in AccessRequests /\ request[q] # None
          /\ r \in AccessRequests /\ request[r] # None
      BY <1>i, <1>1, <2>1, ApprovedRequest
    <2>3. ~SameAccess(q, r)
      BY <1>1, <2>1 DEF ApprovalsApart
    <2>4. /\ request'[q].requester = request[q].requester
          /\ request'[q].subject = request[q].subject
          /\ job'[v].request = q
      BY <1>i, <2>1, <2>2 DEF Approve, Decided, IInv, TypeOK, Request
    <2>5. Replaced(q)' \subseteq Replaced(q)
      <3>1. g \notin Replaced(q)'
        BY <1>5, <2>3, <2>4 DEF Replaced, GrantsFor, SameAccess
      <3>2. \A h \in Issued : h \in Replaced(q)' => h \in Replaced(q)
        BY <1>4, <2>4 DEF Replaced, GrantsFor
      <3>3. \A h \in Replaced(q)' : h \in Issued \/ h = g
        BY <1>5 DEF Replaced, GrantsFor
      <3>4. QED
        BY <3>1, <3>2, <3>3
    <2>6. QED
      BY <2>1, <2>4, <2>5
  <1>9. QED
    BY <1>7, <1>8 DEF SerialInv, NoneMissed

(* A revocation only ends a grant.                                          *)
LEMMA SerialRevoke ==
  ASSUME SerialInv, IInv', NEW w \in Workers, Revoke(w)
  PROVE  SerialInv'
  <1>i. IInv
    BY DEF SerialInv
  <1>1. Finish(w) /\ UNCHANGED request
    BY DEF Revoke
  <1>2. \A v \in Workers : At(v, "update")' => At(v, "update") /\ job'[v] = job[v]
    BY <1>i, <1>1, Finished
  <1>3. CASE job[w].revoked_at
    <2>1. grant' = grant /\ Issued' = Issued
      BY <1>3 DEF Revoke, Issued
    <2>2. QED
      BY <1>1, <1>2, <2>1, GrantsEnd
  <1>4. CASE ~job[w].revoked_at
    <2>1. PICK g \in Grants : g = job[w].grant /\ g \in Issued
      BY DEF SerialInv, IInv, RevocationsHold, Revoking, Revoke, Doing, Issued
    <2> DEFINE row == [grant[g] EXCEPT !.revoked_at = TRUE]
    <2>2. grant' = [grant EXCEPT ![g] = row]
      BY <1>4, <2>1 DEF Revoke
    <2>3. /\ row # None /\ row.revoked_at
          /\ row.grantee = grant[g].grantee /\ row.subject = grant[g].subject
      BY <1>i, <2>1, RevokedRow
    <2> HIDE DEF row
    <2>4. grant'[g] = row /\ \A h \in Grants : h # g => grant'[h] = grant[h]
      BY <1>i, <2>2 DEF IInv, TypeOK
    <2>5. Issued' = Issued
      BY <2>1, <2>3, <2>4 DEF Issued
    <2>6. \A h \in Issued :
             /\ grant'[h].grantee = grant[h].grantee
             /\ grant'[h].subject = grant[h].subject
             /\ grant[h].revoked_at => grant'[h].revoked_at
      BY <2>3, <2>4 DEF Issued
    <2>7. QED
      BY <1>1, <1>2, <2>5, <2>6, GrantsEnd
  <1>5. QED
    BY <1>3, <1>4

LEMMA SerialStep ==
  ASSUME SerialInv, ApprovalsApart, [Next]_vars
  PROVE  SerialInv'
  <1>i. IInv /\ IInv'
    BY NextKeepsIInv DEF SerialInv
  <1>1. ASSUME NEW w \in Workers, NEW r \in AccessRequests, NEW op \in {"approve", "deny"},
               StartReview(w, r, op)
        PROVE  SerialInv'
    <2> DEFINE j == [op |-> op, step |-> "read", request |-> r, now |-> now,
                     seen |-> {}, locks |-> {}]
    <2>1. job' = [job EXCEPT ![w] = j] /\ UNCHANGED tables /\ j.step = "read"
      BY <1>1 DEF StartReview, Begin
    <2> HIDE DEF j
    <2>2. ~At(w, "update")'
      BY <2>1 DEF SerialInv, IInv, TypeOK, At
    <2>3. QED
      BY <1>i, <2>1, <2>2, SerialOwnStep
  <1>2. ASSUME NEW w \in Workers, SeeGrants(w)
        PROVE  SerialInv'
    <2>1. PICK j \in Review :
             /\ Approving(w) /\ UNCHANGED tables
             /\ job' = [job EXCEPT ![w] = j]
             /\ j.op = job[w].op /\ j.request = job[w].request /\ j.now = job[w].now
             /\ j.locks = job[w].locks
             /\ j.seen = Replaced(job[w].request)
      BY <1>i, <1>2, SeenRow
    <2>2. QED
      BY <1>i, <2>1, SerialOwnStep
  <1>3. ASSUME NEW w \in Workers, NEW g \in Grants, LockGrant(w, g)
        PROVE  SerialInv'
    <2>1. PICK j \in Review :
             /\ Approving(w) /\ UNCHANGED tables
             /\ job' = [job EXCEPT ![w] = j]
             /\ j.op = job[w].op /\ j.request = job[w].request /\ j.now = job[w].now
             /\ j.step = job[w].step
             /\ j.seen = job[w].seen \ {g}
             /\ j.locks = job[w].locks \cup ({g} \cap Replaced(job[w].request))
      BY <1>i, <1>3, LockedRow
    <2>2. Replaced(job[w].request) \subseteq job[w].seen \cup job[w].locks
      BY <1>3 DEF SerialInv, NoneMissed, LockGrant
    <2>3. Replaced(j.request) \subseteq j.seen \cup j.locks
      BY <2>1, <2>2
    <2>4. QED
      BY <1>i, <2>1, <2>3, SerialOwnStep
  <1>4. ASSUME NEW w \in Workers, NEW g \in Grants, Approve(w, g)
        PROVE  SerialInv'
    BY <1>i, <1>4, SerialApprove
  <1>5. ASSUME NEW w \in Workers, NEW g \in Grants, StartRevoke(w, g)
        PROVE  SerialInv'
    <2> DEFINE j == [op |-> "revoke", grant |-> g, revoked_at |-> grant[g].revoked_at,
                     locks |-> {}]
    <2>1. job' = [job EXCEPT ![w] = j] /\ UNCHANGED tables /\ j.op = "revoke"
      BY <1>5 DEF StartRevoke, Begin
    <2> HIDE DEF j
    <2>2. ~At(w, "update")'
      BY <2>1 DEF SerialInv, IInv, TypeOK, At, Approving, Doing
    <2>3. QED
      BY <1>i, <2>1, <2>2, SerialOwnStep
  <1>6. ASSUME NEW w \in Workers, Deny(w) \/ Abort(w)
        PROVE  SerialInv'
    <2>1. /\ Finish(w) /\ grant' = grant
          /\ request' = request \/ request' = Decided(w, "DENIED")
      BY <1>6 DEF Deny, Abort, tables
    <2>2. \A v \in Workers :
             At(v, "update")' => At(v, "update") /\ Approving(v) /\ job'[v] = job[v]
      BY <1>i, <2>1, Finished DEF At
    <2>3. ASSUME NEW q \in AccessRequests, request[q] # None
          PROVE  /\ request'[q].requester = request[q].requester
                 /\ request'[q].subject = request[q].subject
      BY <1>i, <2>1, <2>3 DEF Decided, IInv, TypeOK, Request
    <2>4. Issued' = Issued
      BY <2>1 DEF Issued
    <2>5. QED
      BY <1>i, <2>1, <2>2, <2>3, <2>4, ApprovedRequest, GrantsEnd
  <1>7. ASSUME NEW w \in Workers, Revoke(w)
        PROVE  SerialInv'
    BY <1>i, <1>7, SerialRevoke
  <1>8. ASSUME NEW a \in Admins, NEW r \in AccessRequests, NEW s \in Subjects,
               NEW m \in Durations, Ask(a, r, s, m)
        PROVE  SerialInv'
    <2>1. /\ request[r] = None /\ UNCHANGED <<grant, job>>
          /\ \A q \in AccessRequests : q # r => request'[q] = request[q]
      BY <1>8 DEF Ask, SerialInv, IInv, TypeOK
    <2>2. Issued' = Issued
      BY <2>1 DEF Issued
    <2>3. \A w \in Workers : At(w, "update")' =>
             /\ At(w, "update") /\ job'[w] = job[w]
             /\ request'[job[w].request] = request[job[w].request]
      BY <1>i, <2>1, ApprovedRequest DEF At, Approving, Doing
    <2>4. QED
      BY <1>i, <2>1, <2>2, <2>3, GrantsEnd
  <1>9. ASSUME \/ \E a \in Admins, s \in Subjects : View(a, s)
               \/ \E a \in Admins : ChangeAccount(a)
               \/ Tick
               \/ UNCHANGED vars
        PROVE  SerialInv'
    <2>1. UNCHANGED <<request, grant, job>>
      BY <1>9 DEF View, ChangeAccount, Tick, vars
    <2>2. Issued' = Issued
      BY <2>1 DEF Issued
    <2>3. QED
      BY <1>i, <2>1, <2>2, GrantsEnd DEF At, Approving, Doing
  <1>10. QED
    BY <1>1, <1>2, <1>3, <1>4, <1>5, <1>6, <1>7, <1>8, <1>9 DEF Next

LEMMA SerialGrants == SerialInv => OneLiveGrant
  BY DEF SerialInv, OneUnrevoked, OneLiveGrant, GrantsFor, Live

(* While two approvals for one person and subject do not overlap, and       *)
(* whatever else does (revocations of the grants they replace, denials,     *)
(* approvals for others, changes of the accounts), review_sensitive_access  *)
(* leaves one live grant per person and subject, and revoking it ends the   *)
(* access.                                                                  *)
THEOREM OnlyApprovalsRace ==
    Spec /\ []ApprovalsApart => []OneLiveGrant /\ RevocationEndsAccess
  <1>1. SerialInv /\ ApprovalsApart /\ [Next]_vars => SerialInv'
    BY SerialStep
  <1> DEFINE Ends ==
        \A g \in Grants :
          /\ Live(g)
          /\ grant'[g].revoked_at
          /\ \A h \in Grants : grant[h] = None => grant'[h] = None
          => \A h \in GrantsFor(grant[g].grantee, grant[g].subject) :
                h # g => ~Live(h)
  <1>2. SerialInv => [Ends]_vars
    BY DEF SerialInv, OneUnrevoked, GrantsFor, Live, Issued
  <1>3. QED
    BY <1>1, <1>2, SerialInit, SerialGrants, PTL DEF Spec, RevocationEndsAccess

(* The same of the behaviours the run looks at.                             *)
LEMMA MCInvariance == MCSpec => [](racing \/ (SerialInv /\ ApprovalsApart))
  <1>1. MCInit => SerialInv /\ ApprovalsApart
    BY SerialInit DEF MCInit
  <1>2. (racing \/ (SerialInv /\ ApprovalsApart)) /\ [MCNext]_<<vars, racing>> =>
           (racing \/ (SerialInv /\ ApprovalsApart))'
    <2> SUFFICES ASSUME SerialInv, ApprovalsApart, [MCNext]_<<vars, racing>>, ~racing
                 PROVE  SerialInv' /\ ApprovalsApart'
      BY DEF MCNext
    <2>1. [Next]_vars
      BY DEF MCNext
    <2>2. ApprovalsApart'
      BY DEF MCNext, ApprovalsApart, SameAccess, Approving, Doing, vars
    <2>3. QED
      BY <2>1, <2>2, SerialStep
  <1>3. QED
    BY <1>1, <1>2, PTL DEF MCSpec

(* A new approval replaces the access of before, unless two approvals for   *)
(* one person and subject have overlapped.                                  *)
THEOREM SerialOneGrant == MCSpec => []SerialOneLiveGrant
  <1>1. racing \/ (SerialInv /\ ApprovalsApart) => SerialOneLiveGrant
    BY SerialGrants DEF SerialOneLiveGrant
  <1>2. QED
    BY <1>1, MCInvariance, PTL

(* Revoking the live grant ends the access, unless two approvals for one    *)
(* person and subject have overlapped.                                      *)
THEOREM SerialRevocation == MCSpec => SerialRevocationEndsAccess
  <1> DEFINE Ends ==
        racing \/ \A g \in Grants :
          /\ Live(g)
          /\ grant'[g].revoked_at
          /\ \A h \in Grants : grant[h] = None => grant'[h] = None
          => \A h \in GrantsFor(grant[g].grantee, grant[g].subject) :
                h # g => ~Live(h)
  <1>1. (racing \/ (SerialInv /\ ApprovalsApart)) => [Ends]_vars
    BY DEF SerialInv, OneUnrevoked, GrantsFor, Live, Issued
  <1>2. QED
    BY <1>1, MCInvariance, PTL DEF SerialRevocationEndsAccess

=============================================================================
