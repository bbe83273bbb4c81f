-------------------------- MODULE InvitationsProofs --------------------------
(***************************************************************************)
(* Proofs about Invitations, for every set of addresses, invitations and   *)
(* requests.  The argument is the row lock: what an acceptance read of its *)
(* invitation stays true until it commits, because no other transaction    *)
(* writes a row it holds.                                                  *)
(***************************************************************************)
EXTENDS MCInvitations, TLAPS

(* A transaction holds the rows it has read FOR UPDATE, alone, and they are *)
(* still open.                                                              *)
LocksAreExclusive ==
    \A r, q \in Requests :
        r # q /\ InProgress(r) /\ InProgress(q) => request[r].locks \cap request[q].locks = {}
HeldRowsAreOpen ==
    \A r \in Requests : InProgress(r) =>
        /\ \A i \in request[r].locks : i \in Created /\ IsOpen(i)
        /\ request[r].op = "accept" => request[r].locks = {request[r].token}
        /\ request[r].op = "revoke" => request[r].token \in Created
        /\ request[r].op = "create" => request[r].seen \subseteq Created

(* A User that has been inserted and not yet committed is the only one of   *)
(* its address.                                                             *)
Inserted(r) == DoingStep(r, "accept", "inserted")
InsertsAreAlone ==
    \A r \in Requests : Inserted(r) =>
        /\ account[AddressOf(r)] = None
        /\ \A q \in Requests : Inserted(q) /\ AddressOf(q) = AddressOf(r) => q = r

IInv ==
    /\ TypeOK /\ OneAccountPerAcceptance
    /\ LocksAreExclusive /\ HeldRowsAreOpen /\ InsertsAreAlone

LEMMA InitIInv == Init => IInv
  BY NoneAssumption DEF Init, IInv, TypeOK, OneAccountPerAcceptance, LocksAreExclusive,
     HeldRowsAreOpen, InsertsAreAlone, Inserted, DoingStep, Doing, InProgress, Created

(* A step that only starts, refreshes or ends a request.                    *)
LEMMA RequestStep ==
  ASSUME IInv, NEW r \in Requests,
         NEW req \in Creation \cup Acceptance \cup Revocation \cup {None},
         request' = [request EXCEPT ![r] = req],
         UNCHANGED <<invitation, account>>,
         req # None =>
            /\ \A i \in req.locks : i \in Created /\ IsOpen(i) /\ ~Blocked(r, i)
            /\ req.op = "accept" => req.locks = {req.token}
            /\ req.op = "revoke" => req.token \in Created
            /\ req.op = "create" => req.seen \subseteq Created
            /\ req.op = "accept" /\ req.step = "inserted" =>
                  /\ account[invitation[req.token].email] = None
                  /\ \A q \in Requests :
                        Inserted(q) => AddressOf(q) # invitation[req.token].email
  PROVE  IInv'
  <1>1. TypeOK'
    BY DEF IInv, TypeOK
  <1>2. OneAccountPerAcceptance'
    BY DEF IInv, OneAccountPerAcceptance, Created
  <1>3. LocksAreExclusive'
    <2> SUFFICES ASSUME NEW a \in Requests, NEW b \in Requests, a # b,
                        InProgress(a)', InProgress(b)',
                        NEW i \in request'[a].locks, i \in request'[b].locks
                 PROVE  FALSE
      BY DEF LocksAreExclusive
    <2>1. CASE a # r /\ b # r
      BY <2>1 DEF IInv, TypeOK, LocksAreExclusive, InProgress
    <2>2. CASE a = r
      BY <2>2 DEF IInv, TypeOK, InProgress, Blocked
    <2>3. CASE b = r
      BY <2>3 DEF IInv, TypeOK, InProgress, Blocked
    <2>4. QED
      BY <2>1, <2>2, <2>3
  <1>4. HeldRowsAreOpen'
    BY DEF IInv, TypeOK, HeldRowsAreOpen, InProgress, Created, IsOpen
  <1>5. InsertsAreAlone'
    <2>1. \A q \in Requests \ {r} :
             (Inserted(q)' <=> Inserted(q)) /\ AddressOf(q)' = AddressOf(q)
      BY DEF IInv, TypeOK, Inserted, DoingStep, Doing, InProgress, AddressOf
    <2>2. Inserted(r)' =>
             /\ account[AddressOf(r)'] = None
             /\ \A q \in Requests : Inserted(q) => AddressOf(q) # AddressOf(r)'
      BY DEF IInv, TypeOK, Inserted, DoingStep, Doing, InProgress, AddressOf
    <2>3. QED
      BY <2>1, <2>2 DEF IInv, InsertsAreAlone
  <1>6. QED
    BY <1>1, <1>2, <1>3, <1>4, <1>5 DEF IInv

(* What a request holds stays open, and nobody else holds it.               *)
LEMMA OwnLocks ==
  ASSUME IInv, NEW r \in Requests, InProgress(r)
  PROVE  \A i \in request[r].locks : i \in Created /\ IsOpen(i) /\ ~Blocked(r, i)
  BY DEF IInv, HeldRowsAreOpen, LocksAreExclusive, Blocked

(* A request ends: the Users that others have inserted are still alone.     *)
LEMMA InsertsStay ==
  ASSUME IInv, NEW r \in Requests, Finish(r),
         \A j \in Created : invitation'[j].email = invitation[j].email,
         \A q \in Requests \ {r} :
            Inserted(q) => account'[AddressOf(q)] = account[AddressOf(q)]
  PROVE  InsertsAreAlone'
  <1>1. /\ ~Inserted(r)'
        /\ \A q \in Requests \ {r} : request'[q] = request[q]
    BY DEF IInv, TypeOK, Finish, Inserted, DoingStep, Doing, InProgress
  <1>2. \A q \in Requests : Inserted(q) => request[q].token \in Created
    BY DEF IInv, HeldRowsAreOpen, Inserted, DoingStep, Doing, InProgress
  <1>3. \A q \in Requests : Inserted(q)' => Inserted(q) /\ AddressOf(q)' = AddressOf(q)
    BY <1>1, <1>2 DEF Inserted, DoingStep, Doing, InProgress, AddressOf
  <1>4. QED
    BY <1>1, <1>3 DEF IInv, InsertsAreAlone

(* The requests that start or wait, and those that roll back.               *)
LEMMA StartsKeepIInv ==
  ASSUME IInv, NEW r \in Requests,
         \/ \E e \in Emails : StartCreate(r, e)
         \/ ReadOpen(r)
         \/ \E i \in Tokens : LockNext(r, i) \/ StartAccept(r, i) \/ StartRevoke(r, i)
         \/ InsertUser(r)
         \/ Abort(r)
  PROVE  IInv'
  <1>1. ASSUME NEW e \in Emails, StartCreate(r, e)
        PROVE  IInv'
    <2> DEFINE req == [op |-> "create", step |-> "checked", email |-> e,
                       seen |-> {}, locks |-> {}]
    <2>1. req \in Creation
      BY DEF Creation
    <2>2. QED
      BY <1>1, <2>1, RequestStep DEF StartCreate, Begin
  <1>2. CASE ReadOpen(r)
    <2> DEFINE open == OpenFor(request[r].email)
               req == [request[r] EXCEPT !.step = "locking", !.seen = open]
    <2>1. request[r] \in Creation /\ InProgress(r)
      BY <1>2 DEF IInv, TypeOK, ReadOpen, Doing, InProgress, Creation, Acceptance,
         Revocation
    <2>2. open \in SUBSET Tokens /\ open \subseteq Created
      BY DEF OpenFor, Created
    <2>3. /\ req \in Creation /\ req.locks = request[r].locks /\ req.op = "create"
          /\ req.seen = open
      BY <2>1, <2>2 DEF Creation
    <2>4. request' = [request EXCEPT ![r] = req]
      BY <1>2, <2>1 DEF ReadOpen, IInv, TypeOK, Creation
    <2>5. \A i \in request[r].locks : i \in Created /\ IsOpen(i) /\ ~Blocked(r, i)
      BY <2>1, OwnLocks
    <2>6. QED
      BY <1>2, <2>2, <2>3, <2>4, <2>5, RequestStep DEF ReadOpen
  <1>l. ASSUME NEW i \in Tokens, LockNext(r, i)
        PROVE  IInv'
    <2> DEFINE seen == request[r].seen \ {i}
               held == IF IsOpen(i) THEN request[r].locks \cup {i} ELSE request[r].locks
               req == [request[r] EXCEPT !.seen = seen, !.locks = held]
    <2>1. request[r] \in Creation /\ InProgress(r) /\ request[r].op = "create"
      BY <1>l DEF IInv, TypeOK, LockNext, Doing, InProgress, Creation, Acceptance,
         Revocation
    <2>2. request[r].seen \subseteq Created
      BY <2>1 DEF IInv, HeldRowsAreOpen
    <2>3. i \in Created /\ ~Blocked(r, i) /\ seen \subseteq Created
      BY <1>l, <2>2 DEF LockNext
    <2>4. seen \in SUBSET Tokens /\ held \in SUBSET Tokens
      BY <2>1 DEF Creation
    <2>5. req \in Creation /\ req.locks = held /\ req.op = "create" /\ req.seen = seen
      BY <2>1, <2>4 DEF Creation
    <2>6. request' = [request EXCEPT ![r] = req]
      BY <1>l, <2>1 DEF LockNext, IInv, TypeOK, Creation
    <2>7. \A j \in held : j \in Created /\ IsOpen(j) /\ ~Blocked(r, j)
      BY <2>1, <2>3, OwnLocks
    <2> HIDE DEF seen, held, req
    <2>8. QED
      BY <1>l, <2>3, <2>5, <2>6, <2>7, RequestStep DEF LockNext
  <1>u. CASE InsertUser(r)
    <2> DEFINE req == [request[r] EXCEPT !.step = "inserted"]
    <2>1. request[r] \in Acceptance /\ InProgress(r)
      BY <1>u DEF IInv, TypeOK, InsertUser, DoingStep, Doing, InProgress, Creation,
         Revocation
    <2>2. /\ req \in Acceptance /\ req.locks = request[r].locks /\ req.op = "accept"
          /\ req.token = request[r].token
      BY <2>1 DEF Acceptance
    <2>3. request' = [request EXCEPT ![r] = req]
      BY <1>u, <2>1 DEF InsertUser, IInv, TypeOK, Acceptance
    <2>4. \A i \in request[r].locks : i \in Created /\ IsOpen(i) /\ ~Blocked(r, i)
      BY <2>1, OwnLocks
    <2>5. request[r].locks = {request[r].token}
      BY <2>1 DEF IInv, HeldRowsAreOpen, Acceptance
    <2>6. /\ account[invitation[req.token].email] = None
          /\ \A q \in Requests : Inserted(q) => AddressOf(q) # invitation[req.token].email
      BY <1>u, <2>2 DEF InsertUser, Inserted, AddressOf
    <2> HIDE DEF req
    <2>7. QED
      BY <1>u, <2>2, <2>3, <2>4, <2>5, <2>6, RequestStep DEF InsertUser
  <1>3. ASSUME NEW i \in Tokens, StartAccept(r, i)
        PROVE  IInv'
    <2> DEFINE req == [op |-> "accept", step |-> "locked", token |-> i, locks |-> {i}]
    <2>1. req \in Acceptance
      BY DEF Acceptance
    <2>2. QED
      BY <1>3, <2>1, RequestStep DEF StartAccept, Begin, IsUsable
  <1>4. ASSUME NEW i \in Tokens, StartRevoke(r, i)
        PROVE  IInv'
    <2> DEFINE req == [op |-> "revoke", token |-> i, locks |-> {}]
    <2>1. req \in Revocation
      BY DEF Revocation
    <2>2. QED
      BY <1>4, <2>1, RequestStep DEF StartRevoke, Begin
  <1>5. CASE Abort(r)
    BY <1>5, RequestStep DEF Abort, Finish
  <1>6. QED
    BY <1>1, <1>2, <1>l, <1>u, <1>3, <1>4, <1>5

(* The rows other transactions hold are not the ones a committing request   *)
(* writes.                                                                  *)
LEMMA CreateKeepsIInv ==
  ASSUME IInv, NEW r \in Requests, NEW i \in Tokens, CommitCreate(r, i)
  PROVE  IInv'
  <1> USE DEF IInv
  <1>1. request[r] \in Creation /\ InProgress(r)
    BY DEF CommitCreate, Locked, Doing, InProgress, TypeOK, Acceptance, Revocation
  <1>2. \A j \in request[r].locks : j \in Created /\ IsOpen(j)
    BY <1>1 DEF HeldRowsAreOpen
  <1>3. i \notin Created
    BY DEF CommitCreate, Created
  <1> DEFINE row == [email |-> request[r].email, accepted_at |-> FALSE,
                     revoked_at |-> FALSE, expired |-> FALSE]
             Replaced(j) == [invitation[j] EXCEPT !.revoked_at = TRUE]
  <1>w. invitation' = [j \in Tokens |-> IF j = i THEN row
                                        ELSE IF j \in request[r].locks THEN Replaced(j)
                                        ELSE invitation[j]]
    BY DEF CommitCreate
  <1>n. row \in Invitation /\ row # None
    <2>1. request[r].email \in Emails
      BY <1>1 DEF Creation
    <2>2. row \in Invitation
      BY <2>1 DEF Invitation
    <2>3. QED
      BY <2>2, NoneAssumption
  <1>o. \A j \in request[r].locks :
           /\ Replaced(j) \in Invitation /\ Replaced(j) # None
           /\ Replaced(j).email = invitation[j].email
           /\ Replaced(j).accepted_at = invitation[j].accepted_at
    <2> TAKE j \in request[r].locks
    <2>1. invitation[j] \in Invitation
      BY <1>2 DEF TypeOK, Created
    <2>2. /\ Replaced(j) \in Invitation
          /\ Replaced(j).email = invitation[j].email
          /\ Replaced(j).accepted_at = invitation[j].accepted_at
      BY <2>1 DEF Invitation
    <2>3. QED
      BY <2>2, NoneAssumption
  <1> HIDE DEF row, Replaced
  <1>4. TypeOK'
    <2>1. \A j \in Tokens : invitation'[j] \in Invitation \cup {None}
      BY <1>w, <1>n, <1>o DEF TypeOK
    <2>2. invitation' \in [Tokens -> Invitation \cup {None}]
      BY <2>1, <1>w
    <2>3. account' \in [Emails -> Tokens \cup {None}]
      BY DEF CommitCreate, TypeOK
    <2>4. request' \in [Requests -> Creation \cup Acceptance \cup Revocation \cup {None}]
      BY DEF CommitCreate, Finish, TypeOK
    <2>5. QED
      BY <2>2, <2>3, <2>4 DEF TypeOK
  <1>5. /\ Created' = Created \cup {i}
        /\ \A j \in Created : /\ invitation'[j].email = invitation[j].email
                              /\ invitation'[j].accepted_at = invitation[j].accepted_at
        /\ ~invitation'[i].accepted_at
    <2>1. invitation'[i] = row /\ ~row.accepted_at
      BY <1>w DEF row
    <2>2. \A j \in Created \cap request[r].locks :
             j # i /\ invitation'[j] = Replaced(j)
      BY <1>3, <1>w DEF Created
    <2>3. \A j \in Tokens \ request[r].locks : j # i => invitation'[j] = invitation[j]
      BY <1>w
    <2>4. \A j \in Tokens : (invitation'[j] # None) <=> (invitation[j] # None \/ j = i)
      BY <2>1, <2>2, <2>3, <1>2, <1>n, <1>o DEF Created
    <2>5. Created' = Created \cup {i}
      BY <2>4 DEF Created
    <2>6. \A j \in Created : /\ invitation'[j].email = invitation[j].email
                             /\ invitation'[j].accepted_at = invitation[j].accepted_at
      BY <2>2, <2>3, <1>3, <1>o DEF Created
    <2>7. QED
      BY <2>1, <2>5, <2>6
  <1>6. OneAccountPerAcceptance'
    <2>1. account' = account
      BY DEF CommitCreate
    <2>2. \A j \in Created' : invitation'[j].accepted_at => account'[invitation'[j].email] = j
      BY <2>1, <1>5 DEF OneAccountPerAcceptance
    <2>3. \A e \in Emails : account'[e] # None =>
             /\ account'[e] \in Created'
             /\ invitation'[account'[e]].email = e
             /\ invitation'[account'[e]].accepted_at
      BY <2>1, <1>5 DEF OneAccountPerAcceptance
    <2>4. QED
      BY <2>2, <2>3 DEF OneAccountPerAcceptance
  <1>7. LocksAreExclusive'
    BY DEF CommitCreate, Finish, LocksAreExclusive, InProgress, TypeOK
  <1>8. HeldRowsAreOpen'
    <2> SUFFICES ASSUME NEW q \in Requests, InProgress(q)'
                 PROVE  /\ \A j \in request[q].locks : j \in Created' /\ IsOpen(j)'
                        /\ request[q].op = "accept" => request[q].locks = {request[q].token}
                        /\ request[q].op = "revoke" => request[q].token \in Created'
                        /\ request[q].op = "create" => request[q].seen \subseteq Created'
                        /\ request'[q] = request[q]
      BY DEF HeldRowsAreOpen
    <2>1. q # r /\ InProgress(q) /\ request'[q] = request[q]
      BY DEF CommitCreate, Finish, InProgress, TypeOK
    <2>2. \A j \in request[q].locks : j \notin request[r].locks
      BY <1>1, <2>1 DEF LocksAreExclusive
    <2>3. \A j \in request[q].locks : j \in Created /\ j # i /\ IsOpen(j)
      BY <1>3, <2>1 DEF HeldRowsAreOpen
    <2>4. \A j \in request[q].locks : j \in Created' /\ IsOpen(j)'
      BY <2>2, <2>3, <1>5 DEF IsOpen, CommitCreate, Created, TypeOK
    <2>5. QED
      BY <2>1, <2>4, <1>5 DEF HeldRowsAreOpen
  <1>9. InsertsAreAlone'
    BY <1>5, InsertsStay DEF CommitCreate
  <1>10. QED
    BY <1>4, <1>6, <1>7, <1>8, <1>9

LEMMA AcceptKeepsIInv ==
  ASSUME IInv, NEW r \in Requests, CommitAccept(r)
  PROVE  IInv'
  <1> USE DEF IInv
  <1> DEFINE t == request[r].token
             e == invitation[t].email
  <1>1. request[r] \in Acceptance /\ InProgress(r)
    BY DEF CommitAccept, DoingStep, Doing, InProgress, TypeOK, Creation, Revocation
  <1>2. /\ t \in Created /\ IsOpen(t) /\ t \in request[r].locks
        /\ t \in Tokens /\ invitation[t] \in Invitation /\ e \in Emails
    BY <1>1 DEF HeldRowsAreOpen, Acceptance, Created, TypeOK, Invitation
  <1>3. TypeOK'
    BY <1>1, <1>2 DEF CommitAccept, AddressOf, Finish, TypeOK, Invitation
  <1>4. /\ Created' = Created
        /\ \A j \in Created : invitation'[j].email = invitation[j].email
        /\ \A j \in Created \ {t} : invitation'[j] = invitation[j]
        /\ invitation'[t].accepted_at
    <2>1. invitation' = [invitation EXCEPT ![t] = [invitation[t] EXCEPT !.accepted_at = TRUE]]
      BY DEF CommitAccept
    <2>2. /\ invitation'[t].email = invitation[t].email
          /\ invitation'[t].accepted_at
          /\ invitation'[t] \in Invitation
      BY <1>2, <2>1 DEF TypeOK, Invitation
    <2>3. \A j \in Tokens \ {t} : invitation'[j] = invitation[j]
      BY <2>1 DEF TypeOK
    <2>4. invitation[t] # None /\ invitation'[t] # None
      BY <1>2, <2>2, NoneAssumption
    <2>5. QED
      BY <1>2, <2>2, <2>3, <2>4 DEF Created
  <1>5. OneAccountPerAcceptance'
    <2>1. \A j \in Created : invitation[j].email = e => ~invitation[j].accepted_at
      <3>1. account[e] = None
        BY DEF InsertsAreAlone, Inserted, AddressOf, CommitAccept
      <3>2. QED
        BY <3>1, NoneAssumption DEF OneAccountPerAcceptance, Created
    <2>2. account' = [account EXCEPT ![e] = t]
      BY DEF CommitAccept, AddressOf
    <2>3. \A j \in Created' :
             invitation'[j].accepted_at => account'[invitation'[j].email] = j
      BY <1>2, <1>4, <2>1, <2>2 DEF OneAccountPerAcceptance, TypeOK, Created, Invitation
    <2>4. \A x \in Emails : account'[x] # None =>
             /\ account'[x] \in Created'
             /\ invitation'[account'[x]].email = x
             /\ invitation'[account'[x]].accepted_at
      BY <1>2, <1>4, <2>2 DEF OneAccountPerAcceptance, TypeOK, Created
    <2>5. QED
      BY <2>3, <2>4 DEF OneAccountPerAcceptance
  <1>6. LocksAreExclusive'
    BY DEF CommitAccept, Finish, LocksAreExclusive, InProgress, TypeOK
  <1>7. HeldRowsAreOpen'
    <2> SUFFICES ASSUME NEW q \in Requests, InProgress(q)'
                 PROVE  /\ \A j \in request[q].locks : j \in Created' /\ IsOpen(j)'
                        /\ request[q].op = "accept" => request[q].locks = {request[q].token}
                        /\ request[q].op = "revoke" => request[q].token \in Created'
                        /\ request[q].op = "create" => request[q].seen \subseteq Created'
                        /\ request'[q] = request[q]
      BY DEF HeldRowsAreOpen
    <2>1. q # r /\ InProgress(q) /\ request'[q] = request[q]
      BY DEF CommitAccept, Finish, InProgress, TypeOK
    <2>2. \A j \in request[q].locks : j # t
      BY <1>1, <1>2, <2>1 DEF LocksAreExclusive
    <2>3. QED
      BY <1>4, <2>1, <2>2 DEF HeldRowsAreOpen, IsOpen
  <1>8. InsertsAreAlone'
    <2>1. \A q \in Requests \ {r} : Inserted(q) => AddressOf(q) # e
      BY DEF InsertsAreAlone, CommitAccept, Inserted, AddressOf
    <2>2. \A q \in Requests \ {r} : Inserted(q) => account'[AddressOf(q)] = account[AddressOf(q)]
      BY <2>1 DEF CommitAccept, AddressOf, TypeOK
    <2>3. QED
      BY <1>4, <2>2, InsertsStay DEF CommitAccept
  <1>9. QED
    BY <1>3, <1>5, <1>6, <1>7, <1>8

LEMMA RevokeKeepsIInv ==
  ASSUME IInv, NEW r \in Requests, CommitRevoke(r)
  PROVE  IInv'
  <1> USE DEF IInv
  <1> DEFINE t == request[r].token
  <1>1. request[r] \in Revocation /\ InProgress(r)
    BY DEF CommitRevoke, Doing, InProgress, TypeOK, Creation, Acceptance
  <1>2. t \in Created /\ t \in Tokens /\ invitation[t] \in Invitation
    BY <1>1 DEF HeldRowsAreOpen, Revocation, Created, TypeOK
  <1>3. invitation' = [invitation EXCEPT ![t] = [invitation[t] EXCEPT !.revoked_at = TRUE]]
    BY DEF CommitRevoke
  <1>4. /\ invitation'[t].email = invitation[t].email
        /\ invitation'[t].accepted_at = invitation[t].accepted_at
        /\ invitation'[t] \in Invitation /\ invitation'[t] # None
    BY <1>2, <1>3, NoneAssumption DEF TypeOK, Invitation
  <1>5. \A j \in Tokens \ {t} : invitation'[j] = invitation[j]
    BY <1>3 DEF TypeOK
  <1>6. Created' = Created
    BY <1>2, <1>4, <1>5, NoneAssumption DEF Created
  <1>7. TypeOK'
    BY <1>2, <1>3, <1>4, <1>5 DEF CommitRevoke, Finish, TypeOK
  <1>8. OneAccountPerAcceptance'
    BY <1>2, <1>4, <1>5, <1>6 DEF OneAccountPerAcceptance, TypeOK, CommitRevoke, Created
  <1>9. LocksAreExclusive'
    BY DEF CommitRevoke, Finish, LocksAreExclusive, InProgress, TypeOK
  <1>10. HeldRowsAreOpen'
    <2> SUFFICES ASSUME NEW q \in Requests, InProgress(q)'
                 PROVE  /\ \A j \in request[q].locks : j \in Created' /\ IsOpen(j)'
                        /\ request[q].op = "accept" => request[q].locks = {request[q].token}
                        /\ request[q].op = "revoke" => request[q].token \in Created'
                        /\ request[q].op = "create" => request[q].seen \subseteq Created'
                        /\ request'[q] = request[q]
      BY DEF HeldRowsAreOpen
    <2>1. q # r /\ InProgress(q) /\ request'[q] = request[q]
      BY DEF CommitRevoke, Finish, InProgress, TypeOK
    <2>2. \A j \in request[q].locks : j # t
      BY <2>1 DEF CommitRevoke, Blocked
    <2>3. QED
      BY <1>5, <1>6, <2>1, <2>2 DEF HeldRowsAreOpen, IsOpen, Created
  <1>11. InsertsAreAlone'
    BY <1>4, <1>5, InsertsStay DEF CommitRevoke, Created
  <1>12. QED
    BY <1>7, <1>8, <1>9, <1>10, <1>11

LEMMA ExpireKeepsIInv ==
  ASSUME IInv, NEW i \in Tokens, Expire(i)
  PROVE  IInv'
  <1> USE DEF IInv
  <1>1. invitation[i] \in Invitation
    BY DEF Expire, Created, TypeOK
  <1>2. invitation' = [invitation EXCEPT ![i] = [invitation[i] EXCEPT !.expired = TRUE]]
    BY DEF Expire
  <1>3. /\ invitation'[i].email = invitation[i].email
        /\ invitation'[i].accepted_at = invitation[i].accepted_at
        /\ invitation'[i].revoked_at = invitation[i].revoked_at
        /\ invitation'[i] \in Invitation /\ invitation'[i] # None
    BY <1>1, <1>2, NoneAssumption DEF TypeOK, Invitation
  <1>4. \A j \in Tokens \ {i} : invitation'[j] = invitation[j]
    BY <1>2 DEF TypeOK
  <1>5. Created' = Created
    BY <1>3, <1>4 DEF Created, Expire
  <1>6. TypeOK'
    BY <1>2, <1>3, <1>4 DEF Expire, TypeOK
  <1>7. OneAccountPerAcceptance'
    BY <1>3, <1>4, <1>5 DEF OneAccountPerAcceptance, Expire, Created
  <1>8. LocksAreExclusive' /\ HeldRowsAreOpen'
    BY <1>3, <1>4, <1>5
       DEF LocksAreExclusive, HeldRowsAreOpen, InProgress, IsOpen, Created, Expire
  <1>9. InsertsAreAlone'
    BY <1>3, <1>4
       DEF InsertsAreAlone, Inserted, DoingStep, Doing, InProgress, AddressOf, Expire,
           HeldRowsAreOpen, Created
  <1>10. QED
    BY <1>6, <1>7, <1>8, <1>9

LEMMA NextKeepsIInv == IInv /\ [Next]_vars => IInv'
  <1> SUFFICES ASSUME IInv, [Next]_vars
               PROVE  IInv'
    OBVIOUS
  <1>1. ASSUME NEW r \in Requests,
               \/ \E e \in Emails : StartCreate(r, e)
               \/ ReadOpen(r)
               \/ \E i \in Tokens :
                     LockNext(r, i) \/ StartAccept(r, i) \/ StartRevoke(r, i)
               \/ InsertUser(r)
               \/ RefusedAccept(r) \/ OutOfTokens(r)
               \/ Abort(r)
        PROVE  IInv'
    BY <1>1, StartsKeepIInv DEF RefusedAccept, OutOfTokens
  <1>2. ASSUME NEW r \in Requests, NEW i \in Tokens, CommitCreate(r, i)
        PROVE  IInv'
    BY <1>2, CreateKeepsIInv
  <1>3. ASSUME NEW r \in Requests, CommitAccept(r)
        PROVE  IInv'
    BY <1>3, AcceptKeepsIInv
  <1>4. ASSUME NEW r \in Requests, CommitRevoke(r)
        PROVE  IInv'
    BY <1>4, RevokeKeepsIInv
  <1>5. ASSUME NEW i \in Tokens, Expire(i)
        PROVE  IInv'
    BY <1>5, ExpireKeepsIInv
  <1>6. CASE UNCHANGED vars
    BY <1>6 DEF vars, IInv, TypeOK, OneAccountPerAcceptance, LocksAreExclusive,
       HeldRowsAreOpen, InsertsAreAlone, Inserted, DoingStep, Doing, AddressOf, InProgress,
       Created, IsOpen
  <1>7. QED
    BY <1>1, <1>2, <1>3, <1>4, <1>5, <1>6 DEF Next

LEMMA Invariance == Spec => []IInv
  BY InitIInv, NextKeepsIInv, PTL DEF Spec

(* Type correctness of the invitation tables and transactions.              *)
THEOREM TypeCorrect == Spec => []TypeOK
  BY Invariance, PTL DEF IInv

(* Accounts and accepted invitations match one to one, for any number of    *)
(* concurrent creations, acceptances and revocations.                       *)
THEOREM OneAccount == Spec => []OneAccountPerAcceptance
  BY Invariance, PTL DEF IInv

(* A step that accepts an invitation accepts one that is not revoked.       *)
THEOREM NeverAcceptedAfterRevocation == Spec => RevokedIsNeverAccepted
  <1> DEFINE A == \A i \in Created :
                     ~invitation[i].accepted_at /\ invitation'[i].accepted_at
                     => ~invitation[i].revoked_at
  <1>1. IInv /\ [Next]_vars => [A]_vars
    <2> SUFFICES ASSUME IInv, Next, NEW i \in Created,
                        ~invitation[i].accepted_at, invitation'[i].accepted_at
                 PROVE  ~invitation[i].revoked_at
      OBVIOUS
    <2> USE DEF IInv
    <2>1. i \in Tokens /\ invitation[i] \in Invitation
      BY DEF Created, TypeOK
    <2>2. ASSUME NEW r \in Requests, CommitAccept(r)
          PROVE  ~invitation[i].revoked_at
      <3>1. request[r].token \in Created /\ IsOpen(request[r].token)
        BY <2>2 DEF HeldRowsAreOpen, CommitAccept, DoingStep, Doing, InProgress
      <3>2. i = request[r].token
        BY <2>1, <2>2 DEF CommitAccept, TypeOK
      <3>3. QED
        BY <3>1, <3>2 DEF IsOpen
    <2>3. ASSUME NEW r \in Requests, NEW j \in Tokens, CommitCreate(r, j)
          PROVE  FALSE
      <3>1. j # i
        BY <2>3 DEF CommitCreate, Created
      <3>2. invitation'[i] = invitation[i]
            \/ invitation'[i] = [invitation[i] EXCEPT !.revoked_at = TRUE]
        BY <2>1, <2>3, <3>1 DEF CommitCreate
      <3>3. QED
        BY <2>1, <3>2 DEF Invitation
    <2>4. ASSUME NEW r \in Requests, CommitRevoke(r)
          PROVE  FALSE
      <3>1. invitation'[i] = invitation[i]
            \/ invitation'[i] = [invitation[i] EXCEPT !.revoked_at = TRUE]
        BY <2>1, <2>4 DEF CommitRevoke, TypeOK
      <3>2. QED
        BY <2>1, <3>1 DEF Invitation
    <2>5. ASSUME NEW j \in Tokens, Expire(j)
          PROVE  FALSE
      <3>1. invitation'[i] = invitation[i]
            \/ invitation'[i] = [invitation[i] EXCEPT !.expired = TRUE]
        BY <2>1, <2>5 DEF Expire, TypeOK
      <3>2. QED
        BY <2>1, <3>1 DEF Invitation
    <2>6. ASSUME UNCHANGED invitation
          PROVE  FALSE
      BY <2>6
    <2>7. QED
      BY <2>2, <2>3, <2>4, <2>5, <2>6
         DEF Next, StartCreate, ReadOpen, LockNext, InsertUser, StartAccept, StartRevoke,
             Begin, Abort, RefusedAccept, OutOfTokens
  <1>2. QED
    BY <1>1, Invariance, PTL DEF Spec, RevokedIsNeverAccepted

-----------------------------------------------------------------------------
(* One request after another: what the request in progress has read is what *)
(* the tables still hold.                                                   *)
ReadIsCurrent ==
    \A r \in Requests : InProgress(r) =>
        /\ request[r].op = "create" =>
              /\ account[request[r].email] = None
              /\ request[r].step = "checked" => request[r].locks = {} /\ request[r].seen = {}
              /\ request[r].step = "locking" =>
                    request[r].locks \cup request[r].seen = OpenFor(request[r].email)
        /\ request[r].op = "revoke" => ~invitation[request[r].token].accepted_at

SerialInv == IInv /\ AcceptedIsNeverRevoked /\ OneWayIn /\ ReadIsCurrent

(* A step that changes no row.                                              *)
LEMMA SerialRequestStep ==
  ASSUME SerialInv, IInv', OneBusy', NEW r \in Requests,
         UNCHANGED <<invitation, account>>,
         InProgress(r)' =>
            /\ request'[r].op = "create" =>
                  /\ account[request'[r].email] = None
                  /\ request'[r].step = "checked" =>
                        request'[r].locks = {} /\ request'[r].seen = {}
                  /\ request'[r].step = "locking" =>
                        request'[r].locks \cup request'[r].seen = OpenFor(request'[r].email)
            /\ request'[r].op = "revoke" => ~invitation[request'[r].token].accepted_at,
         \A q \in Requests \ {r} : request'[q] = request[q]
  PROVE  SerialInv'
  <1>1. AcceptedIsNeverRevoked' /\ OneWayIn'
    BY DEF SerialInv, AcceptedIsNeverRevoked, OneWayIn, OpenFor, Created, IsOpen
  <1>2. \A e : OpenFor(e)' = OpenFor(e)
    BY DEF OpenFor, Created, IsOpen
  <1>3. ReadIsCurrent'
    BY <1>2 DEF SerialInv, ReadIsCurrent, InProgress
  <1>4. QED
    BY <1>1, <1>3 DEF SerialInv

LEMMA SerialStart ==
  ASSUME SerialInv, IInv', OneBusy', NEW r \in Requests,
         \/ \E e \in Emails : StartCreate(r, e)
         \/ ReadOpen(r)
         \/ \E i \in Tokens : LockNext(r, i) \/ StartAccept(r, i) \/ StartRevoke(r, i)
         \/ InsertUser(r)
         \/ Abort(r)
  PROVE  SerialInv'
  <1>t. request \in [Requests -> Creation \cup Acceptance \cup Revocation \cup {None}]
    BY DEF SerialInv, IInv, TypeOK
  <1>1. ASSUME NEW e \in Emails, StartCreate(r, e)
        PROVE  SerialInv'
    BY <1>t, <1>1, SerialRequestStep DEF StartCreate, Begin
  <1>2. CASE ReadOpen(r)
    <2>1. request[r] \in Creation /\ InProgress(r) /\ request[r].op = "create"
      BY <1>t, <1>2 DEF ReadOpen, Doing, InProgress, Creation, Acceptance, Revocation
    <2>2. request' = [request EXCEPT ![r] = [request[r] EXCEPT
                         !.step = "locking", !.seen = OpenFor(request[r].email)]]
      BY <1>2 DEF ReadOpen
    <2>3. /\ request'[r].op = "create" /\ request'[r].email = request[r].email
          /\ request'[r].step = "locking"
          /\ request'[r].locks \cup request'[r].seen = OpenFor(request[r].email)
      <3>1. request[r].step = "checked" => request[r].locks = {}
        BY <2>1 DEF SerialInv, ReadIsCurrent
      <3>2. QED
        BY <1>t, <1>2, <2>1, <2>2, <3>1 DEF Creation, ReadOpen
    <2>4. \A q \in Requests \ {r} : request'[q] = request[q]
      BY <1>t, <2>2
    <2>5. account[request[r].email] = None
      BY <2>1 DEF SerialInv, ReadIsCurrent
    <2>6. QED
      BY <1>2, <2>3, <2>4, <2>5, SerialRequestStep DEF ReadOpen
  <1>l. ASSUME NEW i \in Tokens, LockNext(r, i)
        PROVE  SerialInv'
    <2> DEFINE open == OpenFor(request[r].email)
               held == IF IsOpen(i) THEN request[r].locks \cup {i} ELSE request[r].locks
    <2>1. request[r] \in Creation /\ InProgress(r) /\ request[r].op = "create"
      BY <1>t, <1>l DEF LockNext, Doing, InProgress, Creation, Acceptance, Revocation
    <2>2. /\ account[request[r].email] = None
          /\ request[r].step = "checked" => request[r].seen = {}
          /\ request[r].step = "locking" => request[r].locks \cup request[r].seen = open
      BY <2>1 DEF SerialInv, ReadIsCurrent
    <2>3. request[r].step = "locking" /\ i \in request[r].seen /\ IsOpen(i)
      BY <1>l, <2>1, <2>2 DEF LockNext, Creation, OpenFor
    <2>4. request' = [request EXCEPT ![r] = [request[r] EXCEPT
                         !.seen = request[r].seen \ {i}, !.locks = held]]
      BY <1>l DEF LockNext
    <2>5. /\ request'[r].op = "create" /\ request'[r].email = request[r].email
          /\ request'[r].step = "locking"
          /\ request'[r].seen = request[r].seen \ {i}
          /\ request'[r].locks = request[r].locks \cup {i}
      BY <1>t, <2>1, <2>3, <2>4 DEF Creation
    <2>6. request'[r].locks \cup request'[r].seen = open
      BY <2>2, <2>3, <2>5
    <2>7. \A q \in Requests \ {r} : request'[q] = request[q]
      BY <1>t, <2>4
    <2>8. QED
      BY <1>l, <2>2, <2>5, <2>6, <2>7, SerialRequestStep DEF LockNext
  <1>u. CASE InsertUser(r)
    <2>1. request[r] \in Acceptance
      BY <1>t, <1>u DEF InsertUser, DoingStep, Doing, InProgress, Creation, Revocation
    <2>2. request' = [request EXCEPT ![r] = [request[r] EXCEPT !.step = "inserted"]]
      BY <1>u DEF InsertUser
    <2>3. /\ request'[r].op = "accept"
          /\ \A q \in Requests \ {r} : request'[q] = request[q]
      BY <1>t, <2>1, <2>2 DEF Acceptance
    <2>4. QED
      BY <1>u, <2>3, SerialRequestStep DEF InsertUser
  <1>3. ASSUME NEW i \in Tokens, StartAccept(r, i)
        PROVE  SerialInv'
    BY <1>t, <1>3, SerialRequestStep DEF StartAccept, Begin
  <1>4. ASSUME NEW i \in Tokens, StartRevoke(r, i)
        PROVE  SerialInv'
    BY <1>t, <1>4, SerialRequestStep DEF StartRevoke, Begin
  <1>5. CASE Abort(r)
    BY <1>t, <1>5, SerialRequestStep DEF Abort, Finish, InProgress
  <1>6. QED
    BY <1>1, <1>2, <1>l, <1>u, <1>3, <1>4, <1>5

(* The request in progress has ended: there is none.                        *)
LEMMA NobodyBusy ==
  ASSUME SerialInv, OneBusy, NEW r \in Requests, InProgress(r), Finish(r)
  PROVE  ReadIsCurrent'
  BY DEF SerialInv, IInv, TypeOK, OneBusy, Finish, ReadIsCurrent, InProgress

LEMMA SerialCreate ==
  ASSUME SerialInv, IInv', OneBusy, NEW r \in Requests, NEW i \in Tokens, CommitCreate(r, i)
  PROVE  SerialInv'
  <1>e. request[r] \in Creation /\ InProgress(r)
    BY DEF SerialInv, IInv, TypeOK, CommitCreate, Locked, Doing, InProgress, Acceptance, Revocation
  <1> PICK e \in Emails : e = request[r].email
    BY <1>e DEF Creation
  <1> DEFINE row == [email |-> e, accepted_at |-> FALSE, revoked_at |-> FALSE,
                     expired |-> FALSE]
  <1>1. account[e] = None /\ request[r].locks = OpenFor(e)
    BY <1>e DEF SerialInv, CommitCreate, Locked, Doing, ReadIsCurrent
  <1>2. /\ invitation'[i] = row /\ account' = account
        /\ \A j \in OpenFor(e) \ {i} :
              invitation'[j] = [invitation[j] EXCEPT !.revoked_at = TRUE]
        /\ \A j \in Tokens \ (OpenFor(e) \cup {i}) : invitation'[j] = invitation[j]
    BY <1>1 DEF CommitCreate, OpenFor, Created
  <1>3. \A j \in OpenFor(e) \ {i} :
           /\ invitation'[j].email = e /\ ~invitation'[j].accepted_at
           /\ invitation'[j].revoked_at
    BY <1>2 DEF SerialInv, IInv, TypeOK, OpenFor, Created, IsOpen, Invitation
  <1>4. AcceptedIsNeverRevoked'
    BY <1>2, <1>3 DEF SerialInv, AcceptedIsNeverRevoked, Created
  <1>5. OpenFor(e)' \subseteq {i} /\ \A x \in Emails \ {e} : OpenFor(x)' = OpenFor(x)
    <2>1. invitation[i] = None
      BY DEF CommitCreate
    <2>2. \A j \in Tokens : j \in OpenFor(e)' => j = i
      BY <1>2, <1>3 DEF OpenFor, Created, IsOpen
    <2>3. ASSUME NEW x \in Emails \ {e}, NEW j \in Tokens
          PROVE  j \in OpenFor(x)' <=> j \in OpenFor(x)
      BY <1>2, <1>3, <2>1 DEF OpenFor, Created, IsOpen
    <2>4. QED
      BY <2>2, <2>3 DEF OpenFor, Created
  <1>6. OneWayIn'
    BY <1>1, <1>2, <1>5 DEF SerialInv, OneWayIn
  <1>7. ReadIsCurrent'
    BY <1>e, NobodyBusy DEF CommitCreate
  <1>8. QED
    BY <1>4, <1>6, <1>7 DEF SerialInv

LEMMA SerialAccept ==
  ASSUME SerialInv, IInv', OneBusy, NEW r \in Requests, CommitAccept(r)
  PROVE  SerialInv'
  <1>a. request[r] \in Acceptance /\ InProgress(r)
    BY DEF SerialInv, IInv, TypeOK, CommitAccept, DoingStep, Doing, InProgress, Creation, Revocation
  <1> PICK t \in Tokens : t = request[r].token
    BY <1>a DEF Acceptance
  <1>1. t \in Created /\ IsOpen(t) /\ invitation[t] \in Invitation
    BY <1>a DEF SerialInv, IInv, TypeOK, HeldRowsAreOpen, Acceptance, Created
  <1> PICK e \in Emails : e = invitation[t].email
    BY <1>1 DEF Invitation
  <1>2. /\ invitation' = [invitation EXCEPT ![t] = [invitation[t] EXCEPT !.accepted_at = TRUE]]
        /\ account' = [account EXCEPT ![e] = t]
    BY DEF CommitAccept, AddressOf
  <1>3. /\ invitation'[t].email = e /\ invitation'[t].accepted_at
        /\ ~invitation'[t].revoked_at
        /\ \A j \in Tokens \ {t} : invitation'[j] = invitation[j]
    BY <1>1, <1>2 DEF SerialInv, IInv, TypeOK, Invitation, IsOpen
  <1>4. AcceptedIsNeverRevoked'
    BY <1>3 DEF SerialInv, AcceptedIsNeverRevoked, Created
  <1>5. \A x \in Emails : OpenFor(x)' = OpenFor(x) \ {t}
    BY <1>3 DEF OpenFor, Created, IsOpen
  <1>6. OneWayIn'
    <2>1. t \in OpenFor(e)
      BY <1>1 DEF OpenFor
    <2>2. OpenFor(e)' = {}
      BY <1>5, <2>1 DEF SerialInv, OneWayIn
    <2>3. \A x \in Emails \ {e} : account'[x] = account[x]
      BY <1>2 DEF SerialInv, IInv, TypeOK
    <2>4. QED
      BY <1>5, <2>2, <2>3 DEF SerialInv, OneWayIn
  <1>7. ReadIsCurrent'
    BY <1>a, NobodyBusy DEF CommitAccept
  <1>8. QED
    BY <1>4, <1>6, <1>7 DEF SerialInv

LEMMA SerialRevoke ==
  ASSUME SerialInv, IInv', OneBusy, NEW r \in Requests, CommitRevoke(r)
  PROVE  SerialInv'
  <1> DEFINE t == request[r].token
  <1>1. /\ InProgress(r) /\ t \in Tokens /\ t \in Created /\ ~invitation[t].accepted_at
        /\ invitation[t] \in Invitation
    BY DEF SerialInv, IInv, TypeOK, CommitRevoke, Doing, InProgress, HeldRowsAreOpen, Creation,
       Acceptance, Revocation, Created, ReadIsCurrent
  <1>2. /\ invitation' = [invitation EXCEPT ![t] = [invitation[t] EXCEPT !.revoked_at = TRUE]]
        /\ account' = account
    BY DEF CommitRevoke
  <1>3. /\ ~invitation'[t].accepted_at /\ invitation'[t].revoked_at
        /\ \A j \in Tokens \ {t} : invitation'[j] = invitation[j]
    BY <1>1, <1>2 DEF SerialInv, IInv, TypeOK, Invitation
  <1>4. AcceptedIsNeverRevoked'
    BY <1>3 DEF SerialInv, AcceptedIsNeverRevoked, Created
  <1>5. \A x \in Emails : OpenFor(x)' = OpenFor(x) \ {t}
    BY <1>3 DEF OpenFor, Created, IsOpen
  <1>6. OneWayIn'
    BY <1>2, <1>5 DEF SerialInv, OneWayIn
  <1>7. ReadIsCurrent'
    BY <1>1, NobodyBusy DEF CommitRevoke
  <1>8. QED
    BY <1>4, <1>6, <1>7 DEF SerialInv

(* The expiry of an invitation leaves open what is open.                    *)
LEMMA SerialExpire ==
  ASSUME SerialInv, IInv', NEW i \in Tokens, Expire(i)
  PROVE  SerialInv'
  <1>1. invitation' = [invitation EXCEPT ![i] = [invitation[i] EXCEPT !.expired = TRUE]]
    BY DEF Expire
  <1>2. \A j \in Created :
           /\ invitation'[j].email = invitation[j].email
           /\ invitation'[j].accepted_at = invitation[j].accepted_at
           /\ invitation'[j].revoked_at = invitation[j].revoked_at
    BY <1>1 DEF SerialInv, IInv, TypeOK, Created, Invitation
  <1>3. invitation[i] \in Invitation /\ invitation'[i] \in Invitation
    BY <1>1 DEF SerialInv, IInv, TypeOK, Created, Expire, Invitation
  <1>4. Created' = Created
    BY <1>1, <1>3, NoneAssumption DEF SerialInv, IInv, TypeOK, Created
  <1>5. \A e : OpenFor(e)' = OpenFor(e)
    BY <1>2, <1>4 DEF OpenFor, IsOpen
  <1>6. AcceptedIsNeverRevoked' /\ OneWayIn'
    BY <1>2, <1>4, <1>5 DEF SerialInv, AcceptedIsNeverRevoked, OneWayIn, Expire
  <1>7. \A r \in Requests : InProgress(r) /\ request[r].op = "revoke" =>
           request[r].token \in Created
    BY DEF SerialInv, IInv, HeldRowsAreOpen
  <1>8. ReadIsCurrent'
    BY <1>2, <1>5, <1>7 DEF SerialInv, ReadIsCurrent, InProgress, Expire
  <1>9. QED
    BY <1>6, <1>8 DEF SerialInv

LEMMA SerialStep ==
  ASSUME SerialInv, OneBusy, [Next]_vars, OneBusy'
  PROVE  SerialInv'
  <1>i. IInv'
    BY NextKeepsIInv DEF SerialInv
  <1>1. ASSUME NEW r \in Requests,
               \/ \E e \in Emails : StartCreate(r, e)
               \/ ReadOpen(r)
               \/ \E i \in Tokens :
                     LockNext(r, i) \/ StartAccept(r, i) \/ StartRevoke(r, i)
               \/ InsertUser(r)
               \/ RefusedAccept(r) \/ OutOfTokens(r)
               \/ Abort(r)
        PROVE  SerialInv'
    BY <1>i, <1>1, SerialStart DEF RefusedAccept, OutOfTokens
  <1>2. ASSUME NEW r \in Requests, NEW i \in Tokens, CommitCreate(r, i)
        PROVE  SerialInv'
    BY <1>i, <1>2, SerialCreate
  <1>3. ASSUME NEW r \in Requests, CommitAccept(r)
        PROVE  SerialInv'
    BY <1>i, <1>3, SerialAccept
  <1>4. ASSUME NEW r \in Requests, CommitRevoke(r)
        PROVE  SerialInv'
    BY <1>i, <1>4, SerialRevoke
  <1>5. ASSUME NEW i \in Tokens, Expire(i)
        PROVE  SerialInv'
    BY <1>i, <1>5, SerialExpire
  <1>6. CASE UNCHANGED vars
    <2>1. \A e : OpenFor(e)' = OpenFor(e)
      BY <1>6 DEF vars, OpenFor, Created, IsOpen
    <2>2. AcceptedIsNeverRevoked' /\ OneWayIn' /\ ReadIsCurrent'
      BY <1>6, <2>1 DEF vars, SerialInv, AcceptedIsNeverRevoked, OneWayIn, ReadIsCurrent,
         InProgress, Created
    <2>3. QED
      BY <1>i, <2>2 DEF SerialInv
  <1>7. QED
    BY <1>1, <1>2, <1>3, <1>4, <1>5, <1>6 DEF Next

LEMMA SerialInit == Init => SerialInv /\ OneBusy
  <1>1. Init => AcceptedIsNeverRevoked /\ OneWayIn /\ ReadIsCurrent /\ OneBusy
    BY DEF Init, AcceptedIsNeverRevoked, OneWayIn, ReadIsCurrent, OneBusy, OpenFor, Created,
       InProgress
  <1>2. QED
    BY <1>1, InitIInv DEF SerialInv

(* One request after another, whoever may join has one way in, and no       *)
(* invitation is both accepted and revoked: what create_staff_invitation    *)
(* and revoke_staff_invitation do without a lock is right when they do not  *)
(* overlap.                                                                 *)
THEOREM OneAfterAnother == Spec /\ []OneBusy => [](AcceptedIsNeverRevoked /\ OneWayIn)
  <1>1. SerialInv /\ OneBusy /\ [Next]_vars /\ OneBusy' => SerialInv'
    BY SerialStep
  <1>2. SerialInv => AcceptedIsNeverRevoked /\ OneWayIn
    BY DEF SerialInv
  <1>3. QED
    BY <1>1, <1>2, SerialInit, PTL DEF Spec

(* The same of the behaviours the run looks at.                             *)
LEMMA MCInvariance == MCSpec => [](racing \/ (SerialInv /\ OneBusy))
  <1>1. MCInit => SerialInv /\ OneBusy
    BY SerialInit DEF MCInit
  <1>2. (racing \/ (SerialInv /\ OneBusy)) /\ [MCNext]_<<vars, racing>> =>
           (racing \/ (SerialInv /\ OneBusy))'
    <2> SUFFICES ASSUME SerialInv, OneBusy, [MCNext]_<<vars, racing>>, ~racing
                 PROVE  SerialInv' /\ OneBusy'
      BY DEF MCNext
    <2>1. [Next]_vars
      BY DEF MCNext
    <2>2. OneBusy'
      BY DEF MCNext, OneBusy, InProgress, vars
    <2>3. QED
      BY <2>1, <2>2, SerialStep
  <1>3. QED
    BY <1>1, <1>2, PTL DEF MCSpec

(* An invitation ends one way when requests do not overlap.                 *)
THEOREM SerialOneEnd == MCSpec => []SerialAcceptedIsNeverRevoked
  <1>1. racing \/ (SerialInv /\ OneBusy) => SerialAcceptedIsNeverRevoked
    BY DEF SerialInv, SerialAcceptedIsNeverRevoked
  <1>2. QED
    BY <1>1, MCInvariance, PTL

(* An address has one way in when requests do not overlap.                  *)
THEOREM SerialOneWay == MCSpec => []SerialOneWayIn
  <1>1. racing \/ (SerialInv /\ OneBusy) => SerialOneWayIn
    BY DEF SerialInv, SerialOneWayIn
  <1>2. QED
    BY <1>1, MCInvariance, PTL

=============================================================================
