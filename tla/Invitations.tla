---------------------------- MODULE Invitations -----------------------------
(***************************************************************************)
(* Staff invitations of apps/accounts: the Owner creates and revokes them, *)
(* whoever holds the link accepts once and so creates the staff account.    *)
(*                                                                         *)
(* Each function of accounts/services.py is one transaction of several     *)
(* statements.  create_staff_invitation looks for an account, then locks   *)
(* the open invitations of the address, row by row, revokes them and       *)
(* inserts the new one; accept_staff_invitation locks its row first, then  *)
(* inserts the User; revoke_staff_invitation trusts the row the view read  *)
(* before.  A statement that needs a locked row waits for the transaction  *)
(* that holds it, and an INSERT for the one that inserted the same email.  *)
(***************************************************************************)
CONSTANTS
    Emails,
    Tokens,        \* the invitations that can be created, by their token
    Requests,      \* the requests that can be in progress at the same time
    None

VARIABLES
    invitation,    \* the StaffInvitation rows
    account,       \* for each address, the invitation its User came from
    request        \* the transaction of each request

vars == <<invitation, account, request>>

Invitation == [email: Emails, accepted_at: BOOLEAN, revoked_at: BOOLEAN, expired: BOOLEAN]

(* A request and the rows it holds FOR UPDATE.                              *)
Creation ==
    [op: {"create"}, step: {"checked", "locking"}, email: Emails,
     seen: SUBSET Tokens,        \* the rows its SELECT ... FOR UPDATE has yet to lock
     locks: SUBSET Tokens]
Acceptance ==
    [op: {"accept"}, step: {"locked", "inserted"}, token: Tokens, locks: SUBSET Tokens]
Revocation == [op: {"revoke"}, token: Tokens, locks: {{}}]

ASSUME NoneAssumption ==
    None \notin Tokens \cup Invitation \cup Creation \cup Acceptance \cup Revocation

Init ==
    /\ invitation = [i \in Tokens |-> None]
    /\ account = [e \in Emails |-> None]
    /\ request = [r \in Requests |-> None]

InProgress(r) == request[r] # None
Doing(r, op) == InProgress(r) /\ request[r].op = op

(* Row i is locked by another request than r. *)
Blocked(r, i) == \E q \in {x \in Requests \ {r} : InProgress(x)} : i \in request[q].locks

Created == {i \in Tokens : invitation[i] # None}
IsOpen(i) == ~invitation[i].accepted_at /\ ~invitation[i].revoked_at
OpenFor(e) == {i \in Created : invitation[i].email = e /\ IsOpen(i)}

(* StaffInvitation.is_usable *)
IsUsable(i) == IsOpen(i) /\ ~invitation[i].expired

Begin(r, req) ==
    /\ ~InProgress(r)
    /\ request' = [request EXCEPT ![r] = req]
    /\ UNCHANGED <<invitation, account>>

Finish(r) == request' = [request EXCEPT ![r] = None]

-----------------------------------------------------------------------------
(* The bound on invitations: no creation starts once all tokens are used,   *)
(* and one that finds none left rolls back (OutOfTokens).                   *)
SpareToken == Created # Tokens

(* Mutant of StartCreate: the account of the address is not looked for.     *)
StartCreateUnchecked(r, e) ==
    /\ SpareToken
    /\ Begin(r, [op |-> "create", step |-> "checked", email |-> e,
                 seen |-> {}, locks |-> {}])

(* create_staff_invitation *)
StartCreate(r, e) ==
    /\ SpareToken
    /\ account[e] = None
    /\ Begin(r, [op |-> "create", step |-> "checked", email |-> e,
                 seen |-> {}, locks |-> {}])

(* Mutant of ReadOpen: the query forgets the address.                       *)
ReadOpenOfAll(r) ==
    /\ Doing(r, "create")
    /\ request[r].step = "checked"
    /\ request' = [request EXCEPT ![r].step = "locking",
                                  ![r].seen = {i \in Created : IsOpen(i)}]
    /\ UNCHANGED <<invitation, account>>

(* SELECT ... FOR UPDATE fixes its snapshot: rows that others insert later  *)
(* are not among the ones it locks.                                         *)
ReadOpen(r) ==
    /\ Doing(r, "create")
    /\ request[r].step = "checked"
    /\ request' = [request EXCEPT ![r].step = "locking",
                                  ![r].seen = OpenFor(request[r].email)]
    /\ UNCHANGED <<invitation, account>>

(* It locks them one by one, in no order that the query names, holds what   *)
(* it has while it waits for the next, and passes over a row that is no     *)
(* longer open when it gets it.                                             *)
LockNext(r, i) ==
    /\ Doing(r, "create")
    /\ i \in request[r].seen
    /\ ~Blocked(r, i)
    /\ request' = [request EXCEPT ![r].seen = @ \ {i},
                                  ![r].locks = IF IsOpen(i) THEN @ \cup {i} ELSE @]
    /\ UNCHANGED <<invitation, account>>

Locked(r) == Doing(r, "create") /\ request[r].step = "locking" /\ request[r].seen = {}

(* Mutant of CommitCreate: the open invitations of the address stay open.   *)
CommitCreateBeside(r, i) ==
    /\ Locked(r)
    /\ invitation[i] = None
    /\ invitation' = [invitation EXCEPT
           ![i] = [email |-> request[r].email, accepted_at |-> FALSE,
                   revoked_at |-> FALSE, expired |-> FALSE]]
    /\ Finish(r)
    /\ UNCHANGED account

(* The locked invitations are revoked, the one with token i is inserted.    *)
CommitCreate(r, i) ==
    /\ Locked(r)
    /\ invitation[i] = None
    /\ invitation' =
           [j \in Tokens |->
               IF j = i THEN [email |-> request[r].email, accepted_at |-> FALSE,
                              revoked_at |-> FALSE, expired |-> FALSE]
               ELSE IF j \in request[r].locks THEN [invitation[j] EXCEPT !.revoked_at = TRUE]
               ELSE invitation[j]]
    /\ Finish(r)
    /\ UNCHANGED account

(* Mutant of StartAccept: the row is read without select_for_update.        *)
StartAcceptUnlocked(r, i) ==
    /\ i \in Created
    /\ IsUsable(i)
    /\ Begin(r, [op |-> "accept", step |-> "locked", token |-> i, locks |-> {}])

(* accept_staff_invitation *)
StartAccept(r, i) ==
    /\ i \in Created
    /\ ~Blocked(r, i)
    /\ IsUsable(i)
    /\ Begin(r, [op |-> "accept", step |-> "locked", token |-> i, locks |-> {i}])

DoingStep(r, op, step) == Doing(r, op) /\ request[r].step = step
AddressOf(r) == invitation[request[r].token].email

(* Mutant of InsertUser: email is not unique.                               *)
InsertUserAnyway(r) ==
    /\ DoingStep(r, "accept", "locked")
    /\ request' = [request EXCEPT ![r].step = "inserted"]
    /\ UNCHANGED <<invitation, account>>

(* The unique index on email makes the INSERT wait for a transaction that   *)
(* has inserted a User of the address, and refuses it once that commits.    *)
InsertUser(r) ==
    /\ DoingStep(r, "accept", "locked")
    /\ account[AddressOf(r)] = None
    /\ \A q \in Requests : DoingStep(q, "accept", "inserted") => AddressOf(q) # AddressOf(r)
    /\ request' = [request EXCEPT ![r].step = "inserted"]
    /\ UNCHANGED <<invitation, account>>

(* Mutant of CommitAccept: the account remembers its address.               *)
CommitAcceptOfAddress(r) ==
    /\ DoingStep(r, "accept", "inserted")
    /\ account' = [account EXCEPT ![AddressOf(r)] = AddressOf(r)]
    /\ invitation' = [invitation EXCEPT ![request[r].token].accepted_at = TRUE]
    /\ Finish(r)

CommitAccept(r) ==
    /\ DoingStep(r, "accept", "inserted")
    /\ account' = [account EXCEPT ![AddressOf(r)] = request[r].token]
    /\ invitation' = [invitation EXCEPT ![request[r].token].accepted_at = TRUE]
    /\ Finish(r)

(* Mutant of StartRevoke: an accepted invitation is revoked too.            *)
StartRevokeOfAny(r, i) ==
    /\ i \in Created
    /\ Begin(r, [op |-> "revoke", token |-> i, locks |-> {}])

(* revoke_staff_invitation, on the invitation the view read.                *)
StartRevoke(r, i) ==
    /\ i \in Created
    /\ ~invitation[i].accepted_at
    /\ Begin(r, [op |-> "revoke", token |-> i, locks |-> {}])

CommitRevoke(r) ==
    /\ Doing(r, "revoke")
    /\ ~Blocked(r, request[r].token)
    /\ invitation' = [invitation EXCEPT ![request[r].token].revoked_at = TRUE]
    /\ Finish(r)
    /\ UNCHANGED account

(* A refused password, an error of the database or a lost worker rolls back. *)
Abort(r) ==
    /\ InProgress(r)
    /\ Finish(r)
    /\ UNCHANGED <<invitation, account>>

(* expires_at, 48 hours after the creation, passes.                         *)
Expire(i) ==
    /\ i \in Created
    /\ ~invitation[i].expired
    /\ invitation' = [invitation EXCEPT ![i].expired = TRUE]
    /\ UNCHANGED <<account, request>>

(* The INSERT of a second User of the address raises IntegrityError.        *)
RefusedAccept(r) ==
    /\ DoingStep(r, "accept", "locked")
    /\ account[AddressOf(r)] # None
    /\ Abort(r)

(* The bound: another creation has used the last token.                     *)
OutOfTokens(r) == Locked(r) /\ ~SpareToken /\ Abort(r)

Next ==
    \/ \E r \in Requests :
          \/ \E e \in Emails : StartCreate(r, e)
          \/ ReadOpen(r)
          \/ \E i \in Tokens :
                \/ LockNext(r, i) \/ CommitCreate(r, i)
                \/ StartAccept(r, i) \/ StartRevoke(r, i)
          \/ InsertUser(r)
          \/ CommitAccept(r)
          \/ CommitRevoke(r)
          \/ RefusedAccept(r)
          \/ Abort(r)
    \/ \E i \in Tokens : Expire(i)

Spec == Init /\ [][Next]_vars

(* A statement that can run is run, and PostgreSQL queues the transactions  *)
(* that wait for a row or for another's INSERT: a request that waits gets   *)
(* its turn although others may come in between, hence strong fairness.     *)
(* Nothing here breaks a deadlock.                                          *)
Proceed(r) ==
    \/ ReadOpen(r)
    \/ \E i \in Tokens : LockNext(r, i) \/ CommitCreate(r, i)
    \/ OutOfTokens(r)
    \/ InsertUser(r)
    \/ CommitAccept(r)
    \/ RefusedAccept(r)
    \/ CommitRevoke(r)
Fairness == \A r \in Requests : SF_vars(Proceed(r))

FairSpec == Spec /\ Fairness

-----------------------------------------------------------------------------
TypeOK ==
    /\ invitation \in [Tokens -> Invitation \cup {None}]
    /\ account \in [Emails -> Tokens \cup {None}]
    /\ request \in [Requests -> Creation \cup Acceptance \cup Revocation \cup {None}]

(* Every account comes from exactly one accepted invitation of its address, *)
(* and an accepted invitation has given its one account: a link is used at  *)
(* most once, whatever the accepts of the same address race with.           *)
OneAccountPerAcceptance ==
    /\ \A i \in Created : invitation[i].accepted_at => account[invitation[i].email] = i
    /\ \A e \in Emails : account[e] # None =>
          /\ account[e] \in Created
          /\ invitation[account[e]].email = e
          /\ invitation[account[e]].accepted_at

(* An invitation that has been revoked is never accepted afterwards: what   *)
(* is_usable saw under the row lock still holds when the account commits.   *)
RevokedIsNeverAccepted ==
    [][\A i \in Created :
          ~invitation[i].accepted_at /\ invitation'[i].accepted_at
          => ~invitation[i].revoked_at]_vars

(* An invitation ends one way: accepted or revoked, not both.               *)
AcceptedIsNeverRevoked ==
    \A i \in Created : ~(invitation[i].accepted_at /\ invitation[i].revoked_at)

(* Whoever may join has one way in: an address has at most one open         *)
(* invitation, and none once it has an account.                             *)
OneWayIn ==
    \A e \in Emails :
        /\ \A i, j \in OpenFor(e) : i = j
        /\ account[e] # None => OpenFor(e) = {}

(* Creations for one address that wait for one another: each has locked an  *)
(* open invitation that another one wants.  PostgreSQL then aborts one.     *)
Wants(r, q) ==
    /\ Doing(r, "create") /\ Doing(q, "create")
    /\ request[r].email = request[q].email
    /\ request[r].seen \cap request[q].locks # {}
Deadlock ==
    \E S \in SUBSET Requests :
        S # {} /\ \A r \in S : \E q \in S \ {r} : Wants(r, q)

(* No transaction waits for ever, and only creations for one address can    *)
(* come to wait for one another: an acceptance or a revocation ends, with   *)
(* whatever it races, and so does a creation for an address of its own.     *)
RequestsEnd == \A r \in Requests : InProgress(r) ~> ~InProgress(r) \/ Deadlock

=============================================================================
