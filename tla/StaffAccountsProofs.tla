------------------------- MODULE StaffAccountsProofs -------------------------
(***************************************************************************)
(* Proofs about StaffAccounts, for every set of accounts, sessions and     *)
(* requests: the row flags agree however the requests interleave, and      *)
(* while requests about one person do not overlap a change of role or      *)
(* status ends the sessions for good.  The race run shows that overlapping *)
(* changes of one person break this.                                       *)
(***************************************************************************)
EXTENDS MCStaffAccounts, TLAPS

(* The pending copies are as consistent as the rows they were read from.    *)
CopiesAgree == \A r \in Requests : request[r] # None => FlagsOf(request[r].copy)
RowInv == TypeOK /\ FlagsAgree /\ CopiesAgree

LEMMA RequestFields ==
  ASSUME NEW req \in Request
  PROVE  /\ req.op \in {"role", "status", "login"}
         /\ req.user \in Staff
         /\ req.copy \in Account
         /\ req.op = "login" => req.key \in Sessions
  BY DEF Request

LEMMA NewAccountFields ==
  ASSUME NEW role \in Role
  PROVE  /\ NewAccount(role) \in Account
         /\ FlagsOf(NewAccount(role))
         /\ NewAccount(role).session_version = 1
  BY DEF NewAccount, Account, Role, Status, FlagsOf

LEMMA RoleChangedFields ==
  ASSUME NEW user \in Account, NEW role \in Role
  PROVE  /\ RoleChanged(user, role) \in Account
         /\ FlagsOf(user) => FlagsOf(RoleChanged(user, role))
         /\ RoleChanged(user, role).status = user.status
         /\ RoleChanged(user, role).session_version = user.session_version + 1
  <1> DEFINE changed == RoleChanged(user, role)
  <1> DEFINE staff == role = "ADMIN"
             next == user.session_version + 1
  <1>1. changed \in Account
    <2>1. staff \in BOOLEAN /\ next \in Nat
      BY DEF Account
    <2>2. changed = [user EXCEPT !.role = role, !.is_staff = staff, !.session_version = next]
      BY DEF RoleChanged, Account
    <2> HIDE DEF changed, staff, next
    <2>3. QED
      BY <2>1, <2>2 DEF Account
  <1>2. /\ changed.role = role /\ changed.is_staff = (role = "ADMIN")
        /\ changed.status = user.status /\ changed.is_active = user.is_active
        /\ changed.disabled_at = user.disabled_at
        /\ changed.session_version = user.session_version + 1
    BY DEF RoleChanged, Account
  <1>3. QED
    BY <1>1, <1>2 DEF FlagsOf

LEMMA StatusChangedFields ==
  ASSUME NEW user \in Account, NEW status \in Status
  PROVE  /\ StatusChanged(user, status) \in Account
         /\ FlagsOf(user) => FlagsOf(StatusChanged(user, status))
         /\ StatusChanged(user, status).role = user.role
         /\ StatusChanged(user, status).session_version = user.session_version + 1
  <1> DEFINE changed == StatusChanged(user, status)
             disabled == status = "DISABLED"
             active == status = "ACTIVE"
             next == user.session_version + 1
  <1>1. changed \in Account
    <2>1. disabled \in BOOLEAN /\ active \in BOOLEAN /\ next \in Nat
      BY DEF Account
    <2>2. changed = [user EXCEPT !.status = status, !.disabled_at = disabled,
                                 !.is_active = active, !.session_version = next]
      BY DEF StatusChanged, Account
    <2> HIDE DEF changed, disabled, active, next
    <2>3. QED
      BY <2>1, <2>2 DEF Account
  <1>2. /\ changed.status = status /\ changed.disabled_at = (status = "DISABLED")
        /\ changed.is_active = (status = "ACTIVE")
        /\ changed.role = user.role /\ changed.is_staff = user.is_staff
        /\ changed.session_version = user.session_version + 1
    BY DEF StatusChanged, Account
  <1>3. QED
    BY <1>1, <1>2 DEF FlagsOf

LEMMA WithRoleOfFields ==
  ASSUME NEW row \in Account, NEW copy \in Account
  PROVE  /\ WithRoleOf(row, copy) \in Account
         /\ FlagsOf(row) /\ FlagsOf(copy) => FlagsOf(WithRoleOf(row, copy))
         /\ WithRoleOf(row, copy).role = copy.role
         /\ WithRoleOf(row, copy).status = row.status
         /\ WithRoleOf(row, copy).session_version = copy.session_version
  <1>1. ActiveFlag(row, copy) \in BOOLEAN
    BY DEF ActiveFlag, Account
  <1>2. FlagsOf(copy) => ActiveFlag(row, copy) = row.is_active
    BY DEF ActiveFlag, Account, FlagsOf
  <1>3. QED
    BY <1>1, <1>2 DEF WithRoleOf, Account, FlagsOf

LEMMA WithStatusOfFields ==
  ASSUME NEW row \in Account, NEW copy \in Account
  PROVE  /\ WithStatusOf(row, copy) \in Account
         /\ FlagsOf(row) /\ FlagsOf(copy) => FlagsOf(WithStatusOf(row, copy))
         /\ WithStatusOf(row, copy).role = row.role
         /\ WithStatusOf(row, copy).status = copy.status
         /\ WithStatusOf(row, copy).session_version = copy.session_version
  BY DEF WithStatusOf, Account, FlagsOf

-----------------------------------------------------------------------------
LEMMA InitRowInv == Init => RowInv
  <1> SUFFICES ASSUME Init PROVE RowInv
    OBVIOUS
  <1>1. \A u \in Staff : account[u] \in Account /\ FlagsOf(account[u])
    BY NewAccountFields DEF Init
  <1>2. TypeOK
    BY <1>1 DEF Init, TypeOK
  <1>3. QED
    BY <1>1, <1>2 DEF RowInv, FlagsAgree, CopiesAgree, Init

(* The steps that begin a request with a consistent copy.                   *)
LEMMA BeginKeepsRowInv ==
  ASSUME RowInv, NEW r \in Requests, NEW req \in Request, FlagsOf(req.copy), Begin(r, req)
  PROVE  RowInv'
  <1>1. TypeOK'
    BY DEF RowInv, Begin, TypeOK
  <1>2. FlagsAgree'
    BY DEF RowInv, Begin, FlagsAgree
  <1>3. CopiesAgree'
    BY DEF RowInv, Begin, CopiesAgree, TypeOK
  <1>4. QED
    BY <1>1, <1>2, <1>3 DEF RowInv

(* The steps that write a consistent row and end their request.             *)
LEMMA WriteKeepsRowInv ==
  ASSUME RowInv, NEW r \in Requests, NEW u \in Staff, NEW row \in Account, FlagsOf(row),
         account' = [account EXCEPT ![u] = row],
         editors' \subseteq Staff,
         UNCHANGED session,
         Finish(r)
  PROVE  RowInv'
  <1>1. TypeOK'
    BY DEF RowInv, Finish, TypeOK
  <1>2. FlagsAgree'
    BY DEF RowInv, FlagsAgree, TypeOK
  <1>3. CopiesAgree'
    BY DEF RowInv, Finish, CopiesAgree, TypeOK
  <1>4. QED
    BY <1>1, <1>2, <1>3 DEF RowInv

LEMMA NextKeepsRowInv == RowInv /\ [Next]_vars => RowInv'
  <1> SUFFICES ASSUME RowInv, [Next]_vars PROVE RowInv'
    OBVIOUS
  <1>a. \A u \in Staff : account[u] \in Account /\ FlagsOf(account[u])
    BY DEF RowInv, TypeOK, FlagsAgree
  <1>b. \A r \in Requests : request[r] # None =>
           /\ request[r] \in Request
           /\ FlagsOf(request[r].copy)
    BY DEF RowInv, TypeOK, CopiesAgree
  <1>1. ASSUME NEW r \in Requests, NEW u \in Staff, NEW role \in Role,
               StartRoleChange(r, u, role)
        PROVE  RowInv'
    <2> DEFINE req == [op |-> "role", user |-> u, copy |-> RoleChanged(account[u], role)]
    <2>1. req \in Request /\ FlagsOf(req.copy)
      BY <1>a, RoleChangedFields DEF Request
    <2>2. QED
      BY <1>1, <2>1, BeginKeepsRowInv DEF StartRoleChange
  <1>2. ASSUME NEW r \in Requests, NEW u \in Staff, NEW status \in Status,
               StartStatusChange(r, u, status)
        PROVE  RowInv'
    <2> DEFINE req == [op |-> "status", user |-> u, copy |-> StatusChanged(account[u], status)]
    <2>1. req \in Request /\ FlagsOf(req.copy)
      BY <1>a, StatusChangedFields DEF Request
    <2>2. QED
      BY <1>2, <2>1, BeginKeepsRowInv DEF StartStatusChange
  <1>3. ASSUME NEW r \in Requests, NEW u \in Staff, NEW k \in Sessions, StartLogin(r, u, k)
        PROVE  RowInv'
    <2> DEFINE req == [op |-> "login", user |-> u, copy |-> account[u], key |-> k]
    <2>1. req \in Request /\ FlagsOf(req.copy)
      BY <1>a DEF Request
    <2>2. QED
      BY <1>3, <2>1, BeginKeepsRowInv DEF StartLogin
  <1>4. ASSUME NEW r \in Requests, CommitRoleChange(r)
        PROVE  RowInv'
    <2> DEFINE u == request[r].user
               row == WithRoleOf(account[u], request[r].copy)
    <2>1. u \in Staff /\ request[r].copy \in Account /\ FlagsOf(request[r].copy)
      BY <1>4, <1>b, RequestFields DEF CommitRoleChange
    <2>2. row \in Account /\ FlagsOf(row)
      BY <2>1, <1>a, WithRoleOfFields
    <2>3. account' = [account EXCEPT ![u] = row] /\ UNCHANGED session /\ Finish(r)
      BY <1>4 DEF CommitRoleChange
    <2>4. editors' \subseteq Staff
      BY <1>4, <2>1 DEF CommitRoleChange, SyncGroup, RowInv, TypeOK
    <2>5. QED
      BY <2>1, <2>2, <2>3, <2>4, WriteKeepsRowInv
  <1>5. ASSUME NEW r \in Requests, CommitStatusChange(r)
        PROVE  RowInv'
    <2> DEFINE u == request[r].user
               row == WithStatusOf(account[u], request[r].copy)
    <2>1. u \in Staff /\ request[r].copy \in Account /\ FlagsOf(request[r].copy)
      BY <1>5, <1>b, RequestFields DEF CommitStatusChange
    <2>2. row \in Account /\ FlagsOf(row)
      BY <2>1, <1>a, WithStatusOfFields
    <2>3. account' = [account EXCEPT ![u] = row] /\ UNCHANGED session /\ Finish(r)
      BY <1>5 DEF CommitStatusChange
    <2>4. editors' \subseteq Staff
      BY <1>5, <2>1 DEF CommitStatusChange, SyncGroup, RowInv, TypeOK
    <2>5. QED
      BY <2>1, <2>2, <2>3, <2>4, WriteKeepsRowInv
  <1>6. ASSUME NEW r \in Requests, CommitLogin(r)
        PROVE  RowInv'
    <2>1. /\ request[r].user \in Staff /\ request[r].key \in Sessions
          /\ request[r].copy \in Account
      BY <1>6, <1>b, RequestFields DEF CommitLogin
    <2>2. [user |-> request[r].user, version |-> request[r].copy.session_version] \in Session
      BY <2>1 DEF Session, Account
    <2>3. TypeOK'
      BY <1>6, <2>1, <2>2 DEF CommitLogin, SyncGroup, Finish, RowInv, TypeOK
    <2>4. FlagsAgree' /\ CopiesAgree'
      BY <1>6 DEF CommitLogin, Finish, RowInv, TypeOK, FlagsAgree, CopiesAgree
    <2>5. QED
      BY <2>3, <2>4 DEF RowInv
  <1>7. ASSUME NEW r \in Requests, Abort(r)
        PROVE  RowInv'
    BY <1>7 DEF Abort, Finish, RowInv, TypeOK, FlagsAgree, CopiesAgree
  <1>8. ASSUME NEW k \in Sessions, EndSession(k)
        PROVE  RowInv'
    BY <1>8 DEF EndSession, RowInv, TypeOK, FlagsAgree, CopiesAgree
  <1>9. CASE UNCHANGED vars
    BY <1>9 DEF vars, RowInv, TypeOK, FlagsAgree, CopiesAgree
  <1>10. QED
    BY <1>1, <1>2, <1>3, <1>4, <1>5, <1>6, <1>7, <1>8, <1>9 DEF Next

LEMMA RowInvariance == Spec => []RowInv
  BY InitRowInv, NextKeepsRowInv, PTL DEF Spec

(* The tables, the session store and the pending copies keep their types.   *)
THEOREM TypeCorrect == Spec => []TypeOK
  BY RowInvariance, PTL DEF RowInv

(* However many requests save roles and statuses from stale copies, the     *)
(* columns is_active, disabled_at and is_staff of every row agree with its  *)
(* status and role (User.save, change_staff_role, change_account_status).   *)
THEOREM FlagsAlwaysAgree == Spec => []FlagsAgree
  BY RowInvariance, PTL DEF RowInv

-----------------------------------------------------------------------------
(* While requests about one person do not overlap, what a request read is   *)
(* still the row when it saves: a change increments the version the row     *)
(* has, and the session of a login has the version of the row.  Requests    *)
(* about different people touch different rows and different sessions.      *)
FreshCopies ==
    \A r \in Requests : request[r] # None =>
        LET row == account[request[r].user]
            copy == request[r].copy
        IN /\ request[r].op = "role" =>
                copy.status = row.status /\ copy.session_version = row.session_version + 1
           /\ request[r].op = "status" =>
                copy.role = row.role /\ copy.session_version = row.session_version + 1
           /\ request[r].op = "login" =>
                copy = row /\ MayAuthenticate(row) /\ session[request[r].key] = None

(* Two requests that sign somebody in make two sessions.                    *)
KeysDiffer ==
    \A q, r \in Requests :
        /\ request[q] # None /\ request[q].op = "login"
        /\ request[r] # None /\ request[r].op = "login"
        /\ request[q].key = request[r].key
        => q = r

(* A session never runs ahead of its account, and has caught up with it     *)
(* only while the account may sign in.                                      *)
Follows(ses, row) ==
    /\ ses.version <= row.session_version
    /\ ses.version = row.session_version => MayAuthenticate(row)
SessionsFollow ==
    \A k \in Sessions : session[k] # None => Follows(session[k], account[session[k].user])

SerialInv ==
    RowInv /\ FreshCopies /\ KeysDiffer /\ SessionsFollow /\ EditorsAreActiveAdmins

(* What a step may do to the sessions of an account.                        *)
SessionStep == ChangesEndSessions /\ NoSessionRevives

LEMMA InitSerialInv == Init => SerialInv
  BY InitRowInv DEF Init, SerialInv, FreshCopies, KeysDiffer, SessionsFollow,
     EditorsAreActiveAdmins

LEMMA FinishedIsNone ==
  ASSUME SerialInv, NEW r \in Requests, Finish(r)
  PROVE  /\ request'[r] = None
         /\ \A q \in Requests : q # r => request'[q] = request[q]
  BY DEF Finish, SerialInv, RowInv, TypeOK

(* A row replaced by one with the next version leaves every session of the  *)
(* account behind.                                                          *)
LEMMA ReplacedRow ==
  ASSUME SerialInv, OneForEach, NEW r \in Requests, NEW u \in Staff, NEW row \in Account,
         RowInv',
         request[r] # None, request[r].user = u,
         account' = [account EXCEPT ![u] = row],
         row.session_version = account[u].session_version + 1,
         editors' = IF InEditorGroup(row) THEN editors \cup {u} ELSE editors \ {u},
         UNCHANGED session,
         Finish(r)
  PROVE  SerialInv' /\ SessionStep
  <1>1. /\ account'[u] = row
        /\ \A x \in Staff : x # u => account'[x] = account[x]
        /\ \A x \in Staff : account[x] \in Account
        /\ \A k \in Sessions : session[k] # None => session[k] \in Session
    BY DEF SerialInv, RowInv, TypeOK
  <1>2. \A k \in Sessions : session[k] # None /\ session[k].user = u =>
           /\ session[k].version <= account[u].session_version
           /\ session[k].version < row.session_version
    BY <1>1 DEF SerialInv, SessionsFollow, Follows, Session, Account
  <1>3. \A k \in Sessions : session[k] # None => session[k].user \in Staff
    BY <1>1 DEF Session
  <1>4. FreshCopies' /\ KeysDiffer'
    <2>1. \A q \in Requests : request'[q] # None =>
             request'[q] = request[q] /\ request[q].user # u
      BY FinishedIsNone DEF OneForEach
    <2>2. \A q \in Requests : request[q] # None => request[q].user \in Staff
      BY RequestFields DEF SerialInv, RowInv, TypeOK
    <2>3. FreshCopies'
      BY <1>1, <2>1, <2>2 DEF SerialInv, FreshCopies
    <2>4. KeysDiffer'
      BY <2>1 DEF SerialInv, KeysDiffer
    <2>5. QED
      BY <2>3, <2>4
  <1>5. SessionsFollow'
    <2> SUFFICES ASSUME NEW k \in Sessions, session[k] # None
                 PROVE  Follows(session[k], account'[session[k].user])
      BY DEF SessionsFollow
    <2>1. CASE session[k].user = u
      BY <2>1, <1>1, <1>2 DEF Follows, Session, Account
    <2>2. CASE session[k].user # u
      BY <2>2, <1>1, <1>3 DEF Follows, SerialInv, SessionsFollow
    <2>3. QED
      BY <2>1, <2>2
  <1>6. EditorsAreActiveAdmins'
    BY <1>1 DEF SerialInv, EditorsAreActiveAdmins
  <1>7. \A k \in Sessions : session[k] # None /\ session[k].user = u => ~Usable(k)'
    BY <1>1, <1>2 DEF Usable, Session, Account
  <1>8. \A k \in Sessions : session[k] # None /\ session[k].user # u =>
           (Usable(k)' <=> Usable(k))
    BY <1>1, <1>3 DEF Usable
  <1>9. SessionStep
    BY <1>1, <1>7, <1>8 DEF SessionStep, ChangesEndSessions, NoSessionRevives
  <1>10. QED
    BY <1>4, <1>5, <1>6, <1>9 DEF SerialInv

LEMMA BeginSerial ==
  ASSUME SerialInv, RowInv', NEW r \in Requests, NEW req \in Request,
         Begin(r, req),
         LET row == account[req.user] IN
         /\ req.op = "role" =>
              req.copy.status = row.status
              /\ req.copy.session_version = row.session_version + 1
         /\ req.op = "status" =>
              req.copy.role = row.role
              /\ req.copy.session_version = row.session_version + 1
         /\ req.op = "login" =>
              /\ req.copy = row /\ MayAuthenticate(row) /\ session[req.key] = None
              /\ \A q \in Requests :
                    request[q] # None /\ request[q].op = "login" => request[q].key # req.key
  PROVE  SerialInv' /\ SessionStep
  <1>1. /\ request'[r] = req /\ UNCHANGED <<account, editors, session>>
        /\ \A q \in Requests : q # r => request'[q] = request[q]
    BY DEF Begin, SerialInv, RowInv, TypeOK
  <1>2. FreshCopies' /\ KeysDiffer'
    <2>1. FreshCopies'
      BY <1>1 DEF SerialInv, FreshCopies
    <2>2. KeysDiffer'
      BY <1>1 DEF SerialInv, KeysDiffer
    <2>3. QED
      BY <2>1, <2>2
  <1>3. SessionsFollow' /\ EditorsAreActiveAdmins'
    BY <1>1 DEF SerialInv, SessionsFollow, EditorsAreActiveAdmins
  <1>4. SessionStep
    BY <1>1 DEF SessionStep, ChangesEndSessions, NoSessionRevives, Usable
  <1>5. QED
    BY <1>2, <1>3, <1>4 DEF SerialInv

LEMMA NextSerial ==
  SerialInv /\ OneForEach /\ [Next]_vars => SerialInv' /\ SessionStep
  <1> SUFFICES ASSUME SerialInv, OneForEach, [Next]_vars
               PROVE  SerialInv' /\ SessionStep
    OBVIOUS
  <1>a. RowInv'
    BY NextKeepsRowInv DEF SerialInv
  <1>b. /\ \A u \in Staff : account[u] \in Account
        /\ \A r \in Requests : request[r] # None => request[r] \in Request
        /\ \A k \in Sessions : session[k] # None => session[k] \in Session
    BY DEF SerialInv, RowInv, TypeOK
  <1>1. ASSUME NEW r \in Requests, NEW u \in Staff, NEW role \in Role,
               StartRoleChange(r, u, role)
        PROVE  SerialInv' /\ SessionStep
    <2> DEFINE req == [op |-> "role", user |-> u, copy |-> RoleChanged(account[u], role)]
    <2>1. /\ req \in Request /\ req.op = "role" /\ req.user = u
          /\ req.copy.status = account[u].status
          /\ req.copy.session_version = account[u].session_version + 1
      BY <1>b, RoleChangedFields DEF Request
    <2>2. Begin(r, req)
      BY <1>1 DEF StartRoleChange
    <2> HIDE DEF req
    <2>3. QED
      BY <2>1, <2>2, <1>a, BeginSerial
  <1>2. ASSUME NEW r \in Requests, NEW u \in Staff, NEW status \in Status,
               StartStatusChange(r, u, status)
        PROVE  SerialInv' /\ SessionStep
    <2> DEFINE req == [op |-> "status", user |-> u, copy |-> StatusChanged(account[u], status)]
    <2>1. /\ req \in Request /\ req.op = "status" /\ req.user = u
          /\ req.copy.role = account[u].role
          /\ req.copy.session_version = account[u].session_version + 1
      BY <1>b, StatusChangedFields DEF Request
    <2>2. Begin(r, req)
      BY <1>2 DEF StartStatusChange
    <2> HIDE DEF req
    <2>3. QED
      BY <2>1, <2>2, <1>a, BeginSerial
  <1>3. ASSUME NEW r \in Requests, NEW u \in Staff, NEW k \in Sessions, StartLogin(r, u, k)
        PROVE  SerialInv' /\ SessionStep
    <2> DEFINE req == [op |-> "login", user |-> u, copy |-> account[u], key |-> k]
    <2>1. /\ req \in Request /\ req.op = "login" /\ req.user = u
          /\ req.copy = account[u] /\ req.key = k
      BY <1>b DEF Request
    <2>2. /\ Begin(r, req) /\ MayAuthenticate(account[u]) /\ session[k] = None
          /\ \A q \in Requests :
                request[q] # None /\ request[q].op = "login" => request[q].key # k
      BY <1>3 DEF StartLogin
    <2> HIDE DEF req
    <2>3. QED
      BY <2>1, <2>2, <1>a, BeginSerial
  <1>4. ASSUME NEW r \in Requests, CommitRoleChange(r)
        PROVE  SerialInv' /\ SessionStep
    <2> DEFINE u == request[r].user
               copy == request[r].copy
               row == WithRoleOf(account[u], copy)
    <2>1. u \in Staff /\ copy \in Account /\ request[r] # None /\ request[r].user = u
      BY <1>4, <1>b, RequestFields DEF CommitRoleChange
    <2>2. copy.status = account[u].status
          /\ copy.session_version = account[u].session_version + 1
      BY <1>4 DEF CommitRoleChange, SerialInv, FreshCopies
    <2>3. /\ row \in Account /\ row.session_version = account[u].session_version + 1
          /\ InEditorGroup(row) <=> InEditorGroup(copy)
      BY <2>1, <2>2, <1>b, WithRoleOfFields DEF InEditorGroup
    <2>4. /\ account' = [account EXCEPT ![u] = row]
          /\ editors' = IF InEditorGroup(copy) THEN editors \cup {u} ELSE editors \ {u}
          /\ UNCHANGED session /\ Finish(r)
      BY <1>4 DEF CommitRoleChange, SyncGroup
    <2> HIDE DEF u, copy, row
    <2>5. QED
      BY <2>1, <2>3, <2>4, <1>a, ReplacedRow
  <1>5. ASSUME NEW r \in Requests, CommitStatusChange(r)
        PROVE  SerialInv' /\ SessionStep
    <2> DEFINE u == request[r].user
               copy == request[r].copy
               row == WithStatusOf(account[u], copy)
    <2>1. u \in Staff /\ copy \in Account /\ request[r] # None /\ request[r].user = u
      BY <1>5, <1>b, RequestFields DEF CommitStatusChange
    <2>2. copy.role = account[u].role
          /\ copy.session_version = account[u].session_version + 1
      BY <1>5 DEF CommitStatusChange, SerialInv, FreshCopies
    <2>3. /\ row \in Account /\ row.session_version = account[u].session_version + 1
          /\ InEditorGroup(row) <=> InEditorGroup(copy)
      BY <2>1, <2>2, <1>b, WithStatusOfFields DEF InEditorGroup
    <2>4. /\ account' = [account EXCEPT ![u] = row]
          /\ editors' = IF InEditorGroup(copy) THEN editors \cup {u} ELSE editors \ {u}
          /\ UNCHANGED session /\ Finish(r)
      BY <1>5 DEF CommitStatusChange, SyncGroup
    <2> HIDE DEF u, copy, row
    <2>5. QED
      BY <2>1, <2>3, <2>4, <1>a, ReplacedRow
  <1>6. ASSUME NEW r \in Requests, CommitLogin(r)
        PROVE  SerialInv' /\ SessionStep
    <2> DEFINE u == request[r].user
               new == request[r].key
               ses == [user |-> u, version |-> request[r].copy.session_version]
    <2>1. u \in Staff /\ new \in Sessions /\ request[r] # None
      BY <1>6, <1>b, RequestFields DEF CommitLogin
    <2>2. /\ request[r].copy = account[u] /\ MayAuthenticate(account[u])
          /\ session[new] = None
      BY <1>6 DEF CommitLogin, SerialInv, FreshCopies
    <2>3. /\ session' = [session EXCEPT ![new] = ses] /\ UNCHANGED account /\ Finish(r)
          /\ editors' = IF InEditorGroup(account[u]) THEN editors \cup {u} ELSE editors \ {u}
      BY <1>6, <2>2 DEF CommitLogin, SyncGroup
    <2>4. /\ session'[new] = ses
          /\ \A k \in Sessions : k # new => session'[k] = session[k]
      BY <2>1, <2>3 DEF SerialInv, RowInv, TypeOK
    <2>5. FreshCopies' /\ KeysDiffer'
      <3>1. /\ request'[r] = None
            /\ \A q \in Requests : q # r => request'[q] = request[q]
        BY <2>3, FinishedIsNone
      <3>2. \A q \in Requests : q # r /\ request[q] # None /\ request[q].op = "login" =>
               request[q].key \in Sessions /\ request[q].key # new
        BY <1>6, <1>b, <2>1, RequestFields DEF CommitLogin, SerialInv, KeysDiffer
      <3>3. FreshCopies'
        BY <2>3, <2>4, <3>1, <3>2 DEF SerialInv, FreshCopies
      <3>4. KeysDiffer'
        BY <3>1 DEF SerialInv, KeysDiffer
      <3>5. QED
        BY <3>3, <3>4
    <2>6. Follows(ses, account[ses.user])
      BY <2>1, <2>2, <1>b DEF Follows, Account
    <2>7. SessionsFollow'
      BY <2>3, <2>4, <2>6 DEF SerialInv, SessionsFollow
    <2>8. EditorsAreActiveAdmins'
      BY <2>1, <2>3 DEF SerialInv, EditorsAreActiveAdmins
    <2>9. SessionStep
      BY <2>2, <2>3, <2>4 DEF SessionStep, ChangesEndSessions, NoSessionRevives, Usable
    <2>10. QED
      BY <1>a, <2>5, <2>7, <2>8, <2>9 DEF SerialInv
  <1>7. ASSUME NEW r \in Requests, Abort(r)
        PROVE  SerialInv' /\ SessionStep
    <2>1. UNCHANGED <<account, editors, session>> /\ Finish(r)
      BY <1>7 DEF Abort
    <2>2. FreshCopies' /\ KeysDiffer'
      BY <2>1, FinishedIsNone DEF FreshCopies, KeysDiffer, SerialInv
    <2>3. QED
      BY <1>a, <2>1, <2>2
         DEF SerialInv, SessionsFollow, EditorsAreActiveAdmins, SessionStep,
             ChangesEndSessions, NoSessionRevives, Usable
  <1>8. ASSUME NEW k \in Sessions, EndSession(k)
        PROVE  SerialInv' /\ SessionStep
    <2>1. /\ UNCHANGED <<account, editors, request>> /\ session'[k] = None
          /\ \A j \in Sessions : j # k => session'[j] = session[j]
      BY <1>8 DEF EndSession, SerialInv, RowInv, TypeOK
    <2>2. \A r \in Requests : request[r] # None /\ request[r].op = "login" =>
             request[r].key \in Sessions
      BY <1>b, RequestFields
    <2>3. FreshCopies' /\ KeysDiffer'
      BY <2>1, <2>2 DEF FreshCopies, KeysDiffer, SerialInv
    <2>4. SessionsFollow' /\ EditorsAreActiveAdmins'
      BY <2>1 DEF SerialInv, SessionsFollow, EditorsAreActiveAdmins
    <2>5. SessionStep
      BY <2>1 DEF SessionStep, ChangesEndSessions, NoSessionRevives, Usable
    <2>6. QED
      BY <1>a, <2>3, <2>4, <2>5 DEF SerialInv
  <1>9. CASE UNCHANGED vars
    BY <1>a, <1>9 DEF vars, SerialInv, FreshCopies, KeysDiffer, SessionsFollow,
       EditorsAreActiveAdmins, SessionStep, ChangesEndSessions, NoSessionRevives, Usable
  <1>10. QED
    BY <1>1, <1>2, <1>3, <1>4, <1>5, <1>6, <1>7, <1>8, <1>9 DEF Next

(* What MCSpec keeps: requests overlap, or everything above holds.          *)
RacingOrSerial == racing \/ (SerialInv /\ OneForEach)

LEMMA MCInitially == MCInit => RacingOrSerial
  BY InitSerialInv DEF MCInit, Init, OneForEach, RacingOrSerial

LEMMA MCStep ==
  RacingOrSerial /\ [MCNext]_<<vars, racing>> => RacingOrSerial' /\ [racing \/ SessionStep]_vars
  <1> SUFFICES ASSUME SerialInv, OneForEach, [MCNext]_<<vars, racing>>, ~racing
               PROVE  SerialInv' /\ OneForEach' /\ [SessionStep]_vars
    BY DEF MCNext, RacingOrSerial, vars
  <1>1. [Next]_vars
    BY DEF MCNext
  <1>2. OneForEach'
    BY DEF MCNext, OneForEach, vars
  <1>3. QED
    BY <1>1, <1>2, NextSerial

LEMMA MCInvariance == MCSpec => []RacingOrSerial
  BY MCInitially, MCStep, PTL DEF MCSpec

LEMMA MCSteps == MCSpec => [][racing \/ SessionStep]_vars
  BY MCInitially, MCStep, PTL DEF MCSpec

(* Unless requests about one person overlap, a change of role or status     *)
(* leaves no session of that person that ActiveAccountMiddleware accepts.   *)
THEOREM SerialChangeEndsSessions == MCSpec => SessionsEndUnlessRacing
  <1>1. [racing \/ SessionStep]_vars => [racing \/ ChangesEndSessions]_vars
    BY DEF SessionStep
  <1>2. QED
    BY <1>1, MCSteps, PTL DEF SessionsEndUnlessRacing

(* ... and a session that was invalidated is never accepted again.          *)
THEOREM SerialInvalidatedStaysInvalid == MCSpec => NoRevivalUnlessRacing
  <1>1. [racing \/ SessionStep]_vars => [racing \/ NoSessionRevives]_vars
    BY DEF SessionStep
  <1>2. QED
    BY <1>1, MCSteps, PTL DEF NoRevivalUnlessRacing

(* ... and the editor group holds exactly the active Admins, as             *)
(* sync_wagtail_editor_group means it to.                                   *)
THEOREM SerialEditorsAreActiveAdmins == MCSpec => []GroupUnlessRacing
  <1>1. RacingOrSerial => GroupUnlessRacing
    BY DEF RacingOrSerial, SerialInv, GroupUnlessRacing
  <1>2. QED
    BY <1>1, MCInvariance, PTL

-----------------------------------------------------------------------------
(* The tables of capabilities, permissions and the contact page's policy    *)
(* agree about a user whose is_active is right.                             *)
LEMMA TablesAgree ==
  ASSUME NEW user, user.role \in AnyRole, user.is_active <=> user.status = "ACTIVE"
  PROVE  AgreeAbout(user)
  <1>1. /\ RoleCapabilities["OWNER"] = Capability
        /\ RoleCapabilities["ADMIN"] =
             {"listing.manage", "listing.publish", "property.manage", "inquiry.manage",
              "article.manage"}
        /\ RoleCapabilities["MAINTAINER"] = {"technical.maintain"}
        /\ RoleCapabilities["CUSTOMER"] = {}
    BY DEF RoleCapabilities
  <1>2. \A app \in DOMAIN AskedFor :
           /\ app \in Apps
           /\ AskedFor[app] \in {"property.manage", "listing.manage", "inquiry.manage",
                                 "article.manage"}
    BY DEF AskedFor, Apps
  <1>3. /\ HasPerm(user, "wagtailadmin", "access", "admin")
             <=> user.status = "ACTIVE" /\ user.role \in {"OWNER", "ADMIN"}
        /\ \A app \in DOMAIN AskedFor : \A action \in {"add", "change"} :
             HasPerm(user, app, action, "record")
               <=> user.status = "ACTIVE" /\ user.role \in {"OWNER", "ADMIN"}
    BY <1>2 DEF HasPerm
  <1>4. \A app \in DOMAIN AskedFor :
           HasCapability(user, AskedFor[app])
             <=> user.status = "ACTIVE" /\ user.role \in {"OWNER", "ADMIN"}
    BY <1>1, <1>2 DEF HasCapability, AnyRole, Capability
  <1>5. MayEditContactPage(user) <=> ListedForContactPage(user)
    BY <1>1 DEF MayEditContactPage, ListedForContactPage, HasCapability, AnyRole, Capability
  <1>6. QED
    BY <1>3, <1>4, <1>5 DEF AgreeAbout

(* However an account came to its role and status, its capabilities, its    *)
(* permissions and its editor group let it do the same things, unless       *)
(* requests about one person overlap.                                       *)
THEOREM SerialRightsAgree == MCSpec => []RightsUnlessRacing
  <1>1. ASSUME SerialInv
        PROVE  RightsAgree
    <2>1. ASSUME NEW u \in Staff
          PROVE  AgreeAbout(account[u])
      <3>1. account[u].role \in AnyRole /\ FlagsOf(account[u])
        BY <1>1 DEF SerialInv, RowInv, TypeOK, Account, FlagsAgree, Role, AnyRole
      <3>2. QED
        BY <3>1, TablesAgree DEF FlagsOf
    <2>2. ASSUME NEW u \in Staff
          PROVE  u \in editors <=> HasCapability(account[u], "article.manage")
      <3>1. u \in editors <=> account[u].role = "ADMIN" /\ account[u].status = "ACTIVE"
        BY <1>1 DEF SerialInv, EditorsAreActiveAdmins, InEditorGroup
      <3>2. account[u].role \in {"ADMIN", "MAINTAINER"}
        BY <1>1 DEF SerialInv, RowInv, TypeOK, Account, Role
      <3>3. /\ "article.manage" \in RoleCapabilities["ADMIN"]
            /\ "article.manage" \notin RoleCapabilities["MAINTAINER"]
        BY DEF RoleCapabilities
      <3>4. QED
        BY <3>1, <3>2, <3>3 DEF HasCapability
    <2>3. ASSUME NEW role \in AnyRole, NEW status \in AnyStatus
          PROVE  AgreeAbout([role |-> role, status |-> status, is_active |-> status = "ACTIVE"])
      BY <2>3, TablesAgree
    <2>4. QED
      BY <2>1, <2>2, <2>3 DEF RightsAgree
  <1>2. RacingOrSerial => RightsUnlessRacing
    BY <1>1 DEF RacingOrSerial, RightsUnlessRacing
  <1>3. QED
    BY <1>2, MCInvariance, PTL

=============================================================================
