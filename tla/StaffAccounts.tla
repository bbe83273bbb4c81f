--------------------------- MODULE StaffAccounts ----------------------------
(***************************************************************************)
(* The staff accounts of apps/accounts: the Owner changes roles and        *)
(* statuses on the staff page, staff sign in and use their sessions, and   *)
(* every save of a User moves the user between Wagtail's editor groups.    *)
(*                                                                         *)
(* staff_action reads the target User without a lock and hands it to       *)
(* change_staff_role or change_account_status, which save some columns of  *)
(* what was read: a request is a start, holding that copy, and a commit.   *)
(* Signing in is the same: authenticate() reads the User, login() puts the *)
(* session_version it read in the session.  The accounts of this module    *)
(* are the ADMIN and MAINTAINER ones, the only ones staff_action finds;    *)
(* the Owner who acts is not among them and keeps the right to.            *)
(***************************************************************************)
EXTENDS Naturals

CONSTANTS
    Staff,         \* the Admin and Maintainer accounts
    Sessions,      \* the session keys that can be handed out
    Requests,      \* the requests that can be in progress at the same time
    None,          \* no request, no session
    MaxVersion     \* bound: no session_version above it is saved

ASSUME VersionAssumption == MaxVersion \in Nat \ {0}

VARIABLES
    account,       \* the committed User rows
    editors,       \* the members of the group "Lala Land Content Admins"
    session,       \* the session store: who signed in, with which version
    request        \* the User each request has read, and what it will do

vars == <<account, editors, session, request>>

Role == {"ADMIN", "MAINTAINER"}
Status == {"ACTIVE", "SUSPENDED", "DISABLED"}

Account ==
    [role: Role, status: Status, is_active: BOOLEAN, is_staff: BOOLEAN,
     disabled_at: BOOLEAN, session_version: Nat]
Session == [user: Staff, version: Nat]
Request ==
    [op: {"role", "status"}, user: Staff, copy: Account]
    \cup [op: {"login"}, user: Staff, copy: Account, key: Sessions]

(* accept_staff_invitation creates an ACTIVE account of the invited role.   *)
NewAccount(role) ==
    [role |-> role, status |-> "ACTIVE", is_active |-> TRUE, is_staff |-> role = "ADMIN",
     disabled_at |-> FALSE, session_version |-> 1]

InEditorGroup(user) == user.role = "ADMIN" /\ user.status = "ACTIVE"

Init ==
    /\ account \in [Staff -> {NewAccount(role) : role \in Role}]
    /\ editors = {u \in Staff : InEditorGroup(account[u])}
    /\ session = [k \in Sessions |-> None]
    /\ request = [r \in Requests |-> None]

-----------------------------------------------------------------------------
(* Mutants of RoleChanged and StatusChanged: the version goes the wrong     *)
(* way; it stays.                                                           *)
RoleChangedBack(user, role) ==
    [user EXCEPT !.role = role, !.is_staff = (role = "ADMIN"), !.session_version = @ - 1]
RoleChangedKeepsVersion(user, role) ==
    [user EXCEPT !.role = role, !.is_staff = (role = "ADMIN")]
StatusChangedKeepsVersion(user, status) ==
    [user EXCEPT !.status = status, !.disabled_at = (status = "DISABLED"),
                 !.is_active = (status = "ACTIVE")]

(* change_staff_role and change_account_status, on the User just read.      *)
RoleChanged(user, role) ==
    [user EXCEPT !.role = role, !.is_staff = (role = "ADMIN"), !.session_version = @ + 1]
StatusChanged(user, status) ==
    [user EXCEPT !.status = status, !.disabled_at = (status = "DISABLED"),
                 !.is_active = (status = "ACTIVE"), !.session_version = @ + 1]

Begin(r, req) ==
    /\ request[r] = None
    /\ request' = [request EXCEPT ![r] = req]
    /\ UNCHANGED <<account, editors, session>>

StartRoleChange(r, u, role) ==
    Begin(r, [op |-> "role", user |-> u, copy |-> RoleChanged(account[u], role)])

StartStatusChange(r, u, status) ==
    Begin(r, [op |-> "status", user |-> u, copy |-> StatusChanged(account[u], status)])

(* RoleAwareAuthenticationBackend.user_can_authenticate *)
MayAuthenticate(user) == user.status = "ACTIVE" /\ user.is_active

StartLogin(r, u, k) ==
    /\ session[k] = None
    /\ \A q \in {x \in Requests : request[x] # None} :
          request[q].op = "login" => request[q].key # k
    /\ MayAuthenticate(account[u])
    /\ Begin(r, [op |-> "login", user |-> u, copy |-> account[u], key |-> k])

-----------------------------------------------------------------------------
(* User.save adds is_active to the columns it writes when the instance has  *)
(* it wrong for its status.                                                 *)
ActiveFlag(row, copy) ==
    IF copy.is_active = (copy.status = "ACTIVE") THEN row.is_active
    ELSE copy.status = "ACTIVE"

(* Mutant of WithRoleOf: is_active is always among the columns.             *)
WithRoleAndActiveOf(row, copy) ==
    [row EXCEPT !.role = copy.role, !.is_staff = copy.is_staff,
                !.session_version = copy.session_version, !.is_active = copy.is_active]

(* save(update_fields=...) writes the columns it names and leaves the rest. *)
WithRoleOf(row, copy) ==
    [row EXCEPT !.role = copy.role, !.is_staff = copy.is_staff,
                !.session_version = copy.session_version,
                !.is_active = ActiveFlag(row, copy)]
WithStatusOf(row, copy) ==
    [row EXCEPT !.status = copy.status, !.disabled_at = copy.disabled_at,
                !.is_active = copy.is_active, !.session_version = copy.session_version]

(* Mutant of SyncGroup: nobody is taken out of the group.                   *)
SyncGroupAddsOnly(user, copy) ==
    editors' = IF InEditorGroup(copy) THEN editors \cup {user} ELSE editors

(* post_save: the group follows the role and status of the saved instance.  *)
SyncGroup(user, copy) ==
    editors' = IF InEditorGroup(copy) THEN editors \cup {user} ELSE editors \ {user}

Finish(r) == request' = [request EXCEPT ![r] = None]

CommitRoleChange(r) ==
    /\ request[r] # None
    /\ request[r].op = "role"
    /\ request[r].copy.session_version <= MaxVersion
    /\ account' = [account EXCEPT ![request[r].user] = WithRoleOf(@, request[r].copy)]
    /\ SyncGroup(request[r].user, request[r].copy)
    /\ Finish(r)
    /\ UNCHANGED session

CommitStatusChange(r) ==
    /\ request[r] # None
    /\ request[r].op = "status"
    /\ request[r].copy.session_version <= MaxVersion
    /\ account' = [account EXCEPT ![request[r].user] = WithStatusOf(@, request[r].copy)]
    /\ SyncGroup(request[r].user, request[r].copy)
    /\ Finish(r)
    /\ UNCHANGED session

(* login() saves last_login of the User it read, which runs post_save too,  *)
(* and record_session_version fills the session.                            *)
CommitLogin(r) ==
    /\ request[r] # None
    /\ request[r].op = "login"
    /\ session' = [session EXCEPT ![request[r].key] =
           [user |-> request[r].user, version |-> request[r].copy.session_version]]
    /\ SyncGroup(request[r].user, request[r].copy)
    /\ Finish(r)
    /\ UNCHANGED account

Abort(r) ==
    /\ request[r] # None
    /\ Finish(r)
    /\ UNCHANGED <<account, editors, session>>

(* ActiveAccountMiddleware lets a request of session k through.             *)
Usable(k) ==
    /\ session[k] # None
    /\ MayAuthenticate(account[session[k].user])
    /\ session[k].version = account[session[k].user].session_version

(* A visit with a session that is not usable ends in logout(); the other    *)
(* way a session ends is its idle or absolute time, or signing out.         *)
EndSession(k) ==
    /\ session[k] # None
    /\ session' = [session EXCEPT ![k] = None]
    /\ UNCHANGED <<account, editors, request>>

Next ==
    \/ \E r \in Requests :
          \/ \E u \in Staff :
                \/ \E role \in Role : StartRoleChange(r, u, role)
                \/ \E status \in Status : StartStatusChange(r, u, status)
                \/ \E k \in Sessions : StartLogin(r, u, k)
          \/ CommitRoleChange(r)
          \/ CommitStatusChange(r)
          \/ CommitLogin(r)
          \/ Abort(r)
    \/ \E k \in Sessions : EndSession(k)

Spec == Init /\ [][Next]_vars

-----------------------------------------------------------------------------
TypeOK ==
    /\ account \in [Staff -> Account]
    /\ editors \subseteq Staff
    /\ session \in [Sessions -> Session \cup {None}]
    /\ request \in [Requests -> Request \cup {None}]

(* The columns that repeat one another agree in every row, although role    *)
(* and status are saved by different functions from copies of any age:      *)
(* is_active with status (models.py and change_account_status both set it), *)
(* disabled_at with status, is_staff with role.                             *)
FlagsOf(user) ==
    /\ user.is_active <=> user.status = "ACTIVE"
    /\ user.disabled_at <=> user.status = "DISABLED"
    /\ user.is_staff <=> user.role = "ADMIN"
FlagsAgree == \A u \in Staff : FlagsOf(account[u])

(* A change of role or status leaves no session of that person that the     *)
(* middleware would let through.                                            *)
ChangesEndSessions ==
    \A u \in Staff :
        account'[u].role # account[u].role \/ account'[u].status # account[u].status
        => \A k \in Sessions : session[k] # None /\ session[k].user = u => ~Usable(k)'
ChangeEndsSessions == [][ChangesEndSessions]_vars

(* A session that was invalidated stays so: no later change, in particular  *)
(* no reactivation, makes the middleware accept it again.                   *)
NoSessionRevives == \A k \in Sessions : session[k] # None /\ ~Usable(k) => ~Usable(k)'

(* The editor group holds exactly the active Admins, whichever of the saves *)
(* of a User ran the post_save signal last.                                 *)
EditorsAreActiveAdmins == editors = {u \in Staff : InEditorGroup(account[u])}

=============================================================================
