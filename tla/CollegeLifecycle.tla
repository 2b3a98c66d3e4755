-------------------------- MODULE CollegeLifecycle --------------------------
(* Colleges and their users (modules/colleges/colleges.service.ts,            *)
(* modules/users/users.service.ts): creation, the one admin of a college, the *)
(* approval of its deletion, and the users that come and go.  A request reads *)
(* rows, and saves later what it read; each query is a step, a transaction is *)
(* READ COMMITTED, and the tables have no foreign keys.  A token holds the    *)
(* role and the college its user had at login.  Whether a name or an e-mail   *)
(* address is taken, a password fits or a user is disabled is data: such a    *)
(* request ends without a change, like one whose query fails.                 *)
EXTENDS Integers, FiniteSets, TenantScope

CONSTANTS
    Colleges, Users,   \* ids: a row gets one that no row had before
    Requests,          \* requests handled at the same time
    InitialColleges,   \* the tables at the start: colleges in use,
    InitialUsers,      \* and who is in them
    MaxRequests,       \* requests in a behaviour
    Gone               \* what the tables hold for a row that was deleted

Statuses == {"active", "inactive", "delete_pending"}
Roles == {"COLLEGE_ADMIN", "FLEET_MANAGER", "STUDENT"}
UserRow == [role : Roles, college : Colleges]

ASSUME LifecycleAssumption ==
    /\ None \notin Colleges \cup Users
    /\ None \notin UserRow /\ Gone \notin UserRow
    /\ None \notin Statuses /\ Gone \notin Statuses
    /\ None # Gone
    /\ InitialColleges \subseteq Colleges
    /\ InitialUsers \in [Users -> UserRow \cup {None}]
    /\ \A u \in Users :
         InitialUsers[u] # None => InitialUsers[u].college \in InitialColleges
    /\ MaxRequests \in Nat

VARIABLES
    colleges,          \* table colleges: the status, Gone or None
    users,             \* table users: the row, Gone or None
    data,              \* the colleges with a row in COLLEGE_BUSINESS_TABLES
    tokens,            \* what the token of a user says
    op,                \* what each request has reached
    requests,          \* requests so far
    calm,              \* history: one request at a time, none of them with a
                       \* token or a selected college that was out of date
    clashed            \* history: the colleges for which a request started with
                       \* such a token or selection, or overlapped a deletion

tables == <<colleges, users, data>>
vars == <<tables, tokens, op, requests, calm, clashed>>

Idle == [pc |-> "idle", college |-> None, user |-> None, status |-> None, row |-> None,
         others |-> {}]

HasCollege(c) == colleges[c] \in Statuses
HasUser(u) == users[u] \in UserRow
Members(c) == {u \in Users : HasUser(u) /\ users[u].college = c}
Admins(c) == {u \in Members(c) : users[u].role = "COLLEGE_ADMIN"}
Busy(r) == op[r].pc # "idle"

\* The request may delete its college.
Deleting(o) == o.pc \in {"users", "remaining", "data", "delete"}

Super == [id |-> None, role |-> "SUPER_ADMIN", college |-> None]
SignedIn == {u \in Users : tokens[u] # None}
ActorOf(u) == [id |-> u, role |-> tokens[u].role, college |-> tokens[u].college]
Actors == {Super} \cup {ActorOf(u) : u \in SignedIn}

\* roleLevel
Level(role) ==
    CASE role = "SUPER_ADMIN" -> 4
      [] role = "COLLEGE_ADMIN" -> 3
      [] role = "FLEET_MANAGER" -> 2
      [] role = "STUDENT" -> 1

\* Mutant: a super admin may assign every role.
AllowedRolesAll(actor) ==
    CASE actor.role = "SUPER_ADMIN" -> Roles \cup {"SUPER_ADMIN"}
      [] actor.role = "COLLEGE_ADMIN" -> {"FLEET_MANAGER", "STUDENT"}
      [] actor.role = "FLEET_MANAGER" -> {"STUDENT"}
      [] actor.role = "STUDENT" -> {}

\* getAllowedCreateRoles and getAllowedUpdateRoles
AllowedRoles(actor) ==
    CASE actor.role \in {"SUPER_ADMIN", "COLLEGE_ADMIN"} -> {"FLEET_MANAGER", "STUDENT"}
      [] actor.role = "FLEET_MANAGER" -> {"STUDENT"}
      [] actor.role = "STUDENT" -> {}

\* findById and assertUserManagementAccess
MayManage(actor, u) ==
    /\ HasUser(u)
    /\ InScope(actor, users[u].college)
    /\ u # actor.id
    /\ Level(users[u].role) < Level(actor.role)

Init ==
    /\ colleges = [c \in Colleges |-> IF c \in InitialColleges THEN "active" ELSE None]
    /\ users = InitialUsers
    /\ data = {}
    /\ tokens = InitialUsers
    /\ op = [r \in Requests |-> Idle]
    /\ requests = 0
    /\ calm = TRUE
    /\ clashed = {}

-----------------------------------------------------------------------------

Fresh(actor, c) ==
    /\ isSuperAdmin(actor) => c = None \/ HasCollege(c)
    /\ ~isSuperAdmin(actor) => HasUser(actor.id) /\ tokens[actor.id] = users[actor.id]

\* A request for college c starts while another one is at work on it, and one
\* of the two may delete it.
Overlaps(c, o) == \E q \in Requests : op[q].college = c /\ (Deleting(op[q]) \/ Deleting(o))

\* A request starts with its first query; o says what it holds after it.
StartAt(r, actor, c, o) ==
    /\ ~Busy(r)
    /\ requests < MaxRequests
    /\ requests' = requests + 1
    /\ calm' = (calm /\ Fresh(actor, c) /\ \A q \in Requests : ~Busy(q))
    /\ clashed' = clashed \cup
                    {b \in Colleges : b = c /\ (~Fresh(actor, c) \/ Overlaps(c, o))}
    /\ UNCHANGED tokens
    /\ op' = [op EXCEPT ![r] = o]

Start(r, actor, o) == StartAt(r, actor, o.college, o)

\* It goes on to the next query, or ends.
GoOn(r, o) ==
    /\ op' = [op EXCEPT ![r] = o]
    /\ UNCHANGED <<tokens, requests, calm, clashed>>

Later(r, pc) == GoOn(r, [op[r] EXCEPT !.pc = pc])

End(r) == GoOn(r, Idle)

\* colleges.create: the college and its admin, in one transaction.
CreateCollege(r) ==
    /\ \E c \in Colleges, u \in Users, status \in {"active", "inactive"} :
         /\ colleges[c] = None /\ users[u] = None
         /\ colleges' = [colleges EXCEPT ![c] = status]
         /\ users' = [users EXCEPT ![u] = [role |-> "COLLEGE_ADMIN", college |-> c]]
    /\ UNCHANGED data
    /\ Start(r, Super, Idle)

\* colleges.updateStatus, requestDelete and cancelDelete: the row is read here
\* and saved by SaveCollege.
SetStatus(r, actor, c, status) ==
    /\ UNCHANGED tables
    /\ Start(r, actor, [Idle EXCEPT !.pc = "saveCollege", !.college = c, !.status = status])

UpdateStatus(r) ==
    \E c \in Colleges, status \in {"active", "inactive"} :
      HasCollege(c) /\ SetStatus(r, Super, c, status)

RequestDelete(r) ==
    \E c \in Colleges :
      colleges[c] = "active" /\ SetStatus(r, Super, c, "delete_pending")

CancelDelete(r) ==
    \E actor \in Actors :
      /\ actor.role = "COLLEGE_ADMIN"
      /\ colleges[actor.college] = "delete_pending"
      /\ SetStatus(r, actor, actor.college, "active")

\* save: a row that was deleted meanwhile is inserted again.
SaveCollege(r) ==
    /\ op[r].pc = "saveCollege"
    /\ colleges' = [colleges EXCEPT ![op[r].college] = op[r].status]
    /\ UNCHANGED <<users, data>>
    /\ End(r)

\* colleges.update: the college is read,
UpdateCollege(r) ==
    \E c \in Colleges :
      /\ HasCollege(c)
      /\ UNCHANGED tables
      /\ \E status \in {colleges[c], "active", "inactive"} :
           Start(r, Super, [Idle EXCEPT !.pc = "admins", !.college = c, !.status = status])

\* then its admins are, the eldest being the one to keep (the order of creation
\* is not modelled: it may be any),
FindAdmins(r) ==
    /\ op[r].pc = "admins"
    /\ UNCHANGED tables
    /\ LET admins == Admins(op[r].college)
       IN  \E first \in IF admins = {} THEN {None} ELSE admins :
             GoOn(r, [op[r] EXCEPT !.pc = "commit", !.user = first,
                                   !.others = admins \ {first}])

\* Mutant: only the first admin is looked at.
SavedFirst(o) ==
    [u \in Users |-> IF u = o.user THEN [role |-> "COLLEGE_ADMIN", college |-> o.college]
                     ELSE users[u]]

\* and the transaction commits: the others are fleet managers, the first is
\* saved as it was read, or a new one is inserted.
SavedAdmins(o) ==
    [u \in Users |->
      CASE u \in o.others -> [role |-> "FLEET_MANAGER", college |-> o.college]
        [] u = o.user -> [role |-> "COLLEGE_ADMIN", college |-> o.college]
        [] OTHER -> users[u]]

CommitUpdate(r) ==
    /\ op[r].pc = "commit"
    /\ colleges' = [colleges EXCEPT ![op[r].college] = op[r].status]
    /\ \/ /\ op[r].user # None
          /\ users' = SavedAdmins(op[r])
       \/ /\ op[r].user = None
          /\ \E u \in Users :
               /\ users[u] = None
               /\ users' = SavedAdmins([op[r] EXCEPT !.user = u])
    /\ UNCHANGED data
    /\ End(r)

\* colleges.remove: by a super admin, or by the admin once it is asked for.
RemoveCollege(r) ==
    \E actor \in Actors, c \in Colleges :
      /\ \/ isSuperAdmin(actor) /\ HasCollege(c)
         \/ /\ actor.role = "COLLEGE_ADMIN" /\ actor.college = c
            /\ colleges[c] = "delete_pending"
      /\ UNCHANGED tables
      /\ Start(r, actor, [Idle EXCEPT !.pc = "users", !.college = c])

CountUsers(r) ==
    /\ op[r].pc = "users"
    /\ UNCHANGED tables
    /\ IF Members(op[r].college) = Admins(op[r].college) THEN Later(r, "data") ELSE End(r)

\* collegeHasRelatedData
LookForData(r) ==
    /\ op[r].pc = "data" /\ op[r].user = None
    /\ UNCHANGED tables
    /\ IF op[r].college \in data THEN End(r) ELSE Later(r, "delete")

DeleteCollege(r) ==
    /\ op[r].pc = "delete" /\ op[r].user = None
    /\ users' = [u \in Users |-> IF u \in Admins(op[r].college) THEN Gone ELSE users[u]]
    /\ colleges' = [colleges EXCEPT ![op[r].college] = Gone]
    /\ UNCHANGED data
    /\ End(r)

-----------------------------------------------------------------------------

\* users.create: the college is that of the token, or one a super admin chose
\* and that was looked up.
CreateUser(r) ==
    \E actor \in Actors, c \in Colleges :
      /\ c = resolveCollegeScope(actor, c)
      /\ isSuperAdmin(actor) => HasCollege(c)
      /\ UNCHANGED tables
      /\ \E role \in AllowedRoles(actor) :
           Start(r, actor, [Idle EXCEPT !.pc = "insert", !.college = c,
                                        !.row = [role |-> role, college |-> c]])

InsertUser(r) ==
    /\ op[r].pc = "insert"
    /\ \E u \in Users : users[u] = None /\ users' = [users EXCEPT ![u] = op[r].row]
    /\ UNCHANGED <<colleges, data>>
    /\ End(r)

\* users.update: a new role, and for a super admin a new college, which is
\* looked up; the row of the others' users keeps the college of the token.
UpdateUser(r) ==
    \E actor \in Actors, u \in Users :
      /\ MayManage(actor, u)
      /\ UNCHANGED tables
      /\ \E role \in {users[u].role} \cup AllowedRoles(actor), c \in Colleges :
           LET o == [Idle EXCEPT !.college = c, !.user = u,
                                 !.row = [role |-> role, college |-> c]]
           IN  \/ /\ c = (IF isSuperAdmin(actor) THEN users[u].college ELSE actor.college)
                  /\ Start(r, actor, [o EXCEPT !.pc = "saveUser"])
               \/ /\ isSuperAdmin(actor) /\ c # users[u].college
                  /\ Start(r, actor, [o EXCEPT !.pc = "college"])

AssertCollegeExists(r) ==
    /\ op[r].pc = "college"
    /\ UNCHANGED tables
    /\ IF HasCollege(op[r].college) THEN Later(r, "saveUser") ELSE End(r)

\* users.updateStatus, profile.changePassword and colleges.resetAdminPassword:
\* a row is read and saved with a field changed that is not modelled.
TouchUser(r) ==
    \E actor \in Actors, u \in Users :
      /\ HasUser(u)
      /\ \/ MayManage(actor, u)
         \/ u = actor.id
         \/ /\ isSuperAdmin(actor) /\ users[u].role = "COLLEGE_ADMIN"
            /\ HasCollege(users[u].college)
      /\ UNCHANGED tables
      /\ Start(r, actor, [Idle EXCEPT !.pc = "saveUser", !.college = users[u].college,
                                      !.user = u, !.row = users[u]])

\* save: a row that was deleted meanwhile is inserted again.
SaveUser(r) ==
    /\ op[r].pc = "saveUser"
    /\ users' = [users EXCEPT ![op[r].user] = op[r].row]
    /\ UNCHANGED <<colleges, data>>
    /\ End(r)

\* users.remove: the row is deleted; with the last user of a college that has
\* no data the college is deleted too, in the same transaction.
RemoveUser(r) ==
    \E actor \in Actors, u \in Users :
      /\ MayManage(actor, u)
      /\ UNCHANGED tables
      /\ Start(r, actor, [Idle EXCEPT !.pc = "remaining", !.college = users[u].college,
                                      !.user = u])

Removed(u) == users' = [users EXCEPT ![u] = Gone]

\* Mutant: the users of other roles are not counted.
CountRemainingAdmins(r) ==
    /\ op[r].pc = "remaining"
    /\ UNCHANGED <<colleges, data>>
    /\ IF Admins(op[r].college) \subseteq {op[r].user}
       THEN UNCHANGED users /\ Later(r, "data")
       ELSE Removed(op[r].user) /\ End(r)

CountRemaining(r) ==
    /\ op[r].pc = "remaining"
    /\ UNCHANGED <<colleges, data>>
    /\ IF Members(op[r].college) \subseteq {op[r].user}
       THEN UNCHANGED users /\ Later(r, "data")
       ELSE Removed(op[r].user) /\ End(r)

LookForRemainingData(r) ==
    /\ op[r].pc = "data" /\ op[r].user # None
    /\ UNCHANGED <<colleges, data>>
    /\ IF op[r].college \in data
       THEN Removed(op[r].user) /\ End(r)
       ELSE UNCHANGED users /\ Later(r, "delete")

DeleteWithLastUser(r) ==
    /\ op[r].pc = "delete" /\ op[r].user # None
    /\ Removed(op[r].user)
    /\ colleges' = [colleges EXCEPT ![op[r].college] = Gone]
    /\ UNCHANGED data
    /\ End(r)

\* A query fails, or a check on the data does: the transaction is undone.
Fail(r) ==
    /\ Busy(r)
    /\ UNCHANGED tables
    /\ End(r)

-----------------------------------------------------------------------------

\* auth.login: the token holds what the row says now.
Login(u) ==
    /\ HasUser(u)
    /\ tokens' = [tokens EXCEPT ![u] = users[u]]
    /\ UNCHANGED <<tables, op, requests, calm, clashed>>

\* The services of vehicles, devices, routes and geofences insert rows of the
\* college of the token, or of the one a super admin selected, without looking
\* it up, and remove them.
AddData(r) ==
    /\ UNCHANGED <<colleges, users>>
    /\ \E actor \in Actors, c \in Colleges :
         /\ actor.role # "STUDENT"
         /\ c = resolveCollegeScope(actor, c)
         /\ isSuperAdmin(actor) => colleges[c] # None
         /\ data' = data \cup {c}
         /\ StartAt(r, actor, c, Idle)

RemoveData(r) ==
    /\ UNCHANGED <<colleges, users>>
    /\ \E c \in data :
         /\ data' = data \ {c}
         /\ Start(r, Super, Idle)

CollegeRequest(r) ==
    \/ CreateCollege(r)
    \/ UpdateStatus(r)
    \/ RequestDelete(r)
    \/ CancelDelete(r)
    \/ SaveCollege(r)
    \/ UpdateCollege(r)
    \/ FindAdmins(r)
    \/ CommitUpdate(r)
    \/ RemoveCollege(r)
    \/ CountUsers(r)
    \/ LookForData(r)
    \/ DeleteCollege(r)

UserRequest(r) ==
    \/ CreateUser(r)
    \/ InsertUser(r)
    \/ UpdateUser(r)
    \/ AssertCollegeExists(r)
    \/ TouchUser(r)
    \/ SaveUser(r)
    \/ RemoveUser(r)
    \/ CountRemaining(r)
    \/ LookForRemainingData(r)
    \/ DeleteWithLastUser(r)

Next ==
    \/ \E r \in Requests :
         CollegeRequest(r) \/ UserRequest(r) \/ Fail(r) \/ AddData(r) \/ RemoveData(r)
    \/ \E u \in Users : Login(u)

Spec == Init /\ [][Next]_vars

-----------------------------------------------------------------------------

TypeOK ==
    /\ colleges \in [Colleges -> Statuses \cup {Gone, None}]
    /\ users \in [Users -> UserRow \cup {Gone, None}]
    /\ data \subseteq Colleges
    /\ tokens \in [Users -> UserRow \cup {None}]
    /\ op \in [Requests ->
         [pc : {"idle", "saveCollege", "admins", "commit", "users", "data", "delete",
                "insert", "college", "saveUser", "remaining"},
          college : Colleges \cup {None}, user : Users \cup {None},
          status : Statuses \cup {None}, row : UserRow \cup {None}, others : SUBSET Users]]
    /\ requests \in 0 .. MaxRequests
    /\ calm \in BOOLEAN
    /\ clashed \subseteq Colleges

\* Without foreign keys it is the services that keep users and operational data
\* from outliving their college.  However requests overlap, an orphan is of a
\* college whose own deletion was overlapped by another request for it, or of
\* one for which a request came with a token or a selection out of date: for
\* every other college the checks of remove and the look-ups of create and
\* update are enough.
Owned ==
    /\ \A u \in Users : HasUser(u) => HasCollege(users[u].college)
                                          \/ users[u].college \in clashed
    /\ \A c \in data : HasCollege(c) \/ c \in clashed

\* "Each college must have exactly one admin." (colleges.service.ts:296): users
\* may be removed and moved so that a college has none or two; the update of a
\* college that no other request disturbs always ends with one.
UpdateLeavesOneAdmin ==
    [][\A r \in Requests, c \in Colleges :
         calm /\ c = op[r].college /\ CommitUpdate(r)
           => Cardinality(Admins(c)') = 1]_vars
=============================================================================
