------------------------------ MODULE Accounts ------------------------------
(***************************************************************************)
(* Organisations, users, memberships, invitations, sign-up, the roles that *)
(* LDAP gives, API keys and their quota (services/sqlstore, api, login,    *)
(* middleware).  A request is the list of the store's commands that it has *)
(* still to run: a handler that has read something replaces its entry by   *)
(* what it does next, and an error drops the rest, for every command is a  *)
(* transaction of its own.                                                 *)
(***************************************************************************)
EXTENDS Integers, FiniteSets, Sequences, SequencesExt

CONSTANTS Slots,        \* requests that are served at the same time
          Names,        \* logins; the email is the login
          KeyNames,     \* names of API keys
          MaxUsers, MaxOrgs, MaxCodes, MaxRequests,   \* bounds
          Limits,       \* limits an administrator may set
          MaxNames,     \* setting.Quota.Global.User
          MaxMembers,   \* setting.Quota.Org.User
          Confs,        \* settings and isolation to check; keyLimit is
                        \* setting.Quota.Org.ApiKey
          Temps,        \* rows of temp_user to start from
          LdapGroups    \* <<[org, role, names]>>, in the order of ldap.toml

ASSUME BoundsAssumption ==
  /\ IsFiniteSet(Slots) /\ Slots # {}
  /\ {MaxUsers, MaxOrgs, MaxCodes, MaxRequests, MaxNames, MaxMembers} \subseteq Nat
  /\ Confs \subseteq [autoAssign : BOOLEAN, verifyEmail : BOOLEAN, serial : BOOLEAN, keyLimit : Int]
  /\ MaxUsers >= 2 /\ MaxOrgs >= 1   \* the rows to start from
  /\ Limits \subseteq Int /\ LdapGroups # <<>>
  /\ LdapGroups \in Seq([org : Nat, role : {"Viewer", "Admin"}, names : SUBSET Names])
  /\ Temps \subseteq Seq([email : Names, org : Nat, role : {"Viewer", "Admin", "none"},
                           status : {"InvitePending", "SignUpStarted", "Completed", "Revoked"}])

VARIABLES orgs,     \* ids of the rows of org
          lastOrg,  \* the ids used so far; none is used twice
          named,    \* the user an org was named after, if it was
          users,    \* table user: login, active org, is_admin
          lastUser,
          members,  \* table org_user: role of a user in an org
          temps,    \* table temp_user, in order of insertion
          keys,     \* table api_key: the names used in each org
          limits,   \* table quota, target api_key
          peak,     \* the largest limit so far of each org
          todo,     \* what each request has still to do
          who,      \* the user each request is about
          moved,    \* requests whose user was moved by another one meanwhile
          conf,     \* settings and isolation of the database
          served    \* number of requests so far

tables == <<orgs, lastOrg, named, users, lastUser, members, temps, keys, limits, peak>>
accountsVars == <<tables, todo, who, moved, conf, served>>

OrgIds == 1..MaxOrgs
UserIds == 1..MaxUsers
Roles == {"Viewer", "Admin"}     \* an editor is like a viewer here
NoRole == "none"
NoUser == [login |-> "", org |-> 0, admin |-> FALSE]

Exists(u) == users[u] # NoUser
ByLogin(n) == {u \in UserIds : Exists(u) /\ users[u].login = n}
Admins(o) == {u \in UserIds : members[o][u] = "Admin"}
OrgsOf(u) == {o \in orgs : members[o][u] # NoRole}
Pending(t) == t.status = "InvitePending"

-----------------------------------------------------------------------------
(* What a request does *)

At(p, op) == todo[p] # <<>> /\ Head(todo[p]).op = op
Then(p, cmds) == todo' = [todo EXCEPT ![p] = cmds \o Tail(@)]
Done(p) == Then(p, <<>>)
Fail(p) == todo' = [todo EXCEPT ![p] = <<>>]

\* A transaction that has written and not committed.
InTx(p) == At(p, "Commit")

\* SQLite locks the database, other databases the rows.
Unlocked(p) == conf.serial => \A q \in Slots \ {p} : ~ InTx(q)

MovedAll(p) == moved' = {q \in Slots : todo[q] # <<>>} \ {p}
Moved(p, u) ==
  moved' = {q \in Slots : q \in moved \/ (q # p /\ todo[q] # <<>> /\ who[q] = u)}

-----------------------------------------------------------------------------
(* The store *)

\* getOrgIdForNewUser: the main organisation is id 1, and is made anew
NewUsersOrg(c) ==
  IF c.skipOrg THEN 0 ELSE IF conf.autoAssign THEN 1 ELSE lastOrg + 1

NewUsersRole(c) ==
  IF conf.autoAssign THEN c.role ELSE "Admin"

CreateUser(p) ==
  /\ At(p, "CreateUser") /\ Unlocked(p)
  /\ LET c == Head(todo[p]) o == NewUsersOrg(c) u == lastUser + 1 IN
       IF ByLogin(c.name) # {} \/ (o > 1 /\ \E other \in orgs : named[other] = c.name)
       THEN Fail(p) /\ UNCHANGED <<tables, who, moved>>
       ELSE /\ u \in UserIds /\ o <= MaxOrgs
            /\ users' = [users EXCEPT ![u] = [login |-> c.name, org |-> o, admin |-> FALSE]]
            /\ lastUser' = u
            /\ who' = [who EXCEPT ![p] = u]
            /\ IF o = 0 THEN UNCHANGED <<orgs, lastOrg, named, members>>
               ELSE /\ orgs' = orgs \cup {o}
                    /\ lastOrg' = IF o > lastOrg THEN o ELSE lastOrg
                    /\ named' = IF o > 1 THEN [named EXCEPT ![o] = c.name] ELSE named
                    /\ members' = [members EXCEPT ![o][u] = NewUsersRole(c)]
            /\ Done(p) /\ MovedAll(p)
            /\ UNCHANGED <<temps, keys, limits, peak>>
  /\ UNCHANGED <<conf, served>>

\* The rows of org_user stay.
DeleteUser(p) ==
  /\ At(p, "DeleteUser") /\ Unlocked(p)
  /\ users' = [users EXCEPT ![who[p]] = NoUser]
  /\ Done(p)
  /\ UNCHANGED <<orgs, lastOrg, named, lastUser, members, temps, keys, limits, peak>>
  /\ UNCHANGED <<who, moved, conf, served>>

UpdateUserPermissions(p) ==
  /\ At(p, "UpdateUserPermissions") /\ Unlocked(p)
  /\ users' = IF Exists(who[p])
              THEN [users EXCEPT ![who[p]].admin = Head(todo[p]).admin] ELSE users
  /\ Done(p)
  /\ UNCHANGED <<orgs, lastOrg, named, lastUser, members, temps, keys, limits, peak>>
  /\ UNCHANGED <<who, moved, conf, served>>

\* The list of the user's organisations is read before the transaction.
SetUsingOrg(p) ==
  /\ At(p, "SetUsingOrg") /\ Unlocked(p)
  /\ LET o == Head(todo[p]).org IN
       IF o \in OrgsOf(who[p]) THEN Then(p, <<[op |-> "SetOrg", org |-> o]>>) ELSE Fail(p)
  /\ UNCHANGED <<tables, who, moved, conf, served>>

SetOrg(p) ==
  /\ At(p, "SetOrg") /\ Unlocked(p)
  /\ users' = IF Exists(who[p])
              THEN [users EXCEPT ![who[p]].org = Head(todo[p]).org] ELSE users
  /\ Done(p)
  /\ UNCHANGED <<orgs, lastOrg, named, lastUser, members, temps, keys, limits, peak>>
  /\ UNCHANGED <<who, moved, conf, served>>

CreateOrg(p) ==
  /\ At(p, "CreateOrg") /\ Unlocked(p)
  /\ lastOrg + 1 \in OrgIds
  /\ lastOrg' = lastOrg + 1
  /\ orgs' = orgs \cup {lastOrg'}
  /\ members' = [members EXCEPT ![lastOrg'][who[p]] = "Admin"]
  /\ Done(p) /\ MovedAll(p)
  /\ UNCHANGED <<named, users, lastUser, temps, keys, limits, peak, who, conf, served>>

\* Rows of quota and of the organisation's alerts stay.
DeleteOrg(p) ==
  /\ At(p, "DeleteOrg") /\ Unlocked(p)
  /\ LET o == Head(todo[p]).org IN
       IF o \notin orgs THEN Fail(p) /\ UNCHANGED <<tables, moved>>
       ELSE /\ orgs' = orgs \ {o}
            /\ members' = [members EXCEPT ![o] = [u \in UserIds |-> NoRole]]
            /\ keys' = [keys EXCEPT ![o] = {}]
            /\ temps' = [i \in DOMAIN temps |->
                           IF temps[i].org = o THEN [temps[i] EXCEPT !.status = "gone"] ELSE temps[i]]
            /\ Done(p) /\ MovedAll(p)
            /\ UNCHANGED <<lastOrg, named, users, lastUser, limits, peak>>
  /\ UNCHANGED <<who, conf, served>>

AddOrgUser(p) ==
  /\ At(p, "AddOrgUser") /\ Unlocked(p)
  /\ LET c == Head(todo[p])
         err == IF members[c.org][who[p]] # NoRole THEN "AlreadyAdded"
                ELSE IF c.org \notin orgs THEN "OrgNotFound" ELSE ""
     IN IF err = ""
        THEN /\ members' = [members EXCEPT ![c.org][who[p]] = c.role]
             /\ Done(p) /\ Moved(p, who[p])
        ELSE /\ IF err \in c.unless THEN Done(p) ELSE Fail(p)
             /\ UNCHANGED <<members, moved>>
  /\ UNCHANGED <<orgs, lastOrg, named, users, lastUser, temps, keys, limits, peak, who, conf, served>>

\* Defect: the check counts the administrators before its own write.
ChangesRoleEarly(p, role) ==
  LET o == Head(todo[p]).org IN
  IF Admins(o) = {} THEN Fail(p)
  ELSE Then(p, <<[op |-> "Commit", org |-> o, role |-> role, saw |-> Admins(o)]>>)

\* UpdateOrgUser and RemoveOrgUser up to the commit.  The check for an
\* administrator sees what is committed, and the transaction's own write.
ChangesRole(p, role) ==
  LET o == Head(todo[p]).org
      left == IF role = "Admin" THEN Admins(o) \cup {who[p]} ELSE Admins(o) \ {who[p]}
  IN IF left = {} THEN Fail(p)
     ELSE Then(p, <<[op |-> "Commit", org |-> o, role |-> role, saw |-> Admins(o)]>>)

RowFree(p, o) == \A q \in Slots : ~ (InTx(q) /\ Head(todo[q]).org = o /\ who[q] = who[p])

UpdateOrgUser(p) ==
  /\ At(p, "UpdateOrgUser") /\ Unlocked(p) /\ RowFree(p, Head(todo[p]).org)
  /\ IF members[Head(todo[p]).org][who[p]] = NoRole THEN Fail(p)
     ELSE ChangesRole(p, Head(todo[p]).role)
  /\ UNCHANGED <<tables, who, moved, conf, served>>

RemoveOrgUser(p) ==
  /\ At(p, "RemoveOrgUser") /\ Unlocked(p) /\ RowFree(p, Head(todo[p]).org)
  /\ ChangesRole(p, NoRole)
  /\ UNCHANGED <<tables, who, moved, conf, served>>

\* A row that DeleteOrg removed meanwhile is not written.
Commit(p) ==
  /\ InTx(p)
  /\ LET c == Head(todo[p]) IN
       /\ members' = IF members[c.org][who[p]] = NoRole THEN members
                     ELSE [members EXCEPT ![c.org][who[p]] = c.role]
       /\ Moved(p, who[p])
  /\ Done(p)
  /\ UNCHANGED <<orgs, lastOrg, named, users, lastUser, temps, keys, limits, peak, who, conf, served>>

CreateTempUser(p) ==
  /\ At(p, "CreateTempUser") /\ Unlocked(p)
  /\ Len(temps) < MaxCodes
  /\ temps' = Append(temps, Head(todo[p]).row)
  /\ Done(p)
  /\ UNCHANGED <<orgs, lastOrg, named, users, lastUser, members, keys, limits, peak>>
  /\ UNCHANGED <<who, moved, conf, served>>

\* Whatever the status was, and of whichever organisation.
UpdateTempUserStatus(p) ==
  /\ At(p, "UpdateTempUserStatus") /\ Unlocked(p)
  /\ LET c == Head(todo[p]) IN
       temps' = IF c.code \in DOMAIN temps /\ temps[c.code].status # "gone"
                THEN [temps EXCEPT ![c.code].status = c.status] ELSE temps
  /\ Done(p)
  /\ UNCHANGED <<orgs, lastOrg, named, users, lastUser, members, keys, limits, peak>>
  /\ UNCHANGED <<who, moved, conf, served>>

AddApiKey(p) ==
  /\ At(p, "AddApiKey") /\ Unlocked(p)
  /\ LET c == Head(todo[p]) IN
       IF c.key \in keys[c.org] THEN Fail(p) /\ UNCHANGED keys
       ELSE keys' = [keys EXCEPT ![c.org] = @ \cup {c.key}] /\ Done(p)
  /\ UNCHANGED <<orgs, lastOrg, named, users, lastUser, members, temps, limits, peak>>
  /\ UNCHANGED <<who, moved, conf, served>>

DeleteApiKey(p) ==
  /\ At(p, "DeleteApiKey") /\ Unlocked(p)
  /\ LET c == Head(todo[p]) IN keys' = [keys EXCEPT ![c.org] = @ \ {c.key}]
  /\ Done(p)
  /\ UNCHANGED <<orgs, lastOrg, named, users, lastUser, members, temps, limits, peak>>
  /\ UNCHANGED <<who, moved, conf, served>>

\* A negative limit is none.
Above(l, m) == IF l < 0 \/ m < 0 THEN -1 ELSE IF l > m THEN l ELSE m

UpdateOrgQuota(p) ==
  /\ At(p, "UpdateOrgQuota") /\ Unlocked(p)
  /\ LET c == Head(todo[p]) IN
       /\ limits' = [limits EXCEPT ![c.org] = c.limit]
       /\ peak' = [peak EXCEPT ![c.org] = Above(c.limit, @)]
  /\ Done(p)
  /\ UNCHANGED <<orgs, lastOrg, named, users, lastUser, members, temps, keys>>
  /\ UNCHANGED <<who, moved, conf, served>>

-----------------------------------------------------------------------------
(* The handlers *)

CreateUserCmd(n, skipOrg, role) ==
  [op |-> "CreateUser", name |-> n, skipOrg |-> skipOrg, role |-> role]
StatusCmd(code, status) == [op |-> "UpdateTempUserStatus", code |-> code, status |-> status]
AddCmd(o, role, unless) == [op |-> "AddOrgUser", org |-> o, role |-> role, unless |-> unless]
Cmd(op) == [op |-> op]

\* Defect: the limit itself may be exceeded, as that of sessions may.
QuotaReachedLate(target, o) ==
  target = "api_key" /\ limits[o] >= 0 /\ Cardinality(keys[o]) > limits[o]

\* QuotaReached: signed-in requests are counted in their organisation, too.
QuotaReached(target, o) ==
  \/ target = "user" /\ Cardinality({u \in UserIds : Exists(u)}) >= MaxNames
  \/ target = "user" /\ o # 0 /\ Cardinality({u \in UserIds : members[o][u] # NoRole}) >= MaxMembers
  \/ target = "api_key" /\ limits[o] >= 0 /\ Cardinality(keys[o]) >= limits[o]

Quota(p) ==
  /\ At(p, "Quota")
  /\ IF QuotaReached(Head(todo[p]).target, Head(todo[p]).org) THEN Fail(p) ELSE Done(p)
  /\ UNCHANGED <<tables, who, moved, conf, served>>

\* The entry's user, if a row has the login.
Found(p, n) == who' = [who EXCEPT ![p] = CHOOSE u \in ByLogin(n) : TRUE]

addOrgUserHelper(p) ==
  /\ At(p, "addOrgUserHelper")
  /\ LET c == Head(todo[p]) IN
       IF ByLogin(c.name) = {} THEN Fail(p) /\ UNCHANGED who
       ELSE Then(p, <<AddCmd(c.org, c.role, {})>>) /\ Found(p, c.name)
  /\ UNCHANGED <<tables, moved, conf, served>>

\* inviteExistingUserToOrg, or an invitation for somebody new
AddOrgInvite(p) ==
  /\ At(p, "AddOrgInvite")
  /\ LET c == Head(todo[p]) IN
       IF ByLogin(c.name) # {}
       THEN Then(p, <<AddCmd(c.org, c.role, {})>>) /\ Found(p, c.name)
       ELSE /\ Then(p, <<[op |-> "CreateTempUser",
                          row |-> [email |-> c.name, org |-> c.org, role |-> c.role,
                                   status |-> "InvitePending"]]>>)
            /\ UNCHANGED who
  /\ UNCHANGED <<tables, moved, conf, served>>

applyUserInvite(code) ==
  <<AddCmd(temps[code].org, temps[code].role, {"AlreadyAdded"}), StatusCmd(code, "Completed")>>

CompleteInvite(p) ==
  /\ At(p, "CompleteInvite")
  /\ LET c == Head(todo[p]) IN
       IF c.code \in DOMAIN temps /\ Pending(temps[c.code])
       THEN Then(p, <<CreateUserCmd(c.name, TRUE, NoRole)>> \o applyUserInvite(c.code)
                    \o <<[op |-> "SetUsingOrg", org |-> temps[c.code].org]>>)
       ELSE Fail(p)
  /\ UNCHANGED <<tables, who, moved, conf, served>>

SignUp(p) ==
  /\ At(p, "SignUp")
  /\ LET c == Head(todo[p]) IN
       IF ByLogin(c.name) # {} THEN Fail(p)
       ELSE Then(p, <<[op |-> "CreateTempUser",
                       row |-> [email |-> c.name, org |-> 0, role |-> NoRole,
                                status |-> "SignUpStarted"]]>>)
  /\ UNCHANGED <<tables, who, moved, conf, served>>

\* verifyUserSignUpEmail
Verified(n, code) ==
  /\ code \in DOMAIN temps
  /\ temps[code].status # "gone" /\ temps[code].email = n

SignUpStep2(p) ==
  /\ At(p, "SignUpStep2")
  /\ LET c == Head(todo[p]) IN
       IF (conf.verifyEmail /\ ~ Verified(c.name, c.code)) \/ ByLogin(c.name) # {} THEN Fail(p)
       ELSE Then(p, <<CreateUserCmd(c.name, FALSE, "Viewer"), StatusCmd(c.code, "Completed"),
                      [op |-> "JoinInvited", name |-> c.name]>>)
  /\ UNCHANGED <<tables, who, moved, conf, served>>

\* Pending invitations of the email, newest first.
JoinInvited(p) ==
  /\ At(p, "JoinInvited")
  /\ LET n == Head(todo[p]).name
         mine == {i \in DOMAIN temps : Pending(temps[i]) /\ temps[i].email = n}
     IN \E codes \in SetToSeqs(mine) :
          /\ \A i, j \in DOMAIN codes : i < j => codes[i] > codes[j]
          /\ Then(p, [k \in 1..(2 * Cardinality(mine)) |->
                        applyUserInvite(codes[(k + 1) \div 2])[2 - (k % 2)]])
  /\ UNCHANGED <<tables, who, moved, conf, served>>

-----------------------------------------------------------------------------
(* LDAP *)

Groups(n) == {i \in DOMAIN LdapGroups : n \in LdapGroups[i].names}
MappedOrgs(n) == {LdapGroups[i].org : i \in Groups(n)}

\* The first mapping to the organisation whose group the user is in.
Topmost(n, o) ==
  CHOOSE i \in Groups(n) :
    LdapGroups[i].org = o /\ \A j \in Groups(n) : LdapGroups[j].org = o => i <= j
Mapped(n, o) == IF o \notin MappedOrgs(n) THEN NoRole ELSE LdapGroups[Topmost(n, o)].role

\* Login, GetGrafanaUserFor: some group must match
ldapLogin(p) ==
  /\ At(p, "ldapLogin")
  /\ LET c == Head(todo[p]) IN
       IF Groups(c.name) = {} THEN Fail(p) /\ UNCHANGED who
       ELSE LET sync == <<[op |-> "SyncOrgRoles", name |-> c.name], [op |-> "LoggedIn", name |-> c.name]>> IN
            IF ByLogin(c.name) # {} THEN Then(p, sync) /\ Found(p, c.name)
            ELSE Then(p, <<CreateUserCmd(c.name, FALSE, "Viewer")>> \o sync) /\ UNCHANGED who
  /\ UNCHANGED <<tables, moved, conf, served>>

\* initContextWithAuthProxy; the session may have been synced lately
authProxy(p) ==
  /\ At(p, "authProxy")
  /\ LET c == Head(todo[p])
         sync == IF c.expired
                 THEN <<[op |-> "SyncOrgRoles", name |-> c.name], [op |-> "LoggedIn", name |-> c.name]>> ELSE <<>>
     IN IF ByLogin(c.name) # {} THEN Then(p, sync) /\ Found(p, c.name)
        ELSE Then(p, <<CreateUserCmd(c.name, TRUE, NoRole)>> \o sync) /\ UNCHANGED who
  /\ UNCHANGED <<tables, moved, conf, served>>

\* Defect: memberships that no mapping gives are kept.
WrongMapped(n, u) == {o \in OrgsOf(u) \cap MappedOrgs(n) : members[o][u] # Mapped(n, o)}

Wrong(n, u) == {o \in OrgsOf(u) : members[o][u] # Mapped(n, o)}

Change(n, o) ==
  IF Mapped(n, o) = NoRole THEN [op |-> "RemoveOrgUser", org |-> o]
  ELSE [op |-> "UpdateOrgUser", org |-> o, role |-> Mapped(n, o)]
Add(n, o) == AddCmd(o, Mapped(n, o), {"OrgNotFound"})

\* Roles that differ are changed or removed, in the order of a SELECT without
\* ORDER BY; then missing ones are added, in the order of the mappings; one to
\* an organisation that does not exist is skipped.
SyncOrgRoles(p) ==
  /\ At(p, "SyncOrgRoles")
  /\ LET n == Head(todo[p]).name u == who[p] IN
       \E wrong \in SetToSeqs(Wrong(n, u)), missing \in SetToSeqs(MappedOrgs(n) \ OrgsOf(u)) :
         /\ \A i, j \in DOMAIN missing : i < j => Topmost(n, missing[i]) < Topmost(n, missing[j])
         /\ Then(p, [i \in DOMAIN wrong |-> Change(n, wrong[i])]
                      \o [i \in DOMAIN missing |-> Add(n, missing[i])])
  /\ moved' = moved \ {p}
  /\ UNCHANGED <<tables, who, conf, served>>

LoggedIn(p) ==
  /\ At(p, "LoggedIn")
  /\ Done(p)
  /\ UNCHANGED <<tables, who, moved, conf, served>>

\* OAuthLogin after the provider has named the user
OAuthLogin(p) ==
  /\ At(p, "OAuthLogin")
  /\ LET c == Head(todo[p]) IN
       IF ByLogin(c.name) # {} THEN Done(p)
       ELSE Then(p, <<[op |-> "Quota", target |-> "user", org |-> 0],
                      CreateUserCmd(c.name, FALSE, c.role)>>)
  /\ UNCHANGED <<tables, who, moved, conf, served>>

-----------------------------------------------------------------------------
(* Requests arrive.  Who signs in is read from the tables here, once. *)

Begin(p, u, cmds) ==
  /\ todo[p] = <<>> /\ served < MaxRequests
  /\ served' = served + 1
  /\ todo' = [todo EXCEPT ![p] = cmds]
  /\ who' = [who EXCEPT ![p] = u]
  /\ moved' = moved \ {p}
  /\ UNCHANGED <<tables, conf>>

QuotaCmd(target, o) == [op |-> "Quota", target |-> target, org |-> o]

\* GetSignedInUser: the active organisation counts if the user is in it
ActiveRole(u) ==
  IF users[u].org \in orgs THEN members[users[u].org][u] ELSE NoRole

\* Routes for administrators of an organisation (reqOrgAdmin)
OrgAdminRequest(p) ==
  \E u \in UserIds : Exists(u) /\ ActiveRole(u) = "Admin" /\
    LET o == users[u].org IN
    \/ \E n \in Names, role \in Roles, op \in {"addOrgUserHelper", "AddOrgInvite"} :
         Begin(p, u, <<QuotaCmd("user", o), [op |-> op, name |-> n, org |-> o, role |-> role]>>)
    \/ \E v \in 1..lastUser, role \in Roles :
         Begin(p, v, <<[op |-> "UpdateOrgUser", org |-> o, role |-> role]>>)
    \/ \E v \in 1..lastUser : Begin(p, v, <<[op |-> "RemoveOrgUser", org |-> o]>>)
    \/ \E code \in DOMAIN temps : Begin(p, u, <<StatusCmd(code, "Revoked")>>)
    \/ \E k \in KeyNames :
         Begin(p, u, <<QuotaCmd("api_key", o), [op |-> "AddApiKey", org |-> o, key |-> k]>>)
    \/ \E k \in KeyNames : Begin(p, u, <<[op |-> "DeleteApiKey", org |-> o, key |-> k]>>)

\* Routes for everybody who is signed in (reqSignedIn)
UserRequest(p) ==
  \E u \in UserIds : Exists(u) /\
    \/ Begin(p, u, <<Cmd("CreateOrg")>>)
    \/ \E o \in OrgIds : Begin(p, u, <<[op |-> "SetUsingOrg", org |-> o]>>)

\* Routes for Grafana administrators (reqGrafanaAdmin)
GrafanaAdminRequest(p) ==
  \E u \in UserIds : users[u].admin /\
    \/ \E o \in OrgIds : Begin(p, u, <<[op |-> "DeleteOrg", org |-> o]>>)
    \/ \E n \in Names : Begin(p, u, <<CreateUserCmd(n, FALSE, "Viewer")>>)
    \/ \E v \in 1..lastUser : Begin(p, v, <<Cmd("DeleteUser")>>)
    \/ \E v \in 1..lastUser, b \in BOOLEAN :
         Begin(p, v, <<[op |-> "UpdateUserPermissions", admin |-> b]>>)
    \/ \E o \in OrgIds, l \in Limits :
         Begin(p, u, <<[op |-> "UpdateOrgQuota", org |-> o, limit |-> l]>>)

\* Routes without a sign-in, and sign-ins
AnonymousRequest(p) ==
  \E n \in Names :
    \/ Begin(p, 1, <<QuotaCmd("user", 0), [op |-> "SignUp", name |-> n]>>)
    \/ \E code \in DOMAIN temps, op \in {"SignUpStep2", "CompleteInvite"} :
         Begin(p, 1, <<[op |-> op, name |-> n, code |-> code]>>)
    \/ Begin(p, 1, <<[op |-> "ldapLogin", name |-> n]>>)
    \/ \E b \in BOOLEAN : Begin(p, 1, <<[op |-> "authProxy", name |-> n, expired |-> b]>>)
    \/ \E role \in Roles : Begin(p, 1, <<[op |-> "OAuthLogin", name |-> n, role |-> role]>>)

-----------------------------------------------------------------------------
\* The administrator that EnsureAdminUser made, and perhaps an invited user.
AccountsInit ==
  /\ conf \in Confs
  /\ orgs = {1} /\ lastOrg = 1 /\ named = [o \in OrgIds |-> ""]
  /\ \E role \in Roles :
       /\ users = [u \in UserIds |->
                     CASE u = 1 -> [login |-> "root", org |-> 1, admin |-> TRUE]
                       [] u = 2 -> [login |-> "ann", org |-> 1, admin |-> FALSE]
                       [] OTHER -> NoUser]
       /\ members = [o \in OrgIds |-> [u \in UserIds |->
                       CASE o = 1 /\ u = 1 -> "Admin"
                         [] o = 1 /\ u = 2 -> role
                         [] OTHER -> NoRole]]
  /\ lastUser = 2
  /\ temps \in Temps
  /\ keys = [o \in OrgIds |-> {}]
  /\ limits = [o \in OrgIds |-> conf.keyLimit]
  /\ peak = limits
  /\ todo = [p \in Slots |-> <<>>]
  /\ who = [p \in Slots |-> 1]
  /\ moved = {} /\ served = 0

Store(p) ==
  \/ CreateUser(p) \/ DeleteUser(p) \/ UpdateUserPermissions(p)
  \/ SetUsingOrg(p) \/ SetOrg(p) \/ CreateOrg(p) \/ DeleteOrg(p)
  \/ AddOrgUser(p) \/ UpdateOrgUser(p) \/ RemoveOrgUser(p) \/ Commit(p)
  \/ CreateTempUser(p) \/ UpdateTempUserStatus(p)
  \/ AddApiKey(p) \/ DeleteApiKey(p) \/ UpdateOrgQuota(p)

Handler(p) ==
  \/ Quota(p) \/ addOrgUserHelper(p) \/ AddOrgInvite(p) \/ CompleteInvite(p)
  \/ SignUp(p) \/ SignUpStep2(p) \/ JoinInvited(p) \/ ldapLogin(p) \/ authProxy(p)
  \/ SyncOrgRoles(p) \/ LoggedIn(p) \/ OAuthLogin(p)

Arrival(p) ==
  OrgAdminRequest(p) \/ UserRequest(p) \/ GrafanaAdminRequest(p) \/ AnonymousRequest(p)

AccountsNext == \E p \in Slots : Store(p) \/ Handler(p) \/ Arrival(p)
AccountsSpec == AccountsInit /\ [][AccountsNext]_accountsVars

-----------------------------------------------------------------------------
\* Every value has the shape its table or request gives it.
AccountsTypeOK ==
  /\ orgs \subseteq 1..lastOrg /\ lastOrg \in OrgIds
  /\ named \in [OrgIds -> Names \cup {""}]
  /\ \A u \in UserIds : users[u] = NoUser \/ (u <= lastUser /\ users[u].login \in Names)
  /\ members \in [OrgIds -> [UserIds -> Roles \cup {NoRole}]]
  /\ keys \in [OrgIds -> SUBSET KeyNames]
  /\ who \in [Slots -> UserIds] /\ moved \subseteq Slots

\* validateOneAdminLeftInOrg: an organisation loses its last administrator
\* only when a transaction commits after another one has removed an
\* administrator that it had counted on, which needs two transactions that
\* have both written and do not block each other.
AdminKept ==
  [][\A o \in orgs \cap orgs' : Admins(o) # {} /\ Admins(o)' = {} =>
       ~ conf.serial /\ \E p \in Slots :
         InTx(p) /\ \E u \in Head(todo[p]).saw : u \notin Admins(o)]_accountsVars

\* middleware.Quota checks before the handler adds: requests that are served
\* at the same time may pass it together, but the keys of an organisation
\* exceed the largest limit it had by less than the number of such requests.
KeysWithinQuota ==
  \A o \in OrgIds : peak[o] >= 0 =>
    Cardinality(keys[o]) + Cardinality({p \in Slots : At(p, "AddApiKey") /\ Head(todo[p]).org = o})
      <= peak[o] + Cardinality(Slots) - 1

\* LDAP is authoritative for roles: when a login has synced, and nobody has
\* moved the user or an organisation meanwhile, the user has in every
\* organisation the role of the topmost mapping, and no other.
LdapRolesMapped ==
  \A p \in Slots : At(p, "LoggedIn") /\ p \notin moved =>
    \A o \in orgs : members[o][who[p]] = Mapped(Head(todo[p]).name, o)
============================================================================
