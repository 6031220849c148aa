-------------------------------- MODULE Logins ---------------------------------
(***************************************************************************)
(* Sessions: how a request is told who has sent it, and what signs a       *)
(* browser in and out.  A session is a file that a request reads when it   *)
(* starts and writes back whole when it ends, so the requests that a       *)
(* browser sends at the same time share it.                                *)
(***************************************************************************)
EXTENDS Integers, Sequences, FiniteSets, Functions

CONSTANTS Browsers, Procs, Users,
          Modes,        \* what is looked at: "form" for the login form and OAuth, "reset" for
                        \* passwords that change, "proxy" for an authentication proxy with
                        \* LDAP
          Passwords,
          Lifetime,     \* ticks after which an unused session is removed
          Ttl,          \* AuthProxyLdapSyncTtl
          CodeLife,     \* EmailCodeValidMinutes
          MaxTime, MaxRequests

Nobody == "nobody"
Kept == "kept"      \* an answer that signs nobody in or out

ASSUME LoginsAssumption ==
  /\ Lifetime \in Nat /\ Ttl \in Nat /\ MaxTime \in Nat
  /\ {Nobody, Kept} \cap (Users \cup Browsers) = {}

VARIABLES mode, now, sentCount,
          password,     \* of each user, 0 of one who does not exist, below 0 of one without
                        \* a password of his own
          cookie,       \* of each browser [sess, remember, state]
          file,         \* of each session id [uid, state, sync, used]
          lastSid,
          req,          \* the requests in progress
          owner,        \* whom a browser was last signed in as, by the answers it has got
          late,         \* requests sent before the last sign-in or sign-out of their browser
          astray,       \* browsers whose session such a request has changed since
          revived,      \* sessions that a request has written back after they were removed
          mixed,        \* sessions that a proxy's request took over from another user
          ldapSync,     \* when a user was last read from LDAP
          codes         \* e-mailed reset codes [user, made, key]

accounts == <<password, codes>>
sessions == <<cookie, file, lastSid, req, owner, late, astray, revived, mixed>>
loginVars == <<mode, now, sentCount, accounts, sessions, ldapSync>>

NoCookie == [user |-> Nobody, key |-> 0]
KeptCookie == [user |-> Kept, key |-> 0]
Never == -1 - Ttl   \* so long ago that a sync is due
NoData == [uid |-> Nobody, state |-> 0, sync |-> Never, used |-> 0]
Empty == [NoData EXCEPT !.used = now]
Idle == [at |-> "idle", from |-> Nobody, kind |-> "none", user |-> Nobody, arg |-> 0, sid |-> 0,
         remember |-> NoCookie, data |-> NoData, file |-> 0, set |-> 0, signs |-> Kept]

\* What remember cookies and reset codes are made with, besides what is the user's for ever.
Secret(u) == password[u]

-----------------------------------------------------------------------------
(* Session files *)

With(f, x, y) == [z \in DOMAIN f \cup {x} |-> IF z = x THEN y ELSE f[z]]
Exists(sid) == sid \in DOMAIN file

\* Manager.Start: the session of the cookie, or a new one when its file is gone, whose
\* cookie is added to those of the request.
StartSession(p, next) ==
  LET r == req[p] IN
  IF Exists(r.sid)
  THEN /\ file' = [file EXCEPT ![r.sid].used = now] /\ UNCHANGED lastSid
       /\ req' = [req EXCEPT ![p] = [r EXCEPT !.at = next, !.data = file'[r.sid], !.file = r.sid, !.set = 0]]
  ELSE /\ lastSid' = lastSid + 1 /\ file' = With(file, lastSid', Empty)
       /\ req' = [req EXCEPT ![p] = [r EXCEPT !.at = next, !.data = Empty, !.file = lastSid', !.set = lastSid',
                                               !.sid = IF r.sid = 0 THEN lastSid' ELSE r.sid]]

\* Manager.RegenerateId: the file of the cookie is renamed, if there is one.
Regenerated(sid) == With(Restrict(file, DOMAIN file \ {sid}), lastSid + 1,
                         IF Exists(sid) THEN file[sid] ELSE Empty)

\* startSessionGC
SessionGC ==
  LET old == { sid \in DOMAIN file : file[sid].used + Lifetime < now } IN
  /\ old # {} /\ file' = Restrict(file, DOMAIN file \ old)
  /\ owner' = [b \in Browsers |-> IF cookie[b].sess \in old THEN Nobody ELSE owner[b]]
  /\ UNCHANGED <<mode, now, sentCount, accounts, cookie, lastSid, req, late, astray, revived, mixed, ldapSync>>

-----------------------------------------------------------------------------
(* Requests: sent with the browser's cookies, started, handled, released   *)

Send(b, p, kind, u, arg) ==
  /\ req[p].at = "idle" /\ sentCount < MaxRequests /\ sentCount' = sentCount + 1
  /\ req' = [req EXCEPT ![p] = [Idle EXCEPT !.at = "sent", !.from = b, !.kind = kind, !.user = u, !.arg = arg,
                                             !.sid = cookie[b].sess, !.remember = cookie[b].remember]]
  /\ UNCHANGED <<mode, now, accounts, cookie, file, lastSid, owner, late, astray, revived, mixed, ldapSync>>

\* initContextWithUserSessionCookie
Start(p) ==
  /\ req[p].at = "sent" /\ StartSession(p, "started")
  /\ UNCHANGED <<mode, now, sentCount, accounts, cookie, owner, late, astray, revived, mixed, ldapSync>>

\* The request goes on to its end, with what its answer will tell the browser: a
\* remember cookie, and who is signed in.
Ends(p, data, sid, set, remember, signs) ==
  req' = [req EXCEPT ![p] = [@ EXCEPT !.at = "handled", !.data = data, !.file = sid, !.set = set,
                                      !.remember = remember, !.signs = signs]]

Same(p) == Ends(p, req[p].data, req[p].file, req[p].set, KeptCookie, Kept)

\* Defect: the user is set in the session that is given up, and the new one is read
\* from its file.
SetsFirst(p, u) ==
  /\ file' = Regenerated(req[p].sid) /\ lastSid' = lastSid + 1
  /\ Ends(p, file'[lastSid'], lastSid', lastSid', [user |-> u, key |-> Secret(u)], u)

\* loginUserWithUser: the new session has what was in the old.
loginUserWithUser(p, u) ==
  /\ file' = Regenerated(req[p].sid) /\ lastSid' = lastSid + 1
  /\ Ends(p, [file'[lastSid'] EXCEPT !.uid = u], lastSid', lastSid', [user |-> u, key |-> password'[u]], u)

\* A user who comes from LDAP or OAuth and does not exist is created, without a password
\* and with random numbers of his own.
Created(u) == password' = IF password[u] = 0 THEN [password EXCEPT ![u] = -sentCount] ELSE password

\* LDAP servers in their order, each of which lets the user in, refuses or fails.
LdapLogin(answers) ==
  LET asked == { i \in DOMAIN answers : \A j \in 1..(i - 1) : answers[j] = "refuses" } IN
  IF asked = {} THEN "refuses" ELSE answers[CHOOSE i \in asked : \A j \in asked : j <= i]

\* AuthenticateUser: the password of the database first, then LDAP.
AuthenticateUser(u, pw, answers) ==
  IF password[u] = pw THEN "lets in" ELSE LdapLogin(answers)

Handling(p, kind) == req[p].at = "started" /\ req[p].kind = kind

LoginPost(p, answers) ==
  LET r == req[p] IN
  /\ Handling(p, "login")
  /\ IF AuthenticateUser(r.user, r.arg, answers) = "lets in"
     THEN Created(r.user) /\ loginUserWithUser(p, r.user)
     ELSE Same(p) /\ UNCHANGED <<file, lastSid, password>>
  /\ UNCHANGED <<mode, now, sentCount, codes, cookie, owner, late, astray, revived, mixed, ldapSync>>

\* tryLoginUsingRememberCookie, by LoginView and LoginApiPing.
LoginView(p) ==
  LET r == req[p] IN
  /\ Handling(p, "view") /\ UNCHANGED password
  /\ IF r.remember # NoCookie /\ password[r.remember.user] # 0 /\ r.remember.key = Secret(r.remember.user)
     THEN loginUserWithUser(p, r.remember.user)
     ELSE Ends(p, r.data, r.file, r.set, NoCookie, Kept) /\ UNCHANGED <<file, lastSid>>
  /\ UNCHANGED <<mode, now, sentCount, codes, cookie, owner, late, astray, revived, mixed, ldapSync>>

\* The file of the cookie is removed; when it is not there the session stays.
Logout(p) ==
  LET r == req[p] IN
  /\ Handling(p, "logout")
  /\ file' = Restrict(file, DOMAIN file \ {r.sid})
  /\ IF Exists(r.sid) THEN Ends(p, NoData, 0, -1, NoCookie, Nobody)
     ELSE Ends(p, r.data, r.file, r.set, NoCookie, Nobody)
  /\ UNCHANGED <<mode, now, sentCount, accounts, cookie, lastSid, owner, late, astray, revived, mixed, ldapSync>>

\* OAuthLogin without a code: the state is kept in the session, and sent to the provider.
OAuthRedirect(p) ==
  LET r == req[p] IN
  /\ Handling(p, "oauth")
  /\ Ends(p, [r.data EXCEPT !.state = r.arg], r.file, r.set, KeptCookie, Kept)
  /\ UNCHANGED <<mode, now, sentCount, accounts, cookie, file, lastSid, owner, late, astray, revived, mixed, ldapSync>>

\* OAuthLogin with a code: a state that is not that of the session is refused, and the
\* provider and the rules for sign-ups may refuse too.
OAuthLogin(p) ==
  LET r == req[p] IN
  /\ Handling(p, "callback")
  /\ \/ r.data.state = r.arg /\ r.arg # 0 /\ Created(r.user) /\ loginUserWithUser(p, r.user)
     \/ Same(p) /\ UNCHANGED <<file, lastSid, password>>
  /\ UNCHANGED <<mode, now, sentCount, codes, cookie, owner, late, astray, revived, mixed, ldapSync>>

Page(p) ==
  /\ Handling(p, "page") /\ Same(p)
  /\ UNCHANGED <<mode, now, sentCount, accounts, cookie, file, lastSid, owner, late, astray, revived, mixed, ldapSync>>

\* A sign-in or sign-out that has its way.
Settles(r) == r.signs # Kept /\ (r.signs = Nobody => r.set = -1)

\* What a request may do that is late: one that found no session gives the browser a new
\* one, and a sign-out leaves a session that was renamed.
Strays(r) == (r.signs = Kept /\ r.set # 0) \/ (r.signs = Nobody /\ r.set # -1)

\* The session is written back, and the answer sent with its cookies.
Release(p) ==
  LET r == req[p]  b == r.from IN
  /\ r.at = "handled"
  /\ file' = IF r.file = 0 THEN file ELSE With(file, r.file, [r.data EXCEPT !.used = now])
  /\ revived' = IF r.file = 0 \/ Exists(r.file) THEN revived ELSE revived \cup {r.file}
  /\ cookie' = [cookie EXCEPT ![b] =
       [sess |-> IF r.set = 0 THEN @.sess ELSE IF r.set = -1 THEN 0 ELSE r.set,
        remember |-> IF r.remember = KeptCookie THEN @.remember ELSE r.remember,
        state |-> IF r.kind = "oauth" THEN r.arg ELSE @.state]]
  /\ owner' = [owner EXCEPT ![b] = IF r.signs = Kept THEN @ ELSE r.signs]
  /\ req' = [req EXCEPT ![p] = Idle]
  /\ late' = (late \ {p}) \cup { q \in Procs \ {p} : r.signs # Kept /\ req[q].from = b }
  /\ astray' = IF p \in late /\ Strays(r) THEN astray \cup {b}
               ELSE IF Settles(r) THEN astray \ {b} ELSE astray
  /\ UNCHANGED <<mode, now, sentCount, accounts, lastSid, mixed, ldapSync>>

-----------------------------------------------------------------------------
(* The authentication proxy names the user; LDAP has his roles *)

\* Defect: the session of the user before is taken over.
TakesOver(r) == FALSE

\* A session must not be shared by two users.
Switches(r) == r.data.uid \notin {Nobody, r.user}

\* initContextWithAuthProxy: another user's session is removed, and one started again
\* with the cookie that the request has.
SwitchUser(p) ==
  LET r == req[p] IN
  /\ Handling(p, "proxy") /\ Switches(r)
  /\ file' = Restrict(file, DOMAIN file \ {r.sid})
  /\ req' = [req EXCEPT ![p].at = "switching"]
  /\ UNCHANGED <<mode, now, sentCount, accounts, cookie, lastSid, owner, late, astray, revived, mixed, ldapSync>>

Restart(p) ==
  /\ req[p].at = "switching" /\ StartSession(p, "restarted")
  /\ UNCHANGED <<mode, now, sentCount, accounts, cookie, owner, late, astray, revived, mixed, ldapSync>>

\* syncGrafanaUserWithLdapUser; when LDAP fails the request does, and nobody is signed in.
AuthProxy(p, ldapFails) ==
  LET r == req[p]
      due == r.data.sync < now - Ttl IN
  /\ (Handling(p, "proxy") /\ ~Switches(r)) \/ r.at = "restarted"
  /\ IF due /\ ldapFails
     THEN Same(p) /\ UNCHANGED ldapSync
     ELSE /\ ldapSync' = IF due THEN [ldapSync EXCEPT ![r.user] = now] ELSE ldapSync
          /\ Ends(p, [r.data EXCEPT !.uid = r.user, !.sync = IF due THEN now ELSE @],
                  r.file, r.set, KeptCookie, r.user)
  /\ mixed' = IF r.at = "restarted" /\ r.data.uid \notin {Nobody, r.user} THEN mixed \cup {r.file} ELSE mixed
  /\ UNCHANGED <<mode, now, sentCount, accounts, cookie, file, lastSid, owner, late, astray, revived>>

-----------------------------------------------------------------------------
(* Passwords and the codes that are mailed to reset them *)

SendResetPasswordEmail(u) ==
  /\ mode = "reset" /\ password[u] # 0 /\ sentCount < MaxRequests /\ sentCount' = sentCount + 1
  /\ codes' = codes \cup {[user |-> u, made |-> now, key |-> Secret(u)]}
  /\ UNCHANGED <<mode, now, password, sessions, ldapSync>>

\* validateUserEmailCode
ValidCode(code) ==
  /\ password[code.user] # 0 /\ code.key = Secret(code.user) /\ now < code.made + CodeLife

\* The code is looked at, and the password changed later.
ResetPassword(p, code) ==
  /\ req[p].at = "idle" /\ ValidCode(code)
  /\ req' = [req EXCEPT ![p] = [Idle EXCEPT !.at = "resetting", !.kind = "reset", !.user = code.user]]
  /\ UNCHANGED <<mode, now, sentCount, accounts, cookie, file, lastSid, owner, late, astray, revived, mixed, ldapSync>>

ChangeUserPassword(p, pw) ==
  /\ req[p].at = "resetting" /\ req' = [req EXCEPT ![p] = Idle]
  /\ password' = IF password[req[p].user] = 0 THEN password ELSE [password EXCEPT ![req[p].user] = pw]
  /\ UNCHANGED <<mode, now, sentCount, codes, cookie, file, lastSid, owner, late, astray, revived, mixed, ldapSync>>

\* DeleteUser leaves the sessions.
DeleteUser(u) ==
  /\ mode = "reset" /\ sentCount < MaxRequests /\ sentCount' = sentCount + 1
  /\ password' = [password EXCEPT ![u] = 0]
  /\ UNCHANGED <<mode, now, codes, sessions, ldapSync>>

Tick ==
  /\ now < MaxTime /\ now' = now + 1
  /\ UNCHANGED <<mode, sentCount, accounts, sessions, ldapSync>>

-----------------------------------------------------------------------------
LoginInit ==
  /\ mode \in Modes /\ now = 0 /\ sentCount = 0
  /\ password \in [Users \cup {Nobody} -> {0, 1}] /\ password[Nobody] = 0
  /\ cookie = [b \in Browsers |-> [sess |-> 0, remember |-> NoCookie, state |-> 0]]
  /\ file = <<>> /\ lastSid = 0 /\ req = [p \in Procs |-> Idle]
  /\ owner = [b \in Browsers |-> Nobody] /\ late = {} /\ astray = {} /\ revived = {} /\ mixed = {}
  /\ ldapSync = [u \in Users |-> Never] /\ codes = {}

Answers == [1..2 -> {"lets in", "refuses", "fails"}]
Sends(p) ==
  \E b \in Browsers :
    \/ /\ mode = "form"
       /\ \/ \E kind \in {"page", "logout"} : Send(b, p, kind, Nobody, 0)
          \/ Send(b, p, "oauth", Nobody, sentCount + 1)
          \/ \E u \in Users : Send(b, p, "callback", u, cookie[b].state)
    \/ /\ mode \in {"form", "reset"}
       /\ \/ Send(b, p, "view", Nobody, 0)
          \/ \E u \in Users, pw \in Passwords : Send(b, p, "login", u, pw)
    \/ mode = "proxy" /\ \E u \in Users : Send(b, p, "proxy", u, 0)

LoginNext ==
  \/ \E p \in Procs :
       \/ Sends(p) \/ Start(p) \/ Page(p) \/ LoginView(p) \/ Logout(p) \/ OAuthRedirect(p) \/ OAuthLogin(p)
       \/ Release(p) \/ SwitchUser(p) \/ Restart(p)
       \/ \E answers \in Answers : LoginPost(p, answers)
       \/ \E ldapFails \in BOOLEAN : AuthProxy(p, ldapFails)
       \/ \E code \in codes : ResetPassword(p, code)
       \/ \E pw \in Passwords : ChangeUserPassword(p, pw)
  \/ \E u \in Users : SendResetPasswordEmail(u) \/ DeleteUser(u)
  \/ SessionGC \/ Tick

LoginSpec == LoginInit /\ [][LoginNext]_loginVars

-----------------------------------------------------------------------------
(* Properties *)

\* Whoever takes a session away has not answered yet.
SigningInOrOut(b) == \E p \in Procs : req[p].from = b /\ req[p].at = "handled" /\ Settles(req[p])

\* The session that a browser has is that of the user whom it was last signed in as, in
\* whatever order requests that overlap start, are handled and answered.  Excepted are a
\* browser that has had the answer of a request that was sent before its sign-in or
\* sign-out, and found no session or left a renamed one; and one that nobody is signed in
\* with, whose session was removed unused and written back.  A proxy says anew with each
\* request who it is.
StaysSignedIn ==
  mode # "proxy" => \A b \in Browsers :
    b \in astray \/ SigningInOrOut(b) \/
    LET sid == cookie[b].sess IN
    IF owner[b] = Nobody THEN Exists(sid) => file[sid].uid = Nobody \/ sid \in revived
    ELSE Exists(sid) /\ file[sid].uid = owner[b]

\* A user whom the proxy names has been read from LDAP no longer ago than the TTL, however
\* requests of several users switch, remove and write back the session, unless a request
\* that had removed another user's session found it written back and took it over.
SyncedWithinTtl ==
  \A p \in Procs : LET r == req[p] IN
    r.at = "handled" /\ r.kind = "proxy" /\ r.signs = r.user
      => ldapSync[r.user] >= r.data.used - Ttl \/ r.file \in mixed
=============================================================================
