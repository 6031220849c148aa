---------------------------- MODULE LoginsProofs ----------------------------
(***************************************************************************)
(* Theorems about Logins, for every number of browsers, requests, users,   *)
(* passwords and ticks.                                                    *)
(***************************************************************************)
EXTENDS Logins, TLAPS

(***************************************************************************)
(* Rows, cookies and files.                                                *)
(***************************************************************************)
LEMMA RestrictIs ==
  ASSUME NEW f, NEW S
  PROVE  DOMAIN Restrict(f, S) = S /\ \A x \in S : Restrict(f, S)[x] = f[x]
BY DEF Restrict

DataFields == {"uid", "state", "sync", "used"}
RowFields == {"at", "from", "kind", "user", "arg", "sid", "remember", "data", "file", "set", "signs"}

IsData(d) == DOMAIN d = DataFields
IsCookie(c) == c = NoCookie \/ c.user \in Users

\* The request has made a session, whose id its answer will give to the browser.
New(r) == r.set \notin {-1, 0}

RowOK(r) ==
  /\ DOMAIN r = RowFields /\ IsData(r.data)
  /\ r.sid \in 0 .. lastSid /\ r.file \in 0 .. lastSid /\ r.set \in {-1, 0, r.file}
  /\ r.at \in {"idle", "resetting", "sent", "started", "switching", "restarted", "handled"}
  /\ IF r.at \in {"idle", "resetting"} THEN r.from = Nobody /\ r.sid = 0
     ELSE r.from \in Browsers /\ (r.kind = "proxy" <=> mode = "proxy")
  /\ r.at \in {"idle", "resetting", "sent"} => r.file = 0 /\ r.set = 0
  /\ r.at # "handled" => r.signs = Kept /\ r.set # -1 /\ IsCookie(r.remember)
  /\ r.remember = KeptCookie \/ IsCookie(r.remember)
  /\ r.kind \in {"login", "callback", "proxy"} => r.user \in Users
  /\ r.at \in {"switching", "restarted"} => r.kind = "proxy"

Typed ==
  /\ lastSid \in Nat /\ DOMAIN file \subseteq 1 .. lastSid
  /\ \A s \in DOMAIN file : IsData(file[s])
  /\ DOMAIN cookie = Browsers /\ DOMAIN owner = Browsers /\ DOMAIN req = Procs
  /\ \A b \in Browsers : cookie[b].sess \in 0 .. lastSid /\ IsCookie(cookie[b].remember)
  /\ \A p \in Procs : RowOK(req[p])

\* Only the request that has made a session knows its id.
Private ==
  \A p \in Procs : New(req[p]) =>
    /\ \A b \in Browsers : cookie[b].sess # req[p].set
    /\ \A q \in Procs \ {p} : req[q].sid # req[p].set /\ req[q].file # req[p].set

\* The session that a browser has is no other browser's, and no request of another's
\* reads or writes it.
Apart ==
  \A b \in Browsers : cookie[b].sess # 0 =>
    /\ \A c \in Browsers \ {b} : cookie[c].sess # cookie[b].sess
    /\ \A p \in Procs : req[p].from # b => req[p].sid # cookie[b].sess /\ req[p].file # cookie[b].sess

Sound == Typed /\ Private /\ Apart

LEMMA IdleIs ==
  /\ DOMAIN Idle = RowFields /\ DOMAIN NoData = DataFields /\ DOMAIN Empty = DataFields
  /\ Idle.at = "idle" /\ Idle.from = Nobody /\ Idle.kind = "none" /\ Idle.sid = 0 /\ Idle.remember = NoCookie
  /\ Idle.data = NoData /\ Idle.file = 0 /\ Idle.set = 0 /\ Idle.signs = Kept
  /\ NoData.uid = Nobody /\ Empty.uid = Nobody /\ NoData.sync = Never /\ Empty.sync = Never
  /\ NoData.used = 0 /\ Empty.used = now
  /\ Nobody \notin Browsers /\ Nobody \notin Users /\ Kept \notin Users /\ Kept # Nobody
<1>1. Nobody \notin Browsers /\ Nobody \notin Users /\ Kept \notin Users /\ Kept # Nobody
  BY LoginsAssumption DEF Nobody, Kept
<1>2. /\ DOMAIN Idle = RowFields /\ DOMAIN NoData = DataFields /\ DOMAIN Empty = DataFields
      /\ NoData.uid = Nobody /\ Empty.uid = Nobody /\ NoData.sync = Never /\ Empty.sync = Never
      /\ NoData.used = 0 /\ Empty.used = now
  BY DEF Idle, NoData, Empty, RowFields, DataFields
<1>3. /\ Idle.at = "idle" /\ Idle.from = Nobody /\ Idle.kind = "none" /\ Idle.sid = 0 /\ Idle.remember = NoCookie
      /\ Idle.data = NoData /\ Idle.file = 0 /\ Idle.set = 0 /\ Idle.signs = Kept
  BY DEF Idle
<1> QED BY <1>1, <1>2, <1>3

-----------------------------------------------------------------------------
(* What the steps of a request do to its row and to the files. *)

Rest(p) == DOMAIN req' = Procs /\ \A q \in Procs \ {p} : req'[q] = req[q]

SameRequest(p) ==
  /\ DOMAIN req'[p] = RowFields
  /\ req'[p].from = req[p].from /\ req'[p].kind = req[p].kind /\ req'[p].user = req[p].user

LEMMA EndedRow ==
  ASSUME Typed, NEW p \in Procs, NEW data, NEW sid, NEW set, NEW remember, NEW signs,
         Ends(p, data, sid, set, remember, signs)
  PROVE  /\ Rest(p) /\ SameRequest(p) /\ req'[p].sid = req[p].sid
         /\ req'[p].at = "handled" /\ req'[p].data = data /\ req'[p].file = sid /\ req'[p].set = set
         /\ req'[p].remember = remember /\ req'[p].signs = signs
<1>1. DOMAIN req = Procs /\ DOMAIN req[p] = RowFields
  BY DEF Typed, RowOK
<1> QED BY <1>1 DEF Ends, Rest, SameRequest, RowFields

Found(p) ==
  /\ lastSid' = lastSid /\ DOMAIN file' = DOMAIN file
  /\ \A s \in DOMAIN file : DOMAIN file'[s] = DataFields /\ file'[s].uid = file[s].uid /\ file'[s].sync = file[s].sync
                            /\ file'[s].used \in {now, file[s].used}
  /\ req'[p].sid = req[p].sid /\ req'[p].data = file'[req[p].sid] /\ req'[p].file = req[p].sid /\ req'[p].set = 0

Made(p) ==
  /\ lastSid' = lastSid + 1 /\ DOMAIN file' = DOMAIN file \cup {lastSid'} /\ file'[lastSid'] = Empty
  /\ \A s \in DOMAIN file : file'[s] = file[s]
  /\ req'[p].sid = (IF req[p].sid = 0 THEN lastSid' ELSE req[p].sid)
  /\ req'[p].data = Empty /\ req'[p].file = lastSid' /\ req'[p].set = lastSid'

LEMMA Starts ==
  ASSUME Typed, NEW p \in Procs, NEW next, StartSession(p, next)
  PROVE  /\ Rest(p) /\ SameRequest(p)
         /\ req'[p].at = next /\ req'[p].remember = req[p].remember /\ req'[p].signs = req[p].signs
         /\ Exists(req[p].sid) => Found(p)
         /\ ~Exists(req[p].sid) => Made(p)
<1>1. /\ DOMAIN req = Procs /\ DOMAIN req[p] = RowFields
      /\ \A s \in DOMAIN file : DOMAIN file[s] = DataFields
      /\ lastSid \in Nat /\ DOMAIN file \subseteq 1 .. lastSid
  BY DEF Typed, RowOK, IsData
<1>2. CASE Exists(req[p].sid)
  <2>1. /\ lastSid' = lastSid /\ file' = [file EXCEPT ![req[p].sid].used = now]
        /\ req' = [req EXCEPT ![p] = [req[p] EXCEPT !.at = next, !.data = file'[req[p].sid], !.file = req[p].sid,
                                                   !.set = 0]]
    BY <1>2 DEF StartSession
  <2>2. /\ DOMAIN file' = DOMAIN file
        /\ \A s \in DOMAIN file : DOMAIN file'[s] = DataFields /\ file'[s].uid = file[s].uid /\ file'[s].sync = file[s].sync
                                  /\ file'[s].used \in {now, file[s].used}
    BY <1>1, <2>1 DEF DataFields
  <2>3. Rest(p) /\ SameRequest(p) /\ req'[p].at = next /\ req'[p].remember = req[p].remember
        /\ req'[p].signs = req[p].signs /\ req'[p].sid = req[p].sid /\ req'[p].data = file'[req[p].sid]
        /\ req'[p].file = req[p].sid /\ req'[p].set = 0
    BY <1>1, <2>1 DEF Rest, SameRequest, RowFields
  <2> QED BY <1>2, <2>1, <2>2, <2>3 DEF Found
<1>3. CASE ~Exists(req[p].sid)
  <2>1. /\ lastSid' = lastSid + 1 /\ file' = With(file, lastSid', Empty)
        /\ req' = [req EXCEPT ![p] = [req[p] EXCEPT !.at = next, !.data = Empty, !.file = lastSid', !.set = lastSid',
                                         !.sid = IF req[p].sid = 0 THEN lastSid' ELSE req[p].sid]]
    BY <1>3 DEF StartSession
  <2>2. DOMAIN file' = DOMAIN file \cup {lastSid'} /\ file'[lastSid'] = Empty /\ \A s \in DOMAIN file : file'[s] = file[s]
    <3>1. \A s \in DOMAIN file : s # lastSid'
      BY <1>1, <2>1
    <3> QED BY <2>1, <3>1 DEF With
  <2>3. Rest(p) /\ SameRequest(p) /\ req'[p].at = next /\ req'[p].remember = req[p].remember
        /\ req'[p].signs = req[p].signs
        /\ req'[p].sid = (IF req[p].sid = 0 THEN lastSid' ELSE req[p].sid)
        /\ req'[p].data = Empty /\ req'[p].file = lastSid' /\ req'[p].set = lastSid'
    BY <1>1, <2>1 DEF Rest, SameRequest, RowFields
  <2> QED BY <1>3, <2>1, <2>2, <2>3 DEF Made
<1> QED BY <1>2, <1>3

\* A session goes.
Gone(sid) ==
  /\ DOMAIN file' = DOMAIN file \ {sid} /\ \A s \in DOMAIN file' : file'[s] = file[s]

LEMMA Regenerates ==
  ASSUME Typed, NEW sid, file' = Regenerated(sid), lastSid' = lastSid + 1
  PROVE  /\ DOMAIN file' = (DOMAIN file \ {sid}) \cup {lastSid'} /\ DOMAIN file'[lastSid'] = DataFields
         /\ \A s \in DOMAIN file \ {sid} : file'[s] = file[s]
<1>1. /\ \A s \in DOMAIN file : DOMAIN file[s] = DataFields /\ s # lastSid'
  BY DEF Typed, IsData
<1>2. DOMAIN Empty = DataFields
  BY IdleIs
<1>3. /\ DOMAIN Restrict(file, DOMAIN file \ {sid}) = DOMAIN file \ {sid}
      /\ \A s \in DOMAIN file \ {sid} : Restrict(file, DOMAIN file \ {sid})[s] = file[s]
  BY RestrictIs
<1> DEFINE left == Restrict(file, DOMAIN file \ {sid})
           kept == IF Exists(sid) THEN file[sid] ELSE Empty
<1>4. file' = With(left, lastSid', kept)
  BY DEF Regenerated
<1>5. DOMAIN kept = DataFields
  BY <1>1, <1>2 DEF Exists
<1> HIDE DEF left, kept
<1>6. /\ DOMAIN file' = DOMAIN left \cup {lastSid'} /\ file'[lastSid'] = kept
      /\ \A s \in DOMAIN left : s # lastSid' => file'[s] = left[s]
  BY <1>4 DEF With
<1> QED BY <1>1, <1>3, <1>5, <1>6 DEF left

LEMMA Removes ==
  ASSUME NEW sid, file' = Restrict(file, DOMAIN file \ {sid})
  PROVE  Gone(sid)
BY RestrictIs DEF Gone

LEMMA SignsIn ==
  ASSUME Typed, NEW p \in Procs, NEW u \in Users, loginUserWithUser(p, u)
  PROVE  /\ Rest(p) /\ SameRequest(p) /\ req'[p].sid = req[p].sid
         /\ lastSid' = lastSid + 1
         /\ DOMAIN file' = (DOMAIN file \ {req[p].sid}) \cup {lastSid'} /\ DOMAIN file'[lastSid'] = DataFields
         /\ \A s \in DOMAIN file \ {req[p].sid} : file'[s] = file[s]
         /\ req'[p].at = "handled" /\ req'[p].file = lastSid' /\ req'[p].set = lastSid' /\ req'[p].signs = u
         /\ IsData(req'[p].data) /\ req'[p].data.uid = u /\ IsCookie(req'[p].remember)
<1>1. /\ file' = Regenerated(req[p].sid) /\ lastSid' = lastSid + 1
      /\ Ends(p, [file'[lastSid'] EXCEPT !.uid = u], lastSid', lastSid', [user |-> u, key |-> password'[u]], u)
  BY DEF loginUserWithUser
<1>2. /\ DOMAIN file' = (DOMAIN file \ {req[p].sid}) \cup {lastSid'} /\ DOMAIN file'[lastSid'] = DataFields
      /\ \A s \in DOMAIN file \ {req[p].sid} : file'[s] = file[s]
  BY <1>1, Regenerates
<1>3. /\ DOMAIN [file'[lastSid'] EXCEPT !.uid = u] = DataFields
      /\ [file'[lastSid'] EXCEPT !.uid = u].uid = u
  BY <1>2 DEF DataFields
<1>4. IsCookie([user |-> u, key |-> password'[u]])
  BY DEF IsCookie
<1> DEFINE data == [file'[lastSid'] EXCEPT !.uid = u]
           remember == [user |-> u, key |-> password'[u]]
<1>5. Ends(p, data, lastSid', lastSid', remember, u) /\ DOMAIN data = DataFields /\ data.uid = u /\ IsCookie(remember)
  BY <1>1, <1>3, <1>4
<1> HIDE DEF data, remember
<1>6. /\ Rest(p) /\ SameRequest(p) /\ req'[p].sid = req[p].sid
      /\ req'[p].at = "handled" /\ req'[p].data = data /\ req'[p].file = lastSid' /\ req'[p].set = lastSid'
      /\ req'[p].remember = remember /\ req'[p].signs = u
  BY <1>5, EndedRow
<1> QED BY <1>1, <1>2, <1>5, <1>6 DEF IsData

LEMMA Releases ==
  ASSUME Typed, NEW p \in Procs, Release(p)
  PROVE  /\ Rest(p) /\ req'[p] = Idle /\ req[p].at = "handled" /\ req[p].from \in Browsers /\ lastSid' = lastSid
         /\ req[p].file = 0 => file' = file /\ revived' = revived
         /\ req[p].file # 0 =>
              /\ DOMAIN file' = DOMAIN file \cup {req[p].file}
              /\ \A s \in DOMAIN file : s # req[p].file => file'[s] = file[s]
              /\ DOMAIN file'[req[p].file] = DataFields /\ file'[req[p].file].uid = req[p].data.uid
              /\ file'[req[p].file].sync = req[p].data.sync /\ file'[req[p].file].used = now
              /\ revived' = IF Exists(req[p].file) THEN revived ELSE revived \cup {req[p].file}
         /\ DOMAIN cookie' = Browsers /\ DOMAIN owner' = Browsers
         /\ \A b \in Browsers \ {req[p].from} : cookie'[b] = cookie[b] /\ owner'[b] = owner[b]
         /\ cookie'[req[p].from].sess = (IF req[p].set = 0 THEN cookie[req[p].from].sess
                                         ELSE IF req[p].set = -1 THEN 0 ELSE req[p].set)
         /\ IsCookie(cookie'[req[p].from].remember)
         /\ owner'[req[p].from] = (IF req[p].signs = Kept THEN owner[req[p].from] ELSE req[p].signs)
<1> DEFINE r == req[p]  b == r.from
<1>1. /\ r.at = "handled" /\ b \in Browsers /\ DOMAIN r.data = DataFields
      /\ DOMAIN req = Procs /\ DOMAIN cookie = Browsers /\ DOMAIN owner = Browsers
      /\ IsCookie(cookie[b].remember) /\ (r.remember = KeptCookie \/ IsCookie(r.remember))
  BY DEF Typed, RowOK, IsData, Release
<1>2. req' = [req EXCEPT ![p] = Idle] /\ lastSid' = lastSid
  BY DEF Release
<1>3. Rest(p) /\ req'[p] = Idle
  BY <1>1, <1>2 DEF Rest
<1>4. r.file = 0 => file' = file /\ revived' = revived
  BY DEF Release
<1>5. ASSUME r.file # 0
      PROVE  /\ DOMAIN file' = DOMAIN file \cup {r.file} /\ \A s \in DOMAIN file : s # r.file => file'[s] = file[s]
             /\ DOMAIN file'[r.file] = DataFields /\ file'[r.file].uid = r.data.uid
             /\ file'[r.file].sync = r.data.sync /\ file'[r.file].used = now
             /\ revived' = IF Exists(r.file) THEN revived ELSE revived \cup {r.file}
  <2>1. file' = With(file, r.file, [r.data EXCEPT !.used = now])
    BY <1>5 DEF Release
  <2>2. /\ DOMAIN file' = DOMAIN file \cup {r.file} /\ file'[r.file] = [r.data EXCEPT !.used = now]
        /\ \A s \in DOMAIN file : s # r.file => file'[s] = file[s]
    BY <2>1 DEF With
  <2>3. revived' = IF Exists(r.file) THEN revived ELSE revived \cup {r.file}
    BY <1>5 DEF Release
  <2> QED BY <1>1, <2>2, <2>3 DEF DataFields
<1>6. /\ DOMAIN cookie' = Browsers /\ DOMAIN owner' = Browsers
      /\ \A c \in Browsers \ {b} : cookie'[c] = cookie[c] /\ owner'[c] = owner[c]
      /\ cookie'[b].sess = (IF r.set = 0 THEN cookie[b].sess ELSE IF r.set = -1 THEN 0 ELSE r.set)
      /\ cookie'[b].remember = (IF r.remember = KeptCookie THEN cookie[b].remember ELSE r.remember)
      /\ owner'[b] = (IF r.signs = Kept THEN owner[b] ELSE r.signs)
  BY <1>1 DEF Release
<1> QED BY <1>1, <1>2, <1>3, <1>4, <1>5, <1>6

-----------------------------------------------------------------------------
(* Every step keeps the sessions of browsers apart. *)

LEMMA RowsStay ==
  ASSUME Typed, NEW q \in Procs, req'[q] = req[q], lastSid' \in {lastSid, lastSid + 1}, mode' = mode
  PROVE  RowOK(req[q])'
<1>1. RowOK(req[q]) /\ lastSid \in Nat
  BY DEF Typed
<1>2. 0 .. lastSid \subseteq 0 .. lastSid'
  BY <1>1
<1> QED BY <1>1, <1>2 DEF RowOK, IsData, IsCookie

\* A step of a request that is under way, with the session of its cookie, of the step
\* before or a new one.
Moves(p) ==
  /\ req[p].from \in Browsers /\ mode' = mode /\ cookie' = cookie /\ owner' = owner
  /\ Rest(p) /\ SameRequest(p)
  /\ req'[p].at \in {"started", "switching", "restarted", "handled"}
  /\ req'[p].at \in {"switching", "restarted"} => req[p].kind = "proxy"
  /\ DOMAIN req'[p].data = DataFields
  /\ IsCookie(req'[p].remember) \/ (req'[p].at = "handled" /\ req'[p].remember = KeptCookie)
  /\ req'[p].at # "handled" => req'[p].signs = Kept /\ req'[p].set # -1
  /\ lastSid' \in {lastSid, lastSid + 1}
  /\ req'[p].sid = req[p].sid \/ (req'[p].sid = lastSid' /\ lastSid' # lastSid)
  /\ \/ req'[p].file \in {0, req[p].sid, req[p].file}
     \/ req'[p].file = lastSid' /\ lastSid' # lastSid
  /\ \/ req'[p].set \in {-1, 0}
     \/ req'[p].set = req'[p].file /\ lastSid' # lastSid /\ req'[p].file = lastSid'
     \/ req'[p].set = req'[p].file /\ req'[p].set = req[p].set
  /\ DOMAIN file' \subseteq DOMAIN file \cup {lastSid'}
  /\ lastSid' = lastSid => DOMAIN file' \subseteq DOMAIN file
  /\ \A s \in DOMAIN file' : DOMAIN file'[s] = DataFields

LEMMA MovesSound ==
  ASSUME Sound, NEW p \in Procs, Moves(p)
  PROVE  Sound'
<1>1. Typed /\ Private /\ Apart /\ lastSid \in Nat /\ lastSid' \in Nat /\ RowOK(req[p])
  BY DEF Sound, Typed, Moves
<1>2. 0 .. lastSid \subseteq 0 .. lastSid' /\ (lastSid' # lastSid => lastSid' = lastSid + 1)
  BY <1>1 DEF Moves
<1>3. req[p].sid \in 0 .. lastSid /\ req[p].file \in 0 .. lastSid
  BY <1>1 DEF RowOK
<1>4. req'[p].sid \in 0 .. lastSid' /\ req'[p].file \in 0 .. lastSid'
  BY <1>1, <1>2, <1>3 DEF Moves
<1>5. RowOK(req[p])'
  <2>1. Nobody \notin Browsers
    BY IdleIs
  <2>2. req[p].kind = "proxy" <=> mode = "proxy"
    BY <1>1, <2>1 DEF RowOK, Moves
  <2>3. req[p].kind \in {"login", "callback", "proxy"} => req[p].user \in Users
    BY <1>1 DEF RowOK
  <2> QED BY <1>4, <2>2, <2>3 DEF RowOK, Moves, SameRequest, IsData, IsCookie
<1>6. \A q \in Procs : RowOK(req[q])'
  <2>1. ASSUME NEW q \in Procs \ {p} PROVE RowOK(req[q])'
    BY <1>1, RowsStay DEF Moves, Rest
  <2> QED BY <1>5, <2>1
<1>7. Typed'
  <2>1. DOMAIN file' \subseteq 1 .. lastSid'
    <3>1. DOMAIN file \subseteq 1 .. lastSid /\ 1 .. lastSid \subseteq 1 .. lastSid'
      BY <1>1, <1>2 DEF Typed
    <3>2. CASE lastSid' = lastSid
      BY <3>1, <3>2 DEF Moves
    <3>3. CASE lastSid' # lastSid
      <4>1. lastSid' \in 1 .. lastSid'
        BY <1>1, <1>2, <3>3
      <4> QED BY <3>1, <4>1 DEF Moves
    <3> QED BY <3>2, <3>3
  <2>2. DOMAIN cookie' = Browsers /\ DOMAIN owner' = Browsers /\ DOMAIN req' = Procs
    BY <1>1 DEF Typed, Moves, Rest
  <2>3. \A b \in Browsers : cookie'[b].sess \in 0 .. lastSid' /\ IsCookie(cookie'[b].remember)
    BY <1>1, <1>2 DEF Typed, Moves
  <2> QED BY <1>1, <1>6, <2>1, <2>2, <2>3 DEF Typed, Moves, IsData, IsCookie
<1>8. /\ \A b \in Browsers : cookie[b].sess \in 0 .. lastSid /\ cookie'[b] = cookie[b]
      /\ \A q \in Procs : req[q].sid \in 0 .. lastSid /\ req[q].file \in 0 .. lastSid
      /\ \A q \in Procs : New(req[q]) => req[q].set = req[q].file /\ req[q].set # 0
      /\ \A q \in Procs \ {p} : req'[q] = req[q]
  BY <1>1 DEF Typed, RowOK, Moves, New, Rest
<1>9. Private'
  <2> SUFFICES ASSUME NEW q \in Procs, New(req'[q])
               PROVE  /\ \A b \in Browsers : cookie'[b].sess # req'[q].set
                      /\ \A o \in Procs \ {q} : req'[o].sid # req'[q].set /\ req'[o].file # req'[q].set
    BY DEF Private, New
  <2>1. CASE q = p /\ req'[p].set = lastSid' /\ lastSid' # lastSid
    BY <1>1, <1>2, <1>8, <2>1
  <2>2. CASE q = p /\ req'[p].set = req[p].set /\ req'[p].set = req'[p].file
    <3>1. New(req[p])
      BY <2>2 DEF New
    <3>2. /\ \A b \in Browsers : cookie[b].sess # req[p].set
          /\ \A o \in Procs \ {p} : req[o].sid # req[p].set /\ req[o].file # req[p].set
      BY <1>1, <3>1 DEF Private
    <3> QED BY <1>8, <2>2, <3>2
  <2>3. CASE q # p
    <3>1. New(req[q]) /\ req'[q] = req[q] /\ req[q].set # 0 /\ req[q].set \in 0 .. lastSid
      BY <1>8, <2>3 DEF New
    <3>2. req[p].sid # req[q].set /\ req[p].file # req[q].set
      BY <1>1, <2>3, <3>1 DEF Private
    <3>3. lastSid' # lastSid => lastSid' # req[q].set
      BY <1>1, <1>2, <3>1
    <3>4. req'[p].sid # req'[q].set /\ req'[p].file # req'[q].set
      BY <3>1, <3>2, <3>3 DEF Moves
    <3> QED BY <1>1, <1>8, <2>3, <3>1, <3>4 DEF Private
  <2>4. q = p => req'[p].set \notin {-1, 0}
    BY DEF New
  <2> QED BY <2>1, <2>2, <2>3, <2>4 DEF Moves
<1>10. Apart'
  <2> SUFFICES ASSUME NEW b \in Browsers, cookie'[b].sess # 0
               PROVE  /\ \A c \in Browsers \ {b} : cookie'[c].sess # cookie'[b].sess
                      /\ \A q \in Procs : req'[q].from # b => req'[q].sid # cookie'[b].sess /\ req'[q].file # cookie'[b].sess
    BY DEF Apart
  <2>1. /\ \A c \in Browsers \ {b} : cookie[c].sess # cookie[b].sess
        /\ \A q \in Procs : req[q].from # b => req[q].sid # cookie[b].sess /\ req[q].file # cookie[b].sess
    BY <1>1, <1>8 DEF Apart
  <2>2. lastSid' # lastSid => lastSid' # cookie[b].sess
    BY <1>1, <1>2, <1>8
  <2>3. req'[p].from # b => req'[p].sid # cookie[b].sess /\ req'[p].file # cookie[b].sess
    BY <1>8, <2>1, <2>2 DEF Moves, SameRequest
  <2> QED BY <1>8, <2>1, <2>3
<1> QED BY <1>7, <1>9, <1>10 DEF Sound

\* A step that leaves the cookies and the requests under way alone, and makes no session.
Waits ==
  /\ mode' = mode /\ cookie' = cookie /\ DOMAIN owner' = Browsers /\ lastSid' = lastSid
  /\ DOMAIN file' \subseteq DOMAIN file /\ \A s \in DOMAIN file' : DOMAIN file'[s] = DataFields
  /\ DOMAIN req' = Procs
  /\ \A q \in Procs : req'[q] = req[q] \/ (RowOK(req'[q]) /\ req'[q].from = Nobody /\ req'[q].set = 0)

LEMMA WaitsSound ==
  ASSUME Sound, Waits
  PROVE  Sound'
<1>1. Typed /\ Private /\ Apart /\ \A q \in Procs : RowOK(req[q])
  BY DEF Sound, Typed
<1>2. \A q \in Procs : req'[q] = req[q] \/ (req'[q].sid = 0 /\ req'[q].file = 0 /\ req'[q].set = 0)
  <2>1. Nobody \notin Browsers
    BY IdleIs
  <2> QED BY <2>1 DEF Waits, RowOK
<1>3. \A q \in Procs : RowOK(req[q])'
  BY <1>1 DEF Waits, RowOK
<1>4. Typed'
  BY <1>1, <1>3 DEF Typed, Waits, IsData
<1>5. Private'
  <2>1. \A q \in Procs : New(req[q])' => req'[q] = req[q] /\ New(req[q])
    BY <1>2 DEF New
  <2>2. \A q \in Procs : New(req[q]) => req[q].set # 0
    BY DEF New
  <2> QED BY <1>1, <1>2, <2>1, <2>2 DEF Private, Waits
<1>6. Apart'
  BY <1>1, <1>2 DEF Apart, Waits
<1> QED BY <1>4, <1>5, <1>6 DEF Sound


LEMMA SendSound ==
  ASSUME Sound, NEW p \in Procs, NEW b \in Browsers, NEW kind, NEW u, NEW arg, Send(b, p, kind, u, arg),
         kind = "proxy" <=> mode = "proxy", kind \in {"login", "callback", "proxy"} => u \in Users
  PROVE  /\ Sound' /\ Rest(p)
         /\ req'[p].at = "sent" /\ req'[p].from = b /\ req'[p].sid = cookie[b].sess /\ req'[p].set = 0
         /\ req'[p].file = 0 /\ req'[p].signs = Kept /\ req'[p].data = NoData /\ req'[p].kind = kind
<1>1. Typed /\ Private /\ Apart /\ lastSid \in Nat /\ DOMAIN req = Procs
  BY DEF Sound, Typed
<1>2. /\ req' = [req EXCEPT ![p] = [Idle EXCEPT !.at = "sent", !.from = b, !.kind = kind, !.user = u, !.arg = arg,
                                                !.sid = cookie[b].sess, !.remember = cookie[b].remember]]
      /\ UNCHANGED <<mode, cookie, file, lastSid, owner>> /\ req[p].at = "idle"
  BY DEF Send
<1>3. /\ DOMAIN req'[p] = RowFields /\ req'[p].at = "sent" /\ req'[p].from = b /\ req'[p].kind = kind
      /\ req'[p].user = u /\ req'[p].sid = cookie[b].sess /\ req'[p].remember = cookie[b].remember
      /\ req'[p].data = NoData /\ req'[p].file = 0 /\ req'[p].set = 0 /\ req'[p].signs = Kept
      /\ Rest(p)
  BY <1>1, <1>2, IdleIs DEF RowFields, Rest
<1>4. cookie[b].sess \in 0 .. lastSid /\ IsCookie(cookie[b].remember)
  BY <1>1 DEF Typed
<1>5. RowOK(req[p])'
  BY <1>1, <1>2, <1>3, <1>4, IdleIs DEF RowOK, IsData, IsCookie
<1>6. \A q \in Procs : RowOK(req[q])'
  <2>1. ASSUME NEW q \in Procs \ {p} PROVE RowOK(req[q])'
    BY <1>1, <1>2, <1>3, RowsStay DEF Rest
  <2> QED BY <1>5, <2>1
<1>7. Typed'
  BY <1>1, <1>2, <1>3, <1>6 DEF Typed, Rest, IsData, IsCookie
<1>8. Private'
  <2>1. \A q \in Procs : New(req[q])' => q # p /\ req'[q] = req[q] /\ New(req[q])
    BY <1>3 DEF New, Rest
  <2>2. \A q \in Procs : New(req[q]) => req[q].set # 0
    BY DEF New
  <2> QED BY <1>1, <1>2, <1>3, <2>1, <2>2 DEF Private, Rest
<1>9. Apart'
  BY <1>1, <1>2, <1>3 DEF Apart, Rest
<1> QED BY <1>3, <1>7, <1>8, <1>9 DEF Sound

LEMMA ReleaseSound ==
  ASSUME Sound, NEW p \in Procs, Release(p)
  PROVE  Sound'
<1> DEFINE r == req[p]  b == r.from
<1>1. Typed /\ Private /\ Apart /\ lastSid \in Nat /\ \A q \in Procs : RowOK(req[q])
  BY DEF Sound, Typed
<1>2. /\ Rest(p) /\ req'[p] = Idle /\ b \in Browsers /\ lastSid' = lastSid /\ mode' = mode
      /\ r.file = 0 => file' = file
      /\ r.file # 0 => /\ DOMAIN file' = DOMAIN file \cup {r.file}
                       /\ \A s \in DOMAIN file : s # r.file => file'[s] = file[s]
                       /\ DOMAIN file'[r.file] = DataFields
      /\ DOMAIN cookie' = Browsers /\ DOMAIN owner' = Browsers
      /\ \A c \in Browsers \ {b} : cookie'[c] = cookie[c]
      /\ cookie'[b].sess = (IF r.set = 0 THEN cookie[b].sess ELSE IF r.set = -1 THEN 0 ELSE r.set)
      /\ IsCookie(cookie'[b].remember)
  BY <1>1, Releases DEF Release
<1>3. r.file \in 0 .. lastSid /\ (New(r) => r.set = r.file)
  BY <1>1 DEF RowOK, New
<1>4. \A q \in Procs : RowOK(req[q])'
  <2>1. ASSUME NEW q \in Procs \ {p} PROVE RowOK(req[q])'
    BY <1>1, <1>2, RowsStay DEF Rest
  <2>2. RowOK(req[p])'
    <3>1. 0 \in 0 .. lastSid
      BY <1>1
    <3> QED BY <1>2, <3>1, IdleIs DEF RowOK, IsData, IsCookie
  <2> QED BY <2>1, <2>2
<1>5. Typed'
  <2>1. \A s \in DOMAIN file : DOMAIN file[s] = DataFields
    BY <1>1 DEF Typed, IsData
  <2>2. DOMAIN file' \subseteq 1 .. lastSid /\ \A s \in DOMAIN file' : DOMAIN file'[s] = DataFields
    <3>1. r.file # 0 => r.file \in 1 .. lastSid
      BY <1>1, <1>3
    <3> QED BY <1>1, <1>2, <2>1, <3>1 DEF Typed
  <2>3. cookie'[b].sess \in 0 .. lastSid
    BY <1>1, <1>2, <1>3 DEF Typed, New
  <2>4. \A c \in Browsers : cookie'[c].sess \in 0 .. lastSid /\ IsCookie(cookie'[c].remember)
    BY <1>1, <1>2, <2>3 DEF Typed
  <2> QED BY <1>1, <1>2, <1>4, <2>2, <2>4 DEF Typed, Rest, IsData, IsCookie
<1>6. /\ \A q \in Procs : New(req[q])' => q # p /\ req'[q] = req[q] /\ New(req[q])
      /\ \A q \in Procs : New(req[q]) => req[q].set # 0
      /\ req'[p].sid = 0 /\ req'[p].file = 0 /\ req'[p].from = Nobody
  BY <1>2, IdleIs DEF New, Rest
<1>7. Private'
  <2> SUFFICES ASSUME NEW q \in Procs \ {p}, New(req[q]), req'[q] = req[q]
               PROVE  /\ \A c \in Browsers : cookie'[c].sess # req[q].set
                      /\ \A o \in Procs \ {q} : req'[o].sid # req[q].set /\ req'[o].file # req[q].set
    BY <1>6 DEF Private
  <2>1. /\ \A c \in Browsers : cookie[c].sess # req[q].set
        /\ \A o \in Procs \ {q} : req[o].sid # req[q].set /\ req[o].file # req[q].set
    BY <1>1 DEF Private
  <2>2. cookie'[b].sess # req[q].set
    BY <1>2, <1>3, <1>6, <2>1 DEF New
  <2> QED BY <1>2, <1>6, <2>1, <2>2 DEF Rest
<1>8. Apart'
  <2>1. New(r) => /\ \A c \in Browsers : cookie[c].sess # r.set
                  /\ \A q \in Procs \ {p} : req[q].sid # r.set /\ req[q].file # r.set
    BY <1>1 DEF Private
  <2> SUFFICES ASSUME NEW c \in Browsers, cookie'[c].sess # 0
               PROVE  /\ \A d \in Browsers \ {c} : cookie'[d].sess # cookie'[c].sess
                      /\ \A q \in Procs : req'[q].from # c => req'[q].sid # cookie'[c].sess /\ req'[q].file # cookie'[c].sess
    BY DEF Apart
  <2>2. CASE cookie'[c].sess = cookie[c].sess
    <3>1. /\ \A d \in Browsers \ {c} : cookie[d].sess # cookie[c].sess
          /\ \A q \in Procs : req[q].from # c => req[q].sid # cookie[c].sess /\ req[q].file # cookie[c].sess
      BY <1>1, <2>2 DEF Apart
    <3>2. b # c => cookie'[b].sess # cookie[c].sess
      BY <1>2, <2>1, <2>2, <3>1 DEF New
    <3> QED BY <1>2, <1>6, <2>2, <3>1, <3>2 DEF Rest
  <2>3. CASE cookie'[c].sess # cookie[c].sess
    <3>1. c = b /\ New(r) /\ cookie'[c].sess = r.set
      BY <1>2, <2>3 DEF New
    <3>2. \A d \in Browsers \ {b} : cookie'[d].sess # r.set
      BY <1>2, <2>1, <3>1
    <3>3. \A q \in Procs \ {p} : req'[q].sid # r.set /\ req'[q].file # r.set
      BY <1>2, <2>1, <3>1 DEF Rest
    <3>4. req'[p].sid # r.set /\ req'[p].file # r.set
      BY <1>6, <3>1 DEF New
    <3> QED BY <3>1, <3>2, <3>3, <3>4
  <2> QED BY <2>2, <2>3
<1> QED BY <1>5, <1>7, <1>8 DEF Sound

-----------------------------------------------------------------------------
(* What the handlers leave behind. *)

SameFiles == DOMAIN file' = DOMAIN file /\ \A s \in DOMAIN file : file'[s] = file[s]

Ended(p) ==
  /\ Rest(p) /\ SameRequest(p) /\ req'[p].sid = req[p].sid
  /\ req[p].at = "started" /\ req'[p].at = "handled" /\ DOMAIN req'[p].data = DataFields
  /\ UNCHANGED <<mode, cookie, owner, late, astray, revived>>

\* A handler that signs nobody in, and no session out.
Keeps(p) ==
  /\ Ended(p) /\ SameFiles /\ lastSid' = lastSid
  /\ req'[p].file = req[p].file /\ req'[p].set = req[p].set /\ req'[p].data.uid = req[p].data.uid
  /\ req'[p].signs \in {Kept, Nobody} /\ (req'[p].signs = Nobody => ~Exists(req[p].sid))

\* A handler that signs in or out.
SettlesIt(p) ==
  /\ Ended(p) /\ DOMAIN file' \subseteq DOMAIN file \cup {lastSid'} /\ \A s \in DOMAIN file' : DOMAIN file'[s] = DataFields
  /\ \A s \in DOMAIN file : (s # req[p].sid => s \in DOMAIN file') /\ (s \in DOMAIN file' => file'[s] = file[s])
  /\ \/ /\ lastSid' = lastSid /\ DOMAIN file' \subseteq DOMAIN file
        /\ req'[p].signs = Nobody /\ req'[p].set = -1 /\ req'[p].file = 0
     \/ /\ lastSid' = lastSid + 1 /\ req'[p].set = lastSid' /\ req'[p].file = lastSid'
        /\ req'[p].signs \in Users /\ req'[p].data.uid = req'[p].signs

LEMMA KeepsMoves ==
  ASSUME Sound, NEW p \in Procs, Keeps(p), IsCookie(req'[p].remember) \/ req'[p].remember = KeptCookie
  PROVE  Moves(p)
<1>1. Typed /\ RowOK(req[p]) /\ lastSid \in Nat /\ \A s \in DOMAIN file : DOMAIN file[s] = DataFields
  BY DEF Sound, Typed, IsData
<1>2. req[p].from \in Browsers /\ req[p].set \in {-1, 0, req[p].file}
  BY <1>1 DEF RowOK, Keeps, Ended
<1> QED BY <1>1, <1>2 DEF Keeps, Ended, SameFiles, Moves

LEMMA SettlesMoves ==
  ASSUME Sound, NEW p \in Procs, SettlesIt(p), IsCookie(req'[p].remember)
  PROVE  Moves(p)
<1>1. Typed /\ RowOK(req[p]) /\ lastSid \in Nat
  BY DEF Sound, Typed
<1>2. req[p].from \in Browsers
  BY <1>1 DEF RowOK, SettlesIt, Ended
<1> QED BY <1>1, <1>2 DEF SettlesIt, Ended, Moves

LEMMA SignInSettles ==
  ASSUME Sound, NEW p \in Procs, NEW u \in Users, loginUserWithUser(p, u), req[p].at = "started",
         UNCHANGED <<mode, cookie, owner, late, astray, revived>>
  PROVE  SettlesIt(p) /\ IsCookie(req'[p].remember)
<1>1. Typed /\ \A s \in DOMAIN file : DOMAIN file[s] = DataFields /\ s # lastSid + 1
  BY DEF Sound, Typed, IsData
<1>2. /\ Rest(p) /\ SameRequest(p) /\ req'[p].sid = req[p].sid
      /\ lastSid' = lastSid + 1
      /\ DOMAIN file' = (DOMAIN file \ {req[p].sid}) \cup {lastSid'} /\ DOMAIN file'[lastSid'] = DataFields
      /\ \A s \in DOMAIN file \ {req[p].sid} : file'[s] = file[s]
      /\ req'[p].at = "handled" /\ req'[p].file = lastSid' /\ req'[p].set = lastSid' /\ req'[p].signs = u
      /\ IsData(req'[p].data) /\ req'[p].data.uid = u /\ IsCookie(req'[p].remember)
  BY <1>1, SignsIn
<1> QED BY <1>1, <1>2 DEF SettlesIt, Ended, IsData

LEMMA SameKeeps ==
  ASSUME Sound, NEW p \in Procs, req[p].at = "started", NEW data, NEW remember,
         Ends(p, data, req[p].file, req[p].set, remember, Kept), DOMAIN data = DataFields, data.uid = req[p].data.uid,
         UNCHANGED <<mode, cookie, file, lastSid, owner, late, astray, revived>>
  PROVE  Keeps(p) /\ req'[p].remember = remember
<1>1. Typed
  BY DEF Sound
<1>2. /\ Rest(p) /\ SameRequest(p) /\ req'[p].sid = req[p].sid
      /\ req'[p].at = "handled" /\ req'[p].data = data /\ req'[p].file = req[p].file /\ req'[p].set = req[p].set
      /\ req'[p].remember = remember /\ req'[p].signs = Kept
  BY <1>1, EndedRow
<1>3. Kept # Nobody
  BY IdleIs
<1> QED BY <1>2, <1>3 DEF Keeps, Ended, SameFiles

LEMMA CookiesIs == IsCookie(NoCookie)
BY DEF IsCookie

\* Every handler of the form, of resets and of OAuth is one of the two.
LEMMA Handlers ==
  ASSUME Sound, NEW p \in Procs,
         \/ Page(p) \/ LoginView(p) \/ Logout(p) \/ OAuthRedirect(p) \/ OAuthLogin(p)
         \/ \E answers \in Answers : LoginPost(p, answers)
  PROVE  Moves(p) /\ (Keeps(p) \/ SettlesIt(p))
<1> DEFINE r == req[p]
<1>1. Typed /\ RowOK(r) /\ lastSid \in Nat /\ \A s \in DOMAIN file : DOMAIN file[s] = DataFields
  BY DEF Sound, Typed, IsData
<1>2. r.at = "started"
  BY DEF Page, LoginView, Logout, OAuthRedirect, OAuthLogin, LoginPost, Handling
<1>3. UNCHANGED <<mode, cookie, owner, late, astray, revived>>
  BY DEF Page, LoginView, Logout, OAuthRedirect, OAuthLogin, LoginPost
<1>4. DOMAIN r.data = DataFields /\ IsCookie(r.remember)
  BY <1>1, <1>2 DEF RowOK, IsData
<1>5. ASSUME Same(p), UNCHANGED <<file, lastSid>> PROVE Moves(p) /\ Keeps(p)
  <2>1. Keeps(p) /\ req'[p].remember = KeptCookie
    BY <1>2, <1>3, <1>4, <1>5, SameKeeps DEF Same
  <2> QED BY <2>1, KeepsMoves
<1>6. ASSUME NEW u \in Users, loginUserWithUser(p, u) PROVE Moves(p) /\ SettlesIt(p)
  <2>1. SettlesIt(p) /\ IsCookie(req'[p].remember)
    BY <1>2, <1>3, <1>6, SignInSettles
  <2> QED BY <2>1, SettlesMoves
<1>7. ASSUME Page(p) PROVE Moves(p) /\ Keeps(p)
  BY <1>5, <1>7 DEF Page
<1>8. ASSUME LoginView(p) PROVE Moves(p) /\ (Keeps(p) \/ SettlesIt(p))
  <2>1. CASE r.remember # NoCookie /\ loginUserWithUser(p, r.remember.user)
    <3>1. r.remember.user \in Users
      BY <1>4, <2>1 DEF IsCookie
    <3> QED BY <1>6, <2>1, <3>1
  <2>2. CASE Ends(p, r.data, r.file, r.set, NoCookie, Kept) /\ UNCHANGED <<file, lastSid>>
    <3>1. Keeps(p) /\ req'[p].remember = NoCookie
      BY <1>2, <1>3, <1>4, <2>2, SameKeeps
    <3> QED BY <3>1, KeepsMoves, CookiesIs
  <2> QED BY <1>8, <2>1, <2>2 DEF LoginView
<1>9. ASSUME Logout(p) PROVE Moves(p) /\ (Keeps(p) \/ SettlesIt(p))
  <2>1. Gone(r.sid) /\ lastSid' = lastSid
    BY <1>9, Removes DEF Logout
  <2>2. CASE Exists(r.sid)
    <3>1. Ends(p, NoData, 0, -1, NoCookie, Nobody)
      BY <1>9, <2>2 DEF Logout
    <3>2. /\ Rest(p) /\ SameRequest(p) /\ req'[p].sid = r.sid
          /\ req'[p].at = "handled" /\ req'[p].data = NoData /\ req'[p].file = 0 /\ req'[p].set = -1
          /\ req'[p].remember = NoCookie /\ req'[p].signs = Nobody
      BY <1>1, <3>1, EndedRow
    <3>3. SettlesIt(p)
      BY <1>1, <1>2, <1>3, <2>1, <3>2, IdleIs DEF SettlesIt, Ended, Gone
    <3> QED BY <3>2, <3>3, SettlesMoves, CookiesIs
  <2>3. CASE ~Exists(r.sid)
    <3>1. Ends(p, r.data, r.file, r.set, NoCookie, Nobody)
      BY <1>9, <2>3 DEF Logout
    <3>2. /\ Rest(p) /\ SameRequest(p) /\ req'[p].sid = r.sid
          /\ req'[p].at = "handled" /\ req'[p].data = r.data /\ req'[p].file = r.file /\ req'[p].set = r.set
          /\ req'[p].remember = NoCookie /\ req'[p].signs = Nobody
      BY <1>1, <3>1, EndedRow
    <3>3. Keeps(p)
      BY <1>2, <1>3, <1>4, <2>1, <2>3, <3>2 DEF Keeps, Ended, SameFiles, Gone, Exists
    <3> QED BY <3>2, <3>3, KeepsMoves, CookiesIs
  <2> QED BY <2>2, <2>3
<1>10. ASSUME OAuthRedirect(p) PROVE Moves(p) /\ Keeps(p)
  <2> DEFINE data == [r.data EXCEPT !.state = r.arg]
  <2>1. DOMAIN data = DataFields /\ data.uid = r.data.uid
    BY <1>4 DEF DataFields
  <2>2. Ends(p, data, r.file, r.set, KeptCookie, Kept) /\ UNCHANGED <<file, lastSid>>
    BY <1>10 DEF OAuthRedirect
  <2> HIDE DEF data
  <2>3. Keeps(p) /\ req'[p].remember = KeptCookie
    BY <1>2, <1>3, <2>1, <2>2, SameKeeps
  <2> QED BY <2>3, KeepsMoves
<1>11. ASSUME OAuthLogin(p) PROVE Moves(p) /\ (Keeps(p) \/ SettlesIt(p))
  <2>1. r.user \in Users
    BY <1>1, <1>11 DEF RowOK, OAuthLogin, Handling
  <2> QED BY <1>5, <1>6, <1>11, <2>1 DEF OAuthLogin
<1>12. ASSUME NEW answers \in Answers, LoginPost(p, answers) PROVE Moves(p) /\ (Keeps(p) \/ SettlesIt(p))
  <2>1. r.user \in Users
    BY <1>1, <1>12 DEF RowOK, LoginPost, Handling
  <2> QED BY <1>5, <1>6, <1>12, <2>1 DEF LoginPost
<1> QED BY <1>7, <1>8, <1>9, <1>10, <1>11, <1>12

LEMMA StartMoves ==
  ASSUME Sound, NEW p \in Procs, NEW next \in {"started", "restarted"}, StartSession(p, next),
         req[p].at \in {"sent", "switching"}, next = "restarted" => req[p].at = "switching",
         UNCHANGED <<mode, cookie, owner>>
  PROVE  Moves(p)
<1>1. Typed /\ RowOK(req[p]) /\ lastSid \in Nat
  BY DEF Sound, Typed
<1>2. /\ Rest(p) /\ SameRequest(p)
      /\ req'[p].at = next /\ req'[p].remember = req[p].remember /\ req'[p].signs = req[p].signs
      /\ Exists(req[p].sid) => Found(p)
      /\ ~Exists(req[p].sid) => Made(p)
  BY <1>1, Starts
<1>3. /\ req[p].from \in Browsers /\ IsCookie(req[p].remember) /\ req[p].signs = Kept
      /\ next = "restarted" => req[p].kind = "proxy"
  BY <1>1 DEF RowOK
<1>4. /\ lastSid' \in {lastSid, lastSid + 1} /\ DOMAIN file' \subseteq DOMAIN file \cup {lastSid'}
      /\ lastSid' = lastSid => DOMAIN file' \subseteq DOMAIN file
      /\ \A s \in DOMAIN file' : DOMAIN file'[s] = DataFields
      /\ DOMAIN req'[p].data = DataFields
  <2>1. \A s \in DOMAIN file : DOMAIN file[s] = DataFields
    BY <1>1 DEF Typed, IsData
  <2>2. CASE Exists(req[p].sid)
    BY <1>2, <2>2 DEF Found, Exists
  <2>3. CASE ~Exists(req[p].sid)
    BY <1>1, <1>2, <2>1, <2>3, IdleIs DEF Made
  <2> QED BY <2>2, <2>3
<1>5. /\ req'[p].sid = req[p].sid \/ (req'[p].sid = lastSid' /\ lastSid' # lastSid)
      /\ \/ req'[p].file = req[p].sid /\ req'[p].set = 0
         \/ req'[p].file = lastSid' /\ lastSid' # lastSid /\ req'[p].set = lastSid'
  BY <1>1, <1>2 DEF Found, Made
<1>6. req'[p].set # -1
  BY <1>1, <1>4, <1>5
<1> QED BY <1>2, <1>3, <1>4, <1>5, <1>6 DEF Moves

LEMMA ProxyMoves ==
  ASSUME Sound, NEW p \in Procs, SwitchUser(p) \/ \E ldapFails \in BOOLEAN : AuthProxy(p, ldapFails)
  PROVE  Moves(p)
<1> DEFINE r == req[p]
<1>1. Typed /\ RowOK(r) /\ lastSid \in Nat /\ DOMAIN req = Procs /\ \A s \in DOMAIN file : DOMAIN file[s] = DataFields
  BY DEF Sound, Typed, IsData
<1>2. r.at \in {"started", "restarted"} /\ UNCHANGED <<mode, cookie, owner, lastSid>>
  BY DEF SwitchUser, AuthProxy, Handling
<1>3. /\ DOMAIN r = RowFields /\ DOMAIN r.data = DataFields /\ r.from \in Browsers /\ IsCookie(r.remember)
      /\ r.signs = Kept /\ r.set \in {-1, 0, r.file} /\ r.set # -1
  BY <1>1, <1>2 DEF RowOK, IsData
<1>4. CASE SwitchUser(p)
  <2>1. /\ Rest(p) /\ SameRequest(p) /\ req'[p].at = "switching" /\ req'[p].sid = r.sid
        /\ req'[p].data = r.data /\ req'[p].file = r.file /\ req'[p].set = r.set
        /\ req'[p].remember = r.remember /\ req'[p].signs = r.signs
    BY <1>1, <1>3, <1>4 DEF SwitchUser, Rest, SameRequest, RowFields
  <2>2. Gone(r.sid) /\ r.kind = "proxy"
    BY <1>4, Removes DEF SwitchUser, Handling
  <2> QED BY <1>1, <1>2, <1>3, <2>1, <2>2 DEF Moves, Gone
<1>5. ASSUME NEW ldapFails \in BOOLEAN, AuthProxy(p, ldapFails) PROVE Moves(p)
  <2>1. \E data, signs : DOMAIN data = DataFields /\ Ends(p, data, r.file, r.set, KeptCookie, signs)
    <3>1. DOMAIN [r.data EXCEPT !.uid = r.user, !.sync = IF r.data.sync < now - Ttl THEN now ELSE @] = DataFields
      BY <1>3
    <3>2. CASE r.data.sync < now - Ttl /\ ldapFails
      BY <1>3, <1>5, <3>2 DEF AuthProxy, Same
    <3>3. CASE ~(r.data.sync < now - Ttl /\ ldapFails)
      BY <1>5, <3>1, <3>3 DEF AuthProxy
    <3> QED BY <3>2, <3>3
  <2>2. PICK data, signs : DOMAIN data = DataFields /\ Ends(p, data, r.file, r.set, KeptCookie, signs)
    BY <2>1
  <2>3. /\ Rest(p) /\ SameRequest(p) /\ req'[p].sid = r.sid
        /\ req'[p].at = "handled" /\ req'[p].data = data /\ req'[p].file = r.file /\ req'[p].set = r.set
        /\ req'[p].remember = KeptCookie
    BY <1>1, <2>2, EndedRow
  <2>4. file' = file
    BY <1>5 DEF AuthProxy
  <2> QED BY <1>1, <1>2, <1>3, <2>2, <2>3, <2>4 DEF Moves
<1> QED BY <1>4, <1>5

\* Clocks, accounts, codes and the removal of old sessions.
Beside ==
  \/ Tick \/ SessionGC \/ \E u \in Users : SendResetPasswordEmail(u) \/ DeleteUser(u)
  \/ \E p \in Procs : \E code \in codes : ResetPassword(p, code)
  \/ \E p \in Procs : \E pw \in Passwords : ChangeUserPassword(p, pw)

\* Whoever loses the session is signed out.
OwnerLeft(b) ==
  \/ owner'[b] = owner[b] /\ (Exists(cookie[b].sess) => cookie[b].sess \in DOMAIN file')
  \/ owner'[b] = Nobody /\ cookie[b].sess \notin DOMAIN file'

LEMMA BesideWaits ==
  ASSUME Sound, Beside
  PROVE  /\ Waits /\ UNCHANGED <<late, astray, revived, mixed>>
         /\ \A s \in DOMAIN file' : file'[s] = file[s]
         /\ \A b \in Browsers : OwnerLeft(b)
         /\ \A q \in Procs : req'[q] = req[q] \/ (req'[q].from = Nobody /\ req[q].from = Nobody
                                                  /\ req'[q].data = NoData /\ req'[q].file = 0 /\ req'[q].set = 0
                                                  /\ req'[q].signs = Kept /\ req'[q].at # "handled")
<1>1. /\ Typed /\ lastSid \in Nat /\ DOMAIN req = Procs /\ DOMAIN owner = Browsers
      /\ \A s \in DOMAIN file : DOMAIN file[s] = DataFields
  BY DEF Sound, Typed, IsData
<1>2. CASE UNCHANGED <<mode, sessions>>
  BY <1>1, <1>2 DEF Waits, sessions, OwnerLeft, Exists
<1>3. CASE SessionGC
  <2>1. PICK old \in SUBSET DOMAIN file :
          /\ file' = Restrict(file, DOMAIN file \ old)
          /\ owner' = [b \in Browsers |-> IF cookie[b].sess \in old THEN Nobody ELSE owner[b]]
    BY <1>3 DEF SessionGC
  <2>2. DOMAIN file' = DOMAIN file \ old /\ \A s \in DOMAIN file' : file'[s] = file[s]
    BY <2>1, RestrictIs
  <2>3. /\ DOMAIN owner' = Browsers
        /\ \A b \in Browsers : OwnerLeft(b)
    BY <2>1, <2>2 DEF OwnerLeft, Exists
  <2> QED BY <1>1, <1>3, <2>2, <2>3 DEF Waits, SessionGC
<1>4. ASSUME NEW p \in Procs, NEW row, req[p].at \in {"idle", "resetting"}, req' = [req EXCEPT ![p] = row],
             RowOK(row), row.from = Nobody, row.at # "handled", row.data = NoData,
             UNCHANGED <<mode, cookie, file, lastSid, owner, late, astray, revived, mixed>>
      PROVE  /\ Waits /\ UNCHANGED <<late, astray, revived, mixed>>
             /\ \A s \in DOMAIN file' : file'[s] = file[s]
             /\ \A b \in Browsers : OwnerLeft(b)
             /\ \A q \in Procs : req'[q] = req[q] \/ (req'[q].from = Nobody /\ req[q].from = Nobody
                                                      /\ req'[q].data = NoData /\ req'[q].file = 0 /\ req'[q].set = 0
                                                      /\ req'[q].signs = Kept /\ req'[q].at # "handled")
  <2>1. req[p].from = Nobody
    BY <1>1, <1>4 DEF Typed, RowOK
  <2>2. row.at \in {"idle", "resetting"} /\ row.file = 0 /\ row.set = 0 /\ row.signs = Kept
    BY <1>4, IdleIs DEF RowOK
  <2>3. req'[p] = row /\ DOMAIN req' = Procs /\ \A q \in Procs \ {p} : req'[q] = req[q]
    BY <1>1, <1>4
  <2> QED BY <1>1, <1>4, <2>1, <2>2, <2>3 DEF Waits, OwnerLeft, Exists
<1>5. ASSUME NEW p \in Procs, NEW code \in codes, ResetPassword(p, code)
      PROVE  req[p].at = "idle" /\ \E row : req' = [req EXCEPT ![p] = row] /\ RowOK(row) /\ row.from = Nobody
                                          /\ row.at # "handled" /\ row.data = NoData
  <2> DEFINE row == [Idle EXCEPT !.at = "resetting", !.kind = "reset", !.user = code.user]
  <2>1. /\ DOMAIN row = RowFields /\ row.at = "resetting" /\ row.from = Nobody /\ row.kind = "reset" /\ row.sid = 0
        /\ row.remember = NoCookie /\ row.data = NoData /\ row.file = 0 /\ row.set = 0 /\ row.signs = Kept
    BY IdleIs DEF RowFields
  <2>2. req[p].at = "idle" /\ req' = [req EXCEPT ![p] = row]
    BY <1>5 DEF ResetPassword
  <2>3. 0 \in 0 .. lastSid
    BY <1>1
  <2> HIDE DEF row
  <2>4. RowOK(row)
    BY <2>1, <2>3, IdleIs DEF RowOK, IsData, IsCookie
  <2> QED BY <2>1, <2>2, <2>4
<1>6. RowOK(Idle)
  <2>1. 0 \in 0 .. lastSid
    BY <1>1
  <2> QED BY <2>1, IdleIs DEF RowOK, IsData, IsCookie
<1>7. ASSUME NEW p \in Procs, NEW pw \in Passwords, ChangeUserPassword(p, pw)
      PROVE  req[p].at = "resetting" /\ \E row : req' = [req EXCEPT ![p] = row] /\ RowOK(row) /\ row.from = Nobody
                                               /\ row.at # "handled" /\ row.data = NoData
  BY <1>6, <1>7, IdleIs DEF ChangeUserPassword
<1>8. ASSUME NEW p \in Procs, NEW code \in codes, ResetPassword(p, code)
      PROVE  UNCHANGED <<mode, cookie, file, lastSid, owner, late, astray, revived, mixed>>
  BY <1>8 DEF ResetPassword
<1>9. ASSUME NEW p \in Procs, NEW pw \in Passwords, ChangeUserPassword(p, pw)
      PROVE  UNCHANGED <<mode, cookie, file, lastSid, owner, late, astray, revived, mixed>>
  BY <1>9 DEF ChangeUserPassword
<1>10. CASE \E p \in Procs : \E code \in codes : ResetPassword(p, code)
  BY <1>4, <1>5, <1>8, <1>10
<1>11. CASE \E p \in Procs : \E pw \in Passwords : ChangeUserPassword(p, pw)
  BY <1>4, <1>7, <1>9, <1>11
<1>12. CASE Tick \/ \E u \in Users : SendResetPasswordEmail(u) \/ DeleteUser(u)
  BY <1>2, <1>12 DEF Tick, SendResetPasswordEmail, DeleteUser
<1> QED BY <1>3, <1>10, <1>11, <1>12 DEF Beside

Handled(p) ==
  \/ Page(p) \/ LoginView(p) \/ Logout(p) \/ OAuthRedirect(p) \/ OAuthLogin(p)
  \/ \E answers \in Answers : LoginPost(p, answers)

Proxied(p) == SwitchUser(p) \/ Restart(p) \/ \E ldapFails \in BOOLEAN : AuthProxy(p, ldapFails)

Sent(p) ==
  \E b \in Browsers : \E kind, u, arg :
    /\ Send(b, p, kind, u, arg)
    /\ kind = "proxy" <=> mode = "proxy"
    /\ kind \in {"login", "callback", "proxy"} => u \in Users

LEMMA SendsAre ==
  ASSUME NEW p \in Procs, Sends(p)
  PROVE  Sent(p)
<1> PICK b \in Browsers :
      \/ /\ mode = "form"
         /\ \/ \E kind \in {"page", "logout"} : Send(b, p, kind, Nobody, 0)
            \/ Send(b, p, "oauth", Nobody, sentCount + 1)
            \/ \E u \in Users : Send(b, p, "callback", u, cookie[b].state)
      \/ /\ mode \in {"form", "reset"}
         /\ \/ Send(b, p, "view", Nobody, 0)
            \/ \E u \in Users, pw \in Passwords : Send(b, p, "login", u, pw)
      \/ mode = "proxy" /\ \E u \in Users : Send(b, p, "proxy", u, 0)
  BY DEF Sends
<1>1. ASSUME NEW kind, NEW u, NEW arg, Send(b, p, kind, u, arg), kind = "proxy" <=> mode = "proxy",
             kind \in {"login", "callback", "proxy"} => u \in Users
      PROVE  Sent(p)
  BY <1>1 DEF Sent
<1>2. ASSUME mode = "form", NEW kind \in {"page", "logout"}, Send(b, p, kind, Nobody, 0) PROVE Sent(p)
  BY <1>1, <1>2
<1>3. ASSUME mode = "form", Send(b, p, "oauth", Nobody, sentCount + 1) PROVE Sent(p)
  BY <1>1, <1>3
<1>4. ASSUME mode = "form", NEW u \in Users, Send(b, p, "callback", u, cookie[b].state) PROVE Sent(p)
  BY <1>1, <1>4
<1>5. ASSUME mode \in {"form", "reset"}, Send(b, p, "view", Nobody, 0) PROVE Sent(p)
  BY <1>1, <1>5
<1>6. ASSUME mode \in {"form", "reset"}, NEW u \in Users, NEW pw \in Passwords, Send(b, p, "login", u, pw) PROVE Sent(p)
  BY <1>1, <1>6
<1>7. ASSUME mode = "proxy", NEW u \in Users, Send(b, p, "proxy", u, 0) PROVE Sent(p)
  BY <1>1, <1>7
<1> QED BY <1>2, <1>3, <1>4, <1>5, <1>6, <1>7

LEMMA StepsAre ==
  ASSUME LoginNext
  PROVE  Beside \/ \E p \in Procs : Sent(p) \/ Start(p) \/ Handled(p) \/ Proxied(p) \/ Release(p)
BY SendsAre DEF LoginNext, Beside, Handled, Proxied

LEMMA SoundStep ==
  ASSUME Sound, [LoginNext]_loginVars
  PROVE  Sound'
<1>1. CASE UNCHANGED loginVars
  BY <1>1 DEF loginVars, sessions, Sound, Typed, RowOK, IsData, IsCookie, Private, New, Apart
<1>2. CASE Beside
  BY <1>2, BesideWaits, WaitsSound
<1>3. ASSUME NEW p \in Procs, Sent(p) PROVE Sound'
  BY <1>3, SendSound DEF Sent
<1>4. ASSUME NEW p \in Procs, Start(p) PROVE Sound'
  <2>1. /\ StartSession(p, "started") /\ req[p].at \in {"sent", "switching"}
        /\ UNCHANGED <<mode, cookie, owner>>
    BY <1>4 DEF Start
  <2> QED BY <2>1, StartMoves, MovesSound
<1>5. ASSUME NEW p \in Procs, Handled(p) PROVE Sound'
  BY <1>5, Handlers, MovesSound DEF Handled
<1>6. ASSUME NEW p \in Procs, Proxied(p) PROVE Sound'
  <2>1. CASE Restart(p)
    <3>1. /\ StartSession(p, "restarted") /\ req[p].at \in {"sent", "switching"} /\ req[p].at = "switching"
          /\ UNCHANGED <<mode, cookie, owner>>
      BY <2>1 DEF Restart
    <3> QED BY <3>1, StartMoves, MovesSound
  <2> QED BY <1>6, <2>1, ProxyMoves, MovesSound DEF Proxied
<1>7. ASSUME NEW p \in Procs, Release(p) PROVE Sound'
  BY <1>7, ReleaseSound
<1> QED BY <1>1, <1>2, <1>3, <1>4, <1>5, <1>6, <1>7, StepsAre

LEMMA ModeStays ==
  ASSUME Sound, [LoginNext]_loginVars
  PROVE  mode' = mode
<1>1. CASE UNCHANGED loginVars
  BY <1>1 DEF loginVars
<1>2. CASE Beside
  BY <1>2, BesideWaits DEF Waits
<1>3. ASSUME NEW p \in Procs, Sent(p) \/ Start(p) \/ Handled(p) \/ Proxied(p) \/ Release(p) PROVE mode' = mode
  BY <1>3 DEF Sent, Send, Start, Handled, Page, LoginView, Logout, OAuthRedirect, OAuthLogin, LoginPost,
              Proxied, SwitchUser, Restart, AuthProxy, Release
<1> QED BY <1>1, <1>2, <1>3, StepsAre

LEMMA SoundAtFirst ==
  ASSUME LoginInit
  PROVE  Sound
<1>1. /\ lastSid = 0 /\ DOMAIN file = {} /\ DOMAIN cookie = Browsers /\ DOMAIN owner = Browsers /\ DOMAIN req = Procs
      /\ \A b \in Browsers : cookie[b].sess = 0 /\ IsCookie(cookie[b].remember)
      /\ \A p \in Procs : req[p] = Idle
  BY DEF LoginInit, IsCookie
<1>2. 0 \in 0 .. lastSid
  BY <1>1
<1>3. \A p \in Procs : RowOK(req[p])
  BY <1>1, <1>2, IdleIs DEF RowOK, IsData, IsCookie
<1>4. Typed
  BY <1>1, <1>2, <1>3 DEF Typed
<1>5. Private /\ Apart
  BY <1>1, IdleIs DEF Private, Apart, New
<1> QED BY <1>4, <1>5 DEF Sound

\* The session of a browser is never that of another browser, nor read or written by a
\* request of another browser's, however requests overlap and whatever signs them in
\* (Manager.Start, RegenerateId and Destroy hand out the ids).
THEOREM SessionsApart == LoginSpec => []Apart
<1>1. LoginInit => Sound
  BY SoundAtFirst
<1>2. Sound /\ [LoginNext]_loginVars => Sound'
  BY SoundStep
<1>3. Sound => Apart
  BY DEF Sound
<1> QED BY <1>1, <1>2, <1>3, PTL DEF LoginSpec

-----------------------------------------------------------------------------
(* Whose a session is: the file, and the copies of the requests that read it. *)

\* A new session is nobody's until it is signed in, and the answer that signs in has
\* a new session of the user.
RowRight(r) ==
  /\ r.signs \notin {Kept, Nobody} => New(r) /\ r.data.uid = r.signs
  /\ New(r) /\ r.signs \in {Kept, Nobody} => r.data.uid = Nobody
  /\ r.set = -1 => r.signs = Nobody /\ r.file = 0

\* A request has the user of the file that it will write, and so have all that will.
RowsAgree ==
  /\ \A p \in Procs : RowRight(req[p])
  /\ \A p \in Procs : req[p].file # 0 /\ Exists(req[p].file) /\ ~New(req[p])
                        => file[req[p].file].uid = req[p].data.uid
  /\ \A p, q \in Procs : req[p].file # 0 /\ req[p].file = req[q].file => req[p].data.uid = req[q].data.uid

LEMMA Shared ==
  ASSUME Sound, NEW p \in Procs, NEW q \in Procs, p # q, req[q].file # 0,
         req[p].file = req[q].file \/ req[p].sid = req[q].file
  PROVE  ~New(req[q])
BY DEF Sound, Private, Typed, RowOK, New

LEMMA StartAgrees ==
  ASSUME Sound, RowsAgree, NEW p \in Procs, Start(p)
  PROVE  RowsAgree'
<1>1. Typed /\ StartSession(p, "started") /\ lastSid \in Nat /\ req[p].signs = Kept
      /\ \A q \in Procs : req[q].file \in 0 .. lastSid
  BY DEF Start, Sound, Typed, RowOK
<1>2. /\ Rest(p) /\ req'[p].signs = Kept
      /\ Exists(req[p].sid) => Found(p)
      /\ ~Exists(req[p].sid) => Made(p)
  BY <1>1, Starts
<1>3. CASE Exists(req[p].sid)
  <2>1. /\ \A s \in DOMAIN file : file'[s].uid = file[s].uid
        /\ DOMAIN file' = DOMAIN file
        /\ req'[p].file = req[p].sid /\ req'[p].set = 0 /\ req'[p].data.uid = file[req[p].sid].uid
    BY <1>2, <1>3 DEF Found, Exists
  <2>2. \A q \in Procs \ {p} : req[q].file # 0 /\ req[q].file = req[p].sid => req[q].data.uid = file[req[p].sid].uid
    BY <1>3, Shared DEF RowsAgree
  <2>3. \A q \in Procs : RowRight(req[q])'
    BY <1>2, <2>1, IdleIs DEF RowsAgree, RowRight, Rest, New
  <2>4. \A q \in Procs : req'[q].file # 0 /\ req'[q].file \in DOMAIN file' /\ ~New(req'[q])
                           => file'[req'[q].file].uid = req'[q].data.uid
    BY <1>2, <2>1 DEF RowsAgree, Rest, Exists
  <2>5. \A q, o \in Procs : req'[q].file # 0 /\ req'[q].file = req'[o].file => req'[q].data.uid = req'[o].data.uid
    BY <1>2, <2>1, <2>2 DEF RowsAgree, Rest
  <2> QED BY <2>3, <2>4, <2>5 DEF RowsAgree, Exists, New
<1>4. CASE ~Exists(req[p].sid)
  <2>1. /\ lastSid' = lastSid + 1 /\ DOMAIN file' = DOMAIN file \cup {lastSid'}
        /\ \A s \in DOMAIN file : file'[s] = file[s]
        /\ req'[p].file = lastSid' /\ req'[p].set = lastSid' /\ req'[p].data.uid = Nobody
    BY <1>2, <1>4, IdleIs DEF Made
  <2>2. \A q \in Procs \ {p} : req'[q] = req[q] /\ req[q].file # lastSid'
    BY <1>1, <1>2, <2>1 DEF Rest
  <2>3. New(req'[p])
    BY <1>1, <2>1 DEF New
  <2>4. \A q \in Procs : RowRight(req[q])'
    BY <1>2, <2>1, <2>2, <2>3, IdleIs DEF RowsAgree, RowRight, New
  <2>5. \A q \in Procs : req'[q].file # 0 /\ req'[q].file \in DOMAIN file' /\ ~New(req'[q])
                           => file'[req'[q].file].uid = req'[q].data.uid
    BY <2>1, <2>2, <2>3 DEF RowsAgree, Exists
  <2>6. \A q, o \in Procs : req'[q].file # 0 /\ req'[q].file = req'[o].file => req'[q].data.uid = req'[o].data.uid
    BY <2>1, <2>2 DEF RowsAgree
  <2> QED BY <2>4, <2>5, <2>6 DEF RowsAgree, Exists, New
<1> QED BY <1>3, <1>4

LEMMA HandlersAgree ==
  ASSUME Sound, RowsAgree, NEW p \in Procs, Keeps(p) \/ SettlesIt(p)
  PROVE  RowsAgree'
<1>1. Typed /\ lastSid \in Nat /\ RowOK(req[p]) /\ \A q \in Procs : req[q].file \in 0 .. lastSid
  BY DEF Sound, Typed, RowOK
<1>2. req[p].signs = Kept /\ Rest(p)
  BY <1>1 DEF RowOK, Keeps, SettlesIt, Ended
<1>3. CASE Keeps(p)
  <2>1. /\ DOMAIN file' = DOMAIN file /\ \A s \in DOMAIN file : file'[s] = file[s]
        /\ req'[p].file = req[p].file /\ req'[p].set = req[p].set /\ req'[p].data.uid = req[p].data.uid
        /\ req'[p].signs \in {Kept, Nobody}
    BY <1>3 DEF Keeps, SameFiles
  <2>2. req[p].set # -1
    BY <1>1, <1>3 DEF RowOK, Keeps, Ended
  <2>3. \A q \in Procs : RowRight(req[q])'
    BY <1>2, <2>1, <2>2 DEF RowsAgree, RowRight, Rest, New
  <2>4. \A q \in Procs : req'[q].file # 0 /\ req'[q].file \in DOMAIN file' /\ ~New(req'[q])
                           => file'[req'[q].file].uid = req'[q].data.uid
    BY <1>2, <2>1 DEF RowsAgree, Rest, Exists, New
  <2>5. \A q, o \in Procs : req'[q].file # 0 /\ req'[q].file = req'[o].file => req'[q].data.uid = req'[o].data.uid
    BY <1>2, <2>1 DEF RowsAgree, Rest
  <2> QED BY <2>3, <2>4, <2>5 DEF RowsAgree, Exists, New
<1>4. CASE SettlesIt(p)
  <2>1. /\ DOMAIN file' \subseteq DOMAIN file \cup {lastSid'}
        /\ \A s \in DOMAIN file : s \in DOMAIN file' => file'[s] = file[s]
        /\ \/ /\ lastSid' = lastSid /\ DOMAIN file' \subseteq DOMAIN file
              /\ req'[p].signs = Nobody /\ req'[p].set = -1 /\ req'[p].file = 0
           \/ /\ lastSid' = lastSid + 1 /\ req'[p].set = lastSid' /\ req'[p].file = lastSid'
              /\ req'[p].signs \in Users /\ req'[p].data.uid = req'[p].signs
    BY <1>4 DEF SettlesIt
  <2>2. \A q \in Procs \ {p} : req'[q] = req[q] /\ (lastSid' # lastSid => req[q].file # lastSid')
    BY <1>1, <1>2, <2>1 DEF Rest
  <2>3. lastSid' = lastSid + 1 => New(req'[p])
    BY <1>1, <2>1 DEF New
  <2>4. \A q \in Procs : RowRight(req[q])'
    BY <1>1, <2>1, <2>2, <2>3, IdleIs DEF RowsAgree, RowRight, New
  <2>5. \A q \in Procs : req'[q].file # 0 /\ req'[q].file \in DOMAIN file' /\ ~New(req'[q])
                           => file'[req'[q].file].uid = req'[q].data.uid
    <3> SUFFICES ASSUME NEW q \in Procs \ {p}, req[q].file # 0, req[q].file \in DOMAIN file', ~New(req[q])
                 PROVE  file'[req[q].file].uid = req[q].data.uid
      BY <1>1, <2>1, <2>2, <2>3
    <3>1. req[q].file \in DOMAIN file /\ file[req[q].file].uid = req[q].data.uid
      BY <1>1, <2>1, <2>2 DEF RowsAgree, Exists
    <3> QED BY <2>1, <3>1
  <2>6. \A q, o \in Procs : req'[q].file # 0 /\ req'[q].file = req'[o].file => req'[q].data.uid = req'[o].data.uid
    BY <1>1, <2>1, <2>2 DEF RowsAgree
  <2> QED BY <2>4, <2>5, <2>6 DEF RowsAgree, Exists, New
<1> QED BY <1>3, <1>4

LEMMA ReleaseAgrees ==
  ASSUME Sound, RowsAgree, NEW p \in Procs, Release(p)
  PROVE  /\ RowsAgree'
         /\ \A s \in DOMAIN file : s \in DOMAIN file' /\ (s # req[p].set \/ s = 0 => file'[s].uid = file[s].uid)
<1>1. Typed /\ RowOK(req[p])
  BY DEF Sound, Typed
<1>2. /\ Rest(p) /\ req'[p] = Idle
      /\ req[p].file = 0 => file' = file
      /\ req[p].file # 0 =>
              /\ DOMAIN file' = DOMAIN file \cup {req[p].file}
              /\ \A s \in DOMAIN file : s # req[p].file => file'[s] = file[s]
              /\ file'[req[p].file].uid = req[p].data.uid
  BY <1>1, Releases
<1>3. \A q \in Procs \ {p} : req[p].file # 0 /\ req[q].file = req[p].file => req[q].data.uid = req[p].data.uid
  BY DEF RowsAgree
<1>4. req'[p].file = 0 /\ req'[p].set = 0 /\ req'[p].signs = Kept
  BY <1>2, IdleIs
<1>5. \A q \in Procs : RowRight(req[q])'
  BY <1>2, <1>4, IdleIs DEF RowsAgree, RowRight, Rest, New
<1>6. \A q \in Procs : req'[q].file # 0 /\ req'[q].file \in DOMAIN file' /\ ~New(req'[q])
                         => file'[req'[q].file].uid = req'[q].data.uid
  <2> SUFFICES ASSUME NEW q \in Procs \ {p}, req[q].file # 0, req[q].file \in DOMAIN file', ~New(req[q])
               PROVE  file'[req[q].file].uid = req[q].data.uid
    BY <1>2, <1>4 DEF Rest
  <2>1. CASE req[q].file = req[p].file
    BY <1>2, <1>3, <2>1
  <2>2. CASE req[q].file # req[p].file
    BY <1>2, <2>2 DEF RowsAgree, Exists
  <2> QED BY <2>1, <2>2
<1>7. \A q, o \in Procs : req'[q].file # 0 /\ req'[q].file = req'[o].file => req'[q].data.uid = req'[o].data.uid
  BY <1>2, <1>4 DEF RowsAgree, Rest
<1>8. ASSUME NEW s \in DOMAIN file, s # req[p].set \/ s = 0 PROVE file'[s].uid = file[s].uid
  <2>1. CASE s = req[p].file /\ s # 0
    <3>1. ~New(req[p])
      BY <1>1, <1>8, <2>1 DEF New, RowOK
    <3> QED BY <1>2, <2>1, <3>1 DEF RowsAgree, Exists
  <2>2. 0 \notin DOMAIN file
    BY <1>1 DEF Typed
  <2> QED BY <1>2, <2>1, <2>2
<1> QED BY <1>2, <1>5, <1>6, <1>7, <1>8 DEF RowsAgree, Exists, New

LEMMA AgreeStep ==
  ASSUME Sound, mode # "proxy", RowsAgree, [LoginNext]_loginVars
  PROVE  RowsAgree'
<1>1. CASE UNCHANGED loginVars
  BY <1>1 DEF loginVars, sessions, RowsAgree, RowRight, New, Exists
<1>2. ASSUME DOMAIN file' \subseteq DOMAIN file, \A s \in DOMAIN file' : file'[s] = file[s],
             \A q \in Procs : req'[q] = req[q] \/ (req'[q].file = 0 /\ req'[q].set = 0 /\ req'[q].signs = Kept)
      PROVE  RowsAgree'
  <2>1. \A q \in Procs : RowRight(req[q])'
    BY <1>2, IdleIs DEF RowsAgree, RowRight, New
  <2>2. \A q \in Procs : req'[q].file # 0 => req'[q] = req[q]
    BY <1>2
  <2>3. \A q \in Procs : req'[q].file # 0 /\ req'[q].file \in DOMAIN file' /\ ~New(req'[q])
                         => file'[req'[q].file].uid = req'[q].data.uid
    BY <1>2, <2>2 DEF RowsAgree, Exists
  <2>4. \A q, o \in Procs : req'[q].file # 0 /\ req'[q].file = req'[o].file => req'[q].data.uid = req'[o].data.uid
    BY <2>2 DEF RowsAgree
  <2> QED BY <2>1, <2>3, <2>4 DEF RowsAgree, Exists, New
<1>3. CASE Beside
  BY <1>2, <1>3, BesideWaits DEF Waits
<1>4. ASSUME NEW p \in Procs, Sent(p) PROVE RowsAgree'
  <2> PICK c \in Browsers : \E kind, u, arg :
        /\ Send(c, p, kind, u, arg)
        /\ kind = "proxy" <=> mode = "proxy"
        /\ kind \in {"login", "callback", "proxy"} => u \in Users
    BY <1>4 DEF Sent
  <2> PICK kind, u, arg :
        /\ Send(c, p, kind, u, arg)
        /\ kind = "proxy" <=> mode = "proxy"
        /\ kind \in {"login", "callback", "proxy"} => u \in Users
    OBVIOUS
  <2>1. Rest(p) /\ req'[p].file = 0 /\ req'[p].set = 0 /\ req'[p].signs = Kept
    BY SendSound
  <2>2. file' = file
    BY DEF Send
  <2> QED BY <1>2, <2>1, <2>2 DEF Rest
<1>5. ASSUME NEW p \in Procs, Start(p) PROVE RowsAgree'
  BY <1>5, StartAgrees
<1>6. ASSUME NEW p \in Procs, Handled(p) PROVE RowsAgree'
  BY <1>6, Handlers, HandlersAgree DEF Handled
<1>7. ASSUME NEW p \in Procs, Proxied(p) PROVE FALSE
  <2>1. RowOK(req[p]) /\ Nobody \notin Browsers
    BY IdleIs DEF Sound, Typed
  <2> QED BY <1>7, <2>1 DEF Proxied, SwitchUser, Restart, AuthProxy, Handling, RowOK
<1>8. ASSUME NEW p \in Procs, Release(p) PROVE RowsAgree'
  BY <1>8, ReleaseAgrees
<1> QED BY <1>1, <1>3, <1>4, <1>5, <1>6, <1>7, <1>8, StepsAre

-----------------------------------------------------------------------------
(* The session of a browser follows its sign-ins and sign-outs. *)

Excused(b) == b \in astray \/ SigningInOrOut(b)

\* Nobody is signed in with the session of the browser.
Strange(b) ==
  LET sid == cookie[b].sess IN Exists(sid) => file[sid].uid = Nobody \/ sid \in revived

Matches(b) ==
  LET sid == cookie[b].sess IN
  IF owner[b] = Nobody THEN Strange(b) ELSE Exists(sid) /\ file[sid].uid = owner[b]

\* A request of the browser that is not late has the browser's session, or else nobody
\* is signed in, and its answer changes nothing but that.
RowFollows(p, b) ==
  p \notin late =>
    /\ req[p].at \in {"sent", "started"} /\ req[p].set = 0
         => req[p].sid = cookie[b].sess \/ owner[b] = Nobody \/ Excused(b)
    /\ New(req[p]) /\ req[p].signs = Kept => owner[b] = Nobody \/ Excused(b)
    /\ req[p].signs = Nobody /\ req[p].set = 0 => Strange(b) \/ Excused(b)

Follows(b) ==
  /\ Excused(b) \/ Matches(b)
  /\ \A p \in Procs : req[p].from = b => RowFollows(p, b)

LEMMA FollowsIsEnough ==
  ASSUME \A b \in Browsers : Follows(b)
  PROVE  StaysSignedIn
BY DEF Follows, Excused, Matches, Strange, StaysSignedIn

LEMMA ExcusedFollows ==
  ASSUME NEW b \in Browsers, Excused(b)'
  PROVE  Follows(b)'
BY DEF Follows, RowFollows

\* What a step leaves of a browser, its session and its exceptions.
Undisturbed(b) ==
  LET sid == cookie[b].sess IN
  /\ cookie'[b].sess = sid /\ revived \subseteq revived'
  /\ Excused(b) => Excused(b)'
  /\ \/ owner'[b] = owner[b] /\ (Exists(sid) => sid \in DOMAIN file')
     \/ owner'[b] = Nobody /\ sid \notin DOMAIN file'
  /\ Exists(sid) /\ sid \in DOMAIN file' => file'[sid].uid = file[sid].uid
  /\ ~Exists(sid) /\ sid \in DOMAIN file' => sid \in revived'

LEMMA UndisturbedIs ==
  ASSUME NEW b \in Browsers, Undisturbed(b)
  PROVE  /\ Matches(b) => Matches(b)'
         /\ Strange(b) => Strange(b)'
         /\ owner[b] = Nobody => owner'[b] = Nobody
<1>1. Strange(b) => Strange(b)'
  BY DEF Undisturbed, Strange, Exists
<1>2. Matches(b) => Matches(b)'
  BY <1>1 DEF Undisturbed, Matches, Strange, Exists
<1> QED BY <1>1, <1>2 DEF Undisturbed

LEMMA RowStill ==
  ASSUME NEW b \in Browsers, NEW q \in Procs, Undisturbed(b), RowFollows(q, b), req'[q] = req[q],
         q \notin late' => q \notin late
  PROVE  RowFollows(q, b)'
BY UndisturbedIs DEF RowFollows, Undisturbed, New

\* A step that changes at most request p of those of b.
LEMMA StillFollows ==
  ASSUME NEW b \in Browsers, Follows(b), Undisturbed(b), NEW p \in Procs,
         \A q \in Procs \ {p} : req'[q] = req[q] /\ (q \notin late' /\ req[q].from = b => q \notin late),
         req'[p].from = b => RowFollows(p, b)'
  PROVE  Follows(b)'
<1>1. Excused(b)' \/ Matches(b)'
  BY UndisturbedIs DEF Follows, Undisturbed
<1>2. ASSUME NEW q \in Procs \ {p}, req'[q].from = b PROVE RowFollows(q, b)'
  BY <1>2, RowStill DEF Follows
<1> QED BY <1>1, <1>2 DEF Follows

\* Steps before the answer do not take away who is being signed in or out.
LEMMA ExcusedStays ==
  ASSUME NEW b \in Browsers, NEW p \in Procs, req[p].at # "handled", \A q \in Procs \ {p} : req'[q] = req[q],
         astray' = astray, Excused(b)
  PROVE  Excused(b)'
BY DEF Excused, SigningInOrOut, Settles

LEMMA CookiesBelow ==
  ASSUME Sound, NEW b \in Browsers
  PROVE  /\ cookie[b].sess \in 0 .. lastSid /\ lastSid \in Nat /\ cookie[b].sess # lastSid + 1
         /\ 0 \notin DOMAIN file
         /\ \A p \in Procs : req[p].from # b /\ cookie[b].sess # 0
              => req[p].sid # cookie[b].sess /\ req[p].file # cookie[b].sess
         /\ \A p \in Procs : req[p].sid \in 0 .. lastSid /\ req[p].file \in 0 .. lastSid
BY DEF Sound, Typed, RowOK, Apart

LEMMA BesideFollows ==
  ASSUME Sound, NEW b \in Browsers, Follows(b), Beside
  PROVE  Follows(b)'
<1>1. /\ Waits /\ UNCHANGED <<late, astray, revived>>
      /\ \A s \in DOMAIN file' : file'[s] = file[s]
      /\ OwnerLeft(b)
      /\ \A q \in Procs : req'[q] = req[q] \/ (req'[q].from = Nobody /\ req[q].from = Nobody)
  BY BesideWaits
<1>2. b # Nobody
  BY IdleIs
<1>3. Excused(b) => Excused(b)'
  BY <1>1, <1>2 DEF Excused, SigningInOrOut, Settles
<1>4. Undisturbed(b)
  BY <1>1, <1>3 DEF Undisturbed, Waits, OwnerLeft, Exists
<1>5. ASSUME NEW q \in Procs, req'[q].from = b PROVE RowFollows(q, b)'
  BY <1>1, <1>2, <1>4, <1>5, RowStill DEF Follows
<1>6. Excused(b)' \/ Matches(b)'
  BY <1>4, UndisturbedIs DEF Follows, Undisturbed
<1> QED BY <1>5, <1>6 DEF Follows

LEMMA SendFollows ==
  ASSUME Sound, NEW b \in Browsers, Follows(b), NEW p \in Procs, Sent(p)
  PROVE  Follows(b)'
<1> PICK c \in Browsers : \E kind, u, arg :
      /\ Send(c, p, kind, u, arg)
      /\ kind = "proxy" <=> mode = "proxy"
      /\ kind \in {"login", "callback", "proxy"} => u \in Users
  BY DEF Sent
<1> PICK kind, u, arg :
      /\ Send(c, p, kind, u, arg)
      /\ kind = "proxy" <=> mode = "proxy"
      /\ kind \in {"login", "callback", "proxy"} => u \in Users
  OBVIOUS
<1>1. /\ Rest(p) /\ req'[p].from = c /\ req'[p].sid = cookie[c].sess /\ req'[p].set = 0 /\ req'[p].signs = Kept
  BY SendSound
<1>2. req[p].at = "idle" /\ UNCHANGED <<cookie, file, owner, late, astray, revived>>
  BY DEF Send
<1>3. Excused(b) => Excused(b)'
  BY <1>1, <1>2, ExcusedStays DEF Rest
<1>4. Undisturbed(b)
  BY <1>2, <1>3 DEF Undisturbed, Exists
<1>5. req'[p].from = b => RowFollows(p, b)'
  BY <1>1, <1>2, IdleIs DEF RowFollows, New
<1> QED BY <1>1, <1>2, <1>4, <1>5, StillFollows DEF Rest

LEMMA StartFollows ==
  ASSUME Sound, NEW b \in Browsers, Follows(b), NEW p \in Procs, Start(p)
  PROVE  Follows(b)'
<1>1. /\ Typed /\ StartSession(p, "started") /\ req[p].at = "sent" /\ req[p].set = 0 /\ req[p].signs = Kept
      /\ UNCHANGED <<cookie, owner, late, astray, revived>>
  BY DEF Start, Sound, Typed, RowOK
<1>2. /\ Rest(p) /\ req'[p].from = req[p].from /\ req'[p].signs = Kept
      /\ Exists(req[p].sid) => Found(p)
      /\ ~Exists(req[p].sid) => Made(p)
  BY <1>1, Starts DEF SameRequest
<1>3. Excused(b) => Excused(b)'
  BY <1>1, <1>2, ExcusedStays DEF Rest
<1>4. /\ Exists(cookie[b].sess) <=> cookie[b].sess \in DOMAIN file'
      /\ Exists(cookie[b].sess) => file'[cookie[b].sess].uid = file[cookie[b].sess].uid
  <2>1. CASE Exists(req[p].sid)
    BY <1>2, <2>1 DEF Found, Exists
  <2>2. CASE ~Exists(req[p].sid)
    BY <1>2, <2>2, CookiesBelow DEF Made, Exists
  <2> QED BY <2>1, <2>2
<1>5. Undisturbed(b)
  BY <1>1, <1>3, <1>4 DEF Undisturbed, Exists
<1>6. ASSUME req'[p].from = b, p \notin late'
      PROVE  /\ req'[p].set = 0 => req'[p].sid = cookie'[b].sess \/ owner'[b] = Nobody \/ Excused(b)'
             /\ New(req'[p]) => owner'[b] = Nobody \/ Excused(b)'
  <2>1. req[p].sid = cookie[b].sess \/ owner[b] = Nobody \/ Excused(b)
    BY <1>1, <1>2, <1>6 DEF Follows, RowFollows
  <2>2. CASE Exists(req[p].sid)
    BY <1>1, <1>2, <1>3, <2>1, <2>2 DEF Found, New
  <2>3. CASE ~Exists(req[p].sid)
    <3>1. req'[p].set # 0
      BY <1>2, <2>3, CookiesBelow DEF Made
    <3>2. owner[b] = Nobody \/ Excused(b)
      BY <2>1, <2>3 DEF Follows, Matches
    <3> QED BY <1>1, <1>3, <3>1, <3>2
  <2> QED BY <2>2, <2>3
<1>7. req'[p].from = b => RowFollows(p, b)'
  BY <1>2, <1>6, IdleIs DEF RowFollows, New
<1> QED BY <1>1, <1>2, <1>5, <1>7, StillFollows DEF Rest

LEMMA KeepsFollows ==
  ASSUME Sound, NEW b \in Browsers, Follows(b), NEW p \in Procs, Keeps(p)
  PROVE  Follows(b)'
<1>1. /\ Rest(p) /\ req'[p].from = req[p].from /\ req[p].at = "started" /\ req'[p].at = "handled"
      /\ UNCHANGED <<cookie, owner, late, astray, revived>>
      /\ DOMAIN file' = DOMAIN file /\ \A s \in DOMAIN file : file'[s] = file[s]
      /\ req'[p].set = req[p].set
      /\ req'[p].signs \in {Kept, Nobody} /\ (req'[p].signs = Nobody => ~Exists(req[p].sid))
  BY DEF Keeps, Ended, SameFiles, SameRequest
<1>2. req[p].signs = Kept /\ Kept # Nobody
  BY <1>1, IdleIs DEF Sound, Typed, RowOK
<1>3. Excused(b) => Excused(b)'
  BY <1>1, ExcusedStays DEF Rest
<1>4. Undisturbed(b)
  BY <1>1, <1>3 DEF Undisturbed, Exists
<1>5. ASSUME req'[p].from = b, p \notin late', New(req'[p]), req'[p].signs = Kept
      PROVE  owner'[b] = Nobody \/ Excused(b)'
  BY <1>1, <1>2, <1>3, <1>5 DEF Follows, RowFollows, New
<1>6. ASSUME req'[p].from = b, p \notin late', req'[p].signs = Nobody, req'[p].set = 0
      PROVE  Strange(b)' \/ Excused(b)'
  <2>1. req[p].sid = cookie[b].sess \/ owner[b] = Nobody \/ Excused(b)
    BY <1>1, <1>6 DEF Follows, RowFollows
  <2>2. ~Exists(req[p].sid)
    BY <1>1, <1>6
  <2>3. CASE req[p].sid = cookie[b].sess
    <3>1. Strange(b)
      BY <2>2, <2>3 DEF Strange
    <3> QED BY <1>4, <3>1, UndisturbedIs
  <2>4. CASE owner[b] = Nobody
    <3>1. Excused(b) \/ Strange(b)
      BY <2>4 DEF Follows, Matches
    <3> QED BY <1>3, <1>4, <3>1, UndisturbedIs
  <2> QED BY <1>3, <2>1, <2>3, <2>4
<1>7. req'[p].from = b => RowFollows(p, b)'
  BY <1>1, <1>5, <1>6 DEF RowFollows, New
<1> QED BY <1>1, <1>4, <1>7, StillFollows DEF Rest

LEMMA SettlesFollows ==
  ASSUME Sound, NEW b \in Browsers, Follows(b), NEW p \in Procs, SettlesIt(p)
  PROVE  Follows(b)'
<1>1. /\ Rest(p) /\ req'[p].from = req[p].from /\ req[p].at = "started" /\ req'[p].at = "handled"
      /\ UNCHANGED <<cookie, owner, late, astray, revived>>
      /\ DOMAIN file' \subseteq DOMAIN file \cup {lastSid'} /\ lastSid' \in {lastSid, lastSid + 1}
      /\ lastSid' = lastSid => DOMAIN file' \subseteq DOMAIN file
      /\ \A s \in DOMAIN file : (s # req[p].sid => s \in DOMAIN file') /\ (s \in DOMAIN file' => file'[s] = file[s])
      /\ Settles(req'[p])
  <2>1. lastSid \in Nat /\ Kept # Nobody /\ Nobody \notin Users /\ Kept \notin Users
    BY IdleIs DEF Sound, Typed
  <2> QED BY <2>1 DEF SettlesIt, Ended, SameRequest, Settles
<1>2. CASE req[p].from = b
  <2>1. Excused(b)'
    BY <1>1, <1>2 DEF Excused, SigningInOrOut, Settles
  <2> QED BY <2>1, ExcusedFollows
<1>3. CASE req[p].from # b
  <2>1. Excused(b) => Excused(b)'
    BY <1>1, ExcusedStays DEF Rest
  <2>2. /\ Exists(cookie[b].sess) <=> cookie[b].sess \in DOMAIN file'
        /\ Exists(cookie[b].sess) => file'[cookie[b].sess] = file[cookie[b].sess]
    BY <1>1, <1>3, CookiesBelow DEF Exists
  <2>3. Undisturbed(b)
    BY <1>1, <2>1, <2>2 DEF Undisturbed, Exists
  <2> QED BY <1>1, <1>3, <2>3, StillFollows DEF Rest
<1> QED BY <1>2, <1>3

LEMMA ReleaseFollows ==
  ASSUME Sound, RowsAgree, NEW b \in Browsers, Follows(b), NEW p \in Procs, Release(p)
  PROVE  Follows(b)'
<1> DEFINE r == req[p]
<1>1. /\ Typed /\ RowOK(r) /\ RowRight(r) /\ Kept # Nobody /\ Nobody \notin Browsers
  BY IdleIs DEF Sound, Typed, RowsAgree
<1>2. /\ Rest(p) /\ req'[p] = Idle /\ r.at = "handled" /\ r.from \in Browsers
      /\ r.file = 0 => file' = file /\ revived' = revived
      /\ r.file # 0 =>
           /\ DOMAIN file' = DOMAIN file \cup {r.file}
           /\ \A s \in DOMAIN file : s # r.file => file'[s] = file[s]
           /\ file'[r.file].uid = r.data.uid
           /\ revived' = IF Exists(r.file) THEN revived ELSE revived \cup {r.file}
      /\ \A c \in Browsers \ {r.from} : cookie'[c] = cookie[c] /\ owner'[c] = owner[c]
      /\ cookie'[r.from].sess = (IF r.set = 0 THEN cookie[r.from].sess ELSE IF r.set = -1 THEN 0 ELSE r.set)
      /\ owner'[r.from] = (IF r.signs = Kept THEN owner[r.from] ELSE r.signs)
  BY <1>1, Releases
<1>3. /\ late' = (late \ {p}) \cup { q \in Procs \ {p} : r.signs # Kept /\ req[q].from = r.from }
      /\ astray' = IF p \in late /\ Strays(r) THEN astray \cup {r.from}
                   ELSE IF Settles(r) THEN astray \ {r.from} ELSE astray
  BY DEF Release
<1>4. /\ req'[p].from = Nobody /\ req'[p].signs = Kept
      /\ \A q \in Procs \ {p} : req'[q] = req[q]
  BY <1>2, IdleIs DEF Rest
<1>5. \A s \in DOMAIN file : s \in DOMAIN file' /\ (s # r.set \/ s = 0 => file'[s].uid = file[s].uid)
  BY ReleaseAgrees
<1>6. revived \subseteq revived' /\ \A s \in DOMAIN file' : s \in DOMAIN file \/ s \in revived'
  BY <1>2 DEF Exists
<1>7. req'[p].from # b
  BY <1>1, <1>4
<1>8. CASE r.from # b
  <2>1. Excused(b) => Excused(b)'
    <3>1. b \in astray => b \in astray'
      BY <1>3, <1>8
    <3>2. SigningInOrOut(b) => SigningInOrOut(b)'
      BY <1>4, <1>8 DEF SigningInOrOut, Settles
    <3> QED BY <3>1, <3>2 DEF Excused
  <2>2. cookie[b].sess \in DOMAIN file => cookie[b].sess # r.set
    BY <1>1, <1>8, CookiesBelow DEF RowOK
  <2>3. Undisturbed(b)
    BY <1>2, <1>5, <1>6, <1>8, <2>1, <2>2 DEF Undisturbed, Exists
  <2>4. \A q \in Procs \ {p} : q \notin late' => q \notin late
    BY <1>3
  <2> QED BY <1>4, <1>7, <2>3, <2>4, StillFollows
<1>9. ASSUME r.from = b, ~Settles(r), SigningInOrOut(b) PROVE SigningInOrOut(b)'
  BY <1>4, <1>9 DEF SigningInOrOut, Settles
\* The answer leaves the cookie as it is and signs nobody in or out.
<1>10. CASE r.from = b /\ r.signs = Kept /\ r.set = 0
  <2>1. ~Settles(r) /\ ~Strays(r)
    BY <1>1, <1>10 DEF Settles, Strays
  <2>2. Excused(b) => Excused(b)'
    BY <1>3, <1>9, <1>10, <2>1 DEF Excused
  <2>3. Undisturbed(b)
    <3>1. 0 \notin DOMAIN file
      BY CookiesBelow
    <3> QED BY <1>2, <1>5, <1>6, <1>10, <2>2, <3>1 DEF Undisturbed, Exists
  <2>4. \A q \in Procs \ {p} : q \notin late' => q \notin late
    BY <1>3
  <2> QED BY <1>4, <1>7, <2>3, <2>4, StillFollows
\* It gives the browser a new session, which is nobody's.
<1>11. ASSUME r.from = b, New(r), r.signs \in {Kept, Nobody}, owner'[b] = Nobody PROVE Matches(b)' /\ Strange(b)'
  <2>1. cookie'[b].sess = r.file /\ r.file # 0 /\ r.data.uid = Nobody
    BY <1>1, <1>2, <1>11 DEF New, RowOK, RowRight
  <2>2. Strange(b)'
    BY <1>2, <2>1 DEF Strange
  <2> QED BY <1>11, <2>2 DEF Matches
<1>12. CASE r.from = b /\ r.signs = Kept /\ New(r)
  <2>1. ~Settles(r) /\ Strays(r) /\ owner'[b] = owner[b]
    BY <1>1, <1>2, <1>12 DEF Settles, Strays, New
  <2>2. p \in late => b \in astray'
    BY <1>3, <1>12, <2>1
  <2>3. p \notin late => owner[b] = Nobody \/ Excused(b)
    BY <1>12 DEF Follows, RowFollows
  <2>4. Excused(b) => Excused(b)'
    BY <1>3, <1>9, <1>12, <2>1 DEF Excused
  <2>5. CASE Excused(b)'
    BY <2>5, ExcusedFollows
  <2>6. CASE owner[b] = Nobody
    <3>1. Matches(b)' /\ Strange(b)' /\ owner'[b] = Nobody
      BY <1>11, <1>12, <2>1, <2>6
    <3>2. \A q \in Procs : req'[q].from = b => RowFollows(q, b)'
      BY <3>1 DEF RowFollows
    <3> QED BY <3>1, <3>2 DEF Follows
  <2> QED BY <2>2, <2>3, <2>4, <2>5, <2>6 DEF Excused
\* It signs in or out: whatever else the browser has sent is late.
<1>13. ASSUME r.from = b, r.signs # Kept, Excused(b)' \/ Matches(b)' PROVE Follows(b)'
  <2>1. \A q \in Procs : req'[q].from = b => q \in late'
    BY <1>3, <1>4, <1>7, <1>13
  <2> QED BY <1>13, <2>1 DEF Follows, RowFollows
<1>14. CASE r.from = b /\ r.signs \notin {Kept, Nobody}
  <2>1. New(r) /\ r.data.uid = r.signs /\ owner'[b] = r.signs
    BY <1>1, <1>2, <1>14 DEF RowRight
  <2>2. cookie'[b].sess = r.file /\ r.file # 0
    BY <1>1, <1>2, <1>14, <2>1 DEF New, RowOK
  <2>3. Matches(b)'
    BY <1>2, <1>14, <2>1, <2>2 DEF Matches, Exists
  <2> QED BY <1>13, <1>14, <2>3
<1>15. CASE r.from = b /\ r.signs = Nobody /\ r.set = -1
  <2>1. owner'[b] = Nobody /\ cookie'[b].sess = 0 /\ file' = file /\ 0 \notin DOMAIN file
    BY <1>1, <1>2, <1>15, CookiesBelow DEF RowRight
  <2>2. Matches(b)'
    BY <2>1 DEF Matches, Strange, Exists
  <2> QED BY <1>1, <1>13, <1>15, <2>2
<1>16. CASE r.from = b /\ r.signs = Nobody /\ New(r)
  <2>1. Matches(b)'
    BY <1>1, <1>2, <1>11, <1>16
  <2> QED BY <1>1, <1>13, <1>16, <2>1
\* It signs out, and its session has not been found.
<1>17. CASE r.from = b /\ r.signs = Nobody /\ r.set = 0
  <2>1. ~Settles(r) /\ Strays(r) /\ owner'[b] = Nobody /\ cookie'[b].sess = cookie[b].sess
    BY <1>1, <1>2, <1>17 DEF Settles, Strays
  <2>2. p \in late => b \in astray'
    BY <1>3, <1>17, <2>1
  <2>3. p \notin late => Strange(b) \/ Excused(b)
    BY <1>17 DEF Follows, RowFollows
  <2>4. Excused(b) => Excused(b)'
    BY <1>3, <1>9, <1>17, <2>1 DEF Excused
  <2>5. ASSUME Strange(b) PROVE Matches(b)'
    <3>1. 0 \notin DOMAIN file
      BY CookiesBelow
    <3> QED BY <1>5, <1>6, <1>17, <2>1, <2>5, <3>1 DEF Matches, Strange, Exists
  <2>6. Excused(b)' \/ Matches(b)'
    BY <2>2, <2>3, <2>4, <2>5 DEF Excused
  <2> QED BY <1>1, <1>13, <1>17, <2>6
<1>18. ~New(r) => r.set = 0 \/ r.set = -1
  BY DEF New
<1>19. r.set = -1 => r.signs = Nobody
  BY <1>1 DEF RowRight
<1> QED BY <1>8, <1>10, <1>12, <1>14, <1>15, <1>16, <1>17, <1>18, <1>19

-----------------------------------------------------------------------------
\* For every form of signing in but the proxy's.
Signed == Sound /\ (mode # "proxy" => RowsAgree /\ \A b \in Browsers : Follows(b))

LEMMA SignedStep ==
  ASSUME Signed, [LoginNext]_loginVars
  PROVE  Signed'
<1>1. Sound /\ Sound'
  BY SoundStep DEF Signed
<1>2. mode' = mode
  BY <1>1, ModeStays
<1> SUFFICES ASSUME mode # "proxy" PROVE RowsAgree' /\ \A b \in Browsers : Follows(b)'
  BY <1>1, <1>2 DEF Signed
<1>3. RowsAgree /\ RowsAgree' /\ \A b \in Browsers : Follows(b)
  BY <1>1, AgreeStep DEF Signed
<1>4. ASSUME NEW b \in Browsers PROVE Follows(b)'
  <2>1. Follows(b)
    BY <1>3
  <2>2. CASE UNCHANGED loginVars
    BY <2>1, <2>2 DEF loginVars, sessions, Follows, Excused, Matches, Strange, Exists, SigningInOrOut, Settles,
                      RowFollows, New
  <2>3. CASE Beside
    BY <1>1, <2>1, <2>3, BesideFollows
  <2>4. ASSUME NEW p \in Procs, Sent(p) PROVE Follows(b)'
    BY <1>1, <2>1, <2>4, SendFollows
  <2>5. ASSUME NEW p \in Procs, Start(p) PROVE Follows(b)'
    BY <1>1, <2>1, <2>5, StartFollows
  <2>6. ASSUME NEW p \in Procs, Handled(p) PROVE Follows(b)'
    BY <1>1, <2>1, <2>6, Handlers, KeepsFollows, SettlesFollows DEF Handled
  <2>7. ASSUME NEW p \in Procs, Proxied(p) PROVE FALSE
    <3>1. RowOK(req[p]) /\ Nobody \notin Browsers
      BY <1>1, IdleIs DEF Sound, Typed
    <3> QED BY <2>7, <3>1 DEF Proxied, SwitchUser, Restart, AuthProxy, Handling, RowOK
  <2>8. ASSUME NEW p \in Procs, Release(p) PROVE Follows(b)'
    BY <1>1, <1>3, <2>1, <2>8, ReleaseFollows
  <2> QED BY <2>2, <2>3, <2>4, <2>5, <2>6, <2>7, <2>8, StepsAre
<1> QED BY <1>3, <1>4

LEMMA SignedAtFirst ==
  ASSUME LoginInit
  PROVE  Signed
<1>1. /\ \A p \in Procs : req[p] = Idle /\ file = <<>> /\ owner = [b \in Browsers |-> Nobody]
      /\ \A b \in Browsers : cookie[b].sess = 0
  BY DEF LoginInit
<1>2. RowsAgree
  BY <1>1, IdleIs DEF RowsAgree, RowRight, New
<1>3. ASSUME NEW b \in Browsers PROVE Follows(b)
  <2>1. owner[b] = Nobody /\ ~Exists(cookie[b].sess)
    BY DEF LoginInit, Exists
  <2>2. Matches(b)
    BY <2>1 DEF Matches, Strange
  <2>3. \A p \in Procs : RowFollows(p, b)
    BY <2>1, <1>1, IdleIs DEF RowFollows, New
  <2> QED BY <2>2, <2>3 DEF Follows
<1> QED BY <1>2, <1>3, SoundAtFirst DEF Signed

\* A browser that signs in with the form, a remember cookie or OAuth has the session of
\* that user until it signs out or the session is removed, and then one of nobody,
\* however its requests and those of other browsers overlap and sessions are renamed,
\* removed and written back (the StartSession, RegenerateId, Destory and Release of
\* pkg/middleware/session.go).  Not said of a browser that has had the answer of a
\* request sent before its sign-in or sign-out that found no session or left a renamed
\* one, until it signs in or out again; while such an answer is on its way; and of a
\* session written back after its removal that nobody is signed in with.
THEOREM SignedInStays == LoginSpec => []StaysSignedIn
<1>1. LoginInit => Signed
  BY SignedAtFirst
<1>2. Signed /\ [LoginNext]_loginVars => Signed'
  BY SignedStep
<1>3. Signed => StaysSignedIn
  <2>1. CASE mode = "proxy"
    BY <2>1 DEF StaysSignedIn
  <2>2. CASE mode # "proxy"
    BY <2>2, FollowsIsEnough DEF Signed
  <2> QED BY <2>1, <2>2
<1> QED BY <1>1, <1>2, <1>3, PTL DEF LoginSpec

-----------------------------------------------------------------------------
(* The authentication proxy. *)

\* The user of a session has been read from LDAP since the time that the session keeps.
SyncedSince(d, time, synced) ==
  /\ d.uid \in Users \cup {Nobody} /\ d.sync \in Int /\ d.used \in Int /\ d.used <= time
  /\ d.uid = Nobody => d.sync = Never
  /\ d.uid \in Users => synced[d.uid] >= d.sync

SyncsRight ==
  /\ now \in Nat /\ DOMAIN ldapSync = Users /\ \A u \in Users : ldapSync[u] \in Int /\ ldapSync[u] <= now
  /\ \A s \in DOMAIN file : s \in mixed \/ SyncedSince(file[s], now, ldapSync)
  /\ \A p \in Procs : req[p].file \in mixed \/ SyncedSince(req[p].data, now, ldapSync)
  /\ SyncedWithinTtl

LEMMA NewIsSynced ==
  ASSUME NEW d, NEW time \in Nat, NEW synced, d.uid = Nobody, d.sync = Never, d.used \in {0, time}
  PROVE  SyncedSince(d, time, synced)
BY LoginsAssumption, IdleIs DEF SyncedSince, Never

\* A step that reads nobody from LDAP.
LEMMA NoSync ==
  ASSUME Sound, Sound', SyncsRight, UNCHANGED ldapSync, now' \in Nat, now' >= now, mixed \subseteq mixed',
         \A s \in DOMAIN file' : \/ s \in DOMAIN file /\ file'[s].uid = file[s].uid /\ file'[s].sync = file[s].sync
                                    /\ file'[s].used \in {file[s].used, now'}
                                 \/ s \in mixed' \/ SyncedSince(file'[s], now', ldapSync'),
         \A p \in Procs :
           \/ req'[p] = req[p]
           \/ /\ req'[p].at # "handled" \/ req'[p].signs # req'[p].user
              /\ req'[p].file \in mixed' \/ SyncedSince(req'[p].data, now', ldapSync')
  PROVE  SyncsRight'
<1>1. now \in Int /\ \A u \in Users : ldapSync[u] \in Int /\ ldapSync'[u] = ldapSync[u] /\ ldapSync[u] <= now
  BY DEF SyncsRight
<1>2. ASSUME NEW s \in DOMAIN file' PROVE s \in mixed' \/ SyncedSince(file'[s], now', ldapSync')
  <2>1. CASE s \in DOMAIN file /\ file'[s].uid = file[s].uid /\ file'[s].sync = file[s].sync
             /\ file'[s].used \in {file[s].used, now'}
    <3>1. s \in mixed \/ SyncedSince(file[s], now, ldapSync)
      BY <2>1 DEF SyncsRight
    <3>2. SyncedSince(file[s], now, ldapSync) => SyncedSince(file'[s], now', ldapSync')
      BY <1>1, <2>1 DEF SyncedSince
    <3> QED BY <3>1, <3>2
  <2> QED BY <1>2, <2>1
<1>3. ASSUME NEW p \in Procs PROVE req'[p].file \in mixed' \/ SyncedSince(req'[p].data, now', ldapSync')
  <2>1. CASE req'[p] = req[p]
    <3>1. req[p].file \in mixed \/ SyncedSince(req[p].data, now, ldapSync)
      BY DEF SyncsRight
    <3> DEFINE d == req[p].data
    <3>2. SyncedSince(d, now, ldapSync) => SyncedSince(d, now', ldapSync')
      BY <1>1 DEF SyncedSince
    <3> QED BY <2>1, <3>1, <3>2
  <2> QED BY <1>3, <2>1
<1>4. SyncedWithinTtl'
  BY DEF SyncsRight, SyncedWithinTtl
<1> QED BY <1>1, <1>2, <1>3, <1>4 DEF SyncsRight

LEMMA StartSyncs ==
  ASSUME Sound, Sound', SyncsRight, NEW p \in Procs, NEW next \in {"started", "restarted"}, StartSession(p, next),
         UNCHANGED <<now, mixed, ldapSync>>
  PROVE  SyncsRight'
<1>1. /\ Typed /\ now \in Nat /\ \A q \in Procs \ {p} : req'[q] = req[q]
      /\ req'[p].at = next
      /\ Exists(req[p].sid) => Found(p)
      /\ ~Exists(req[p].sid) => Made(p)
  BY Starts DEF Sound, Rest, SyncsRight
<1>2. SyncedSince(Empty, now, ldapSync)
  BY <1>1, IdleIs, NewIsSynced
<1>3. \A s \in DOMAIN file' : \/ s \in DOMAIN file /\ file'[s].uid = file[s].uid /\ file'[s].sync = file[s].sync
                                 /\ file'[s].used \in {file[s].used, now'}
                              \/ s \in mixed' \/ SyncedSince(file'[s], now', ldapSync')
  BY <1>1, <1>2 DEF Found, Made
<1>4. req'[p].file \in mixed' \/ SyncedSince(req'[p].data, now', ldapSync')
  <2>1. CASE Exists(req[p].sid)
    <3> DEFINE s == req[p].sid
    <3>1. s \in DOMAIN file /\ req'[p].data = file'[s] /\ req'[p].file = s
      BY <1>1, <2>1 DEF Found, Exists
    <3>2. file'[s].uid = file[s].uid /\ file'[s].sync = file[s].sync /\ file'[s].used \in {file[s].used, now}
      BY <1>1, <2>1, <3>1 DEF Found
    <3>3. s \in mixed \/ SyncedSince(file[s], now, ldapSync)
      BY <3>1 DEF SyncsRight
    <3>4. SyncedSince(file[s], now, ldapSync) => SyncedSince(file'[s], now, ldapSync)
      BY <1>1, <3>2 DEF SyncedSince
    <3> QED BY <3>1, <3>3, <3>4
  <2>2. CASE ~Exists(req[p].sid)
    BY <1>1, <1>2, <2>2 DEF Made
  <2> QED BY <2>1, <2>2
<1> QED BY <1>1, <1>3, <1>4, NoSync

LEMMA ReleaseSyncs ==
  ASSUME Sound, Sound', SyncsRight, NEW p \in Procs, Release(p)
  PROVE  SyncsRight'
<1>1. /\ Typed /\ now \in Nat /\ UNCHANGED <<now, mixed, ldapSync>>
  BY DEF Sound, SyncsRight, Release
<1>2. /\ Rest(p) /\ req'[p] = Idle
      /\ req[p].file = 0 => file' = file
      /\ req[p].file # 0 =>
              /\ DOMAIN file' = DOMAIN file \cup {req[p].file}
              /\ \A s \in DOMAIN file : s # req[p].file => file'[s] = file[s]
              /\ file'[req[p].file].uid = req[p].data.uid
              /\ file'[req[p].file].sync = req[p].data.sync /\ file'[req[p].file].used = now
  BY <1>1, Releases
<1>3. SyncedSince(req'[p].data, now', ldapSync') /\ req'[p].at # "handled"
  <2>1. SyncedSince(NoData, now, ldapSync)
    BY <1>1, IdleIs, NewIsSynced
  <2> QED BY <1>1, <1>2, <2>1, IdleIs
<1>4. req[p].file # 0 => req[p].file \in mixed \/ SyncedSince(file'[req[p].file], now, ldapSync)
  <2>1. req[p].file \in mixed \/ SyncedSince(req[p].data, now, ldapSync)
    BY DEF SyncsRight
  <2>2. ASSUME req[p].file # 0, SyncedSince(req[p].data, now, ldapSync)
        PROVE  SyncedSince(file'[req[p].file], now, ldapSync)
    BY <1>1, <1>2, <2>2 DEF SyncedSince
  <2> QED BY <2>1, <2>2
<1>5. \A s \in DOMAIN file' : \/ s \in DOMAIN file /\ file'[s].uid = file[s].uid /\ file'[s].sync = file[s].sync
                                 /\ file'[s].used \in {file[s].used, now'}
                              \/ s \in mixed' \/ SyncedSince(file'[s], now', ldapSync')
  BY <1>1, <1>2, <1>4
<1> QED BY <1>1, <1>2, <1>3, <1>5, NoSync DEF Rest

LEMMA ProxySyncs ==
  ASSUME Sound, Sound', SyncsRight, NEW p \in Procs, NEW ldapFails \in BOOLEAN, AuthProxy(p, ldapFails)
  PROVE  SyncsRight'
<1> DEFINE r == req[p]
           due == r.data.sync < now - Ttl
<1>1. /\ Typed /\ now \in Nat /\ Ttl \in Nat /\ UNCHANGED <<now, file>> /\ now' = now
      /\ DOMAIN r.data = DataFields /\ r.user \in Users /\ DOMAIN ldapSync = Users
      /\ \A u \in Users : ldapSync[u] \in Int /\ ldapSync[u] <= now
      /\ Kept # r.user /\ mixed \subseteq mixed' /\ Nobody # r.user
  BY LoginsAssumption, IdleIs DEF Sound, Typed, RowOK, IsData, SyncsRight, AuthProxy, Handling
<1>2. CASE due /\ ldapFails
  <2>1. Ends(p, r.data, r.file, r.set, KeptCookie, Kept) /\ UNCHANGED ldapSync
    BY <1>2 DEF AuthProxy, Same
  <2>2. Rest(p) /\ req'[p].data = r.data /\ req'[p].file = r.file /\ req'[p].signs = Kept /\ req'[p].user = r.user
    BY <1>1, <2>1, EndedRow DEF SameRequest
  <2>3. r.file \in mixed \/ SyncedSince(r.data, now, ldapSync)
    BY DEF SyncsRight
  <2> QED BY <1>1, <2>1, <2>2, <2>3, NoSync DEF Rest
<1>3. CASE ~(due /\ ldapFails)
  <2> DEFINE data == [r.data EXCEPT !.uid = r.user, !.sync = IF due THEN now ELSE @]
  <2>1. /\ ldapSync' = IF due THEN [ldapSync EXCEPT ![r.user] = now] ELSE ldapSync
        /\ Ends(p, data, r.file, r.set, KeptCookie, r.user)
    BY <1>3 DEF AuthProxy
  <2>2. /\ data.uid = r.user /\ data.sync = (IF due THEN now ELSE r.data.sync) /\ data.used = r.data.used
    BY <1>1 DEF DataFields
  <2> HIDE DEF data
  <2>3. /\ Rest(p) /\ req'[p].data = data /\ req'[p].file = r.file /\ req'[p].signs = r.user /\ req'[p].user = r.user
    BY <1>1, <2>1, EndedRow DEF SameRequest
  <2>4. /\ DOMAIN ldapSync' = Users
        /\ \A u \in Users : ldapSync'[u] \in Int /\ ldapSync'[u] <= now /\ ldapSync'[u] >= ldapSync[u]
        /\ due => ldapSync'[r.user] = now
    BY <1>1, <2>1
  <2>5. ASSUME r.file \notin mixed'
        PROVE  SyncedSince(data, now, ldapSync') /\ ldapSync'[r.user] >= data.used - Ttl
    <3>1. r.data.uid \in {Nobody, r.user} /\ r.file \notin mixed
      BY <2>5 DEF AuthProxy, Handling, Switches
    <3>2. SyncedSince(r.data, now, ldapSync)
      BY <3>1 DEF SyncsRight
    <3>3. r.data.sync \in Int /\ r.data.used \in Int /\ r.data.used <= now
      BY <3>2 DEF SyncedSince
    <3>4. CASE due
      BY <1>1, <2>2, <2>4, <3>3, <3>4 DEF SyncedSince
    <3>5. CASE ~due
      <4>1. r.data.sync >= now - Ttl
        BY <1>1, <3>3, <3>5
      <4>2. r.data.uid # Nobody
        BY <1>1, <3>2, <4>1 DEF SyncedSince, Never
      <4>3. r.data.uid = r.user /\ ldapSync[r.user] >= r.data.sync
        BY <1>1, <3>1, <3>2, <4>2 DEF SyncedSince
      <4>4. ldapSync'[r.user] \in Int /\ ldapSync[r.user] \in Int /\ ldapSync'[r.user] >= r.data.sync
        BY <1>1, <2>4, <4>3, <3>3
      <4>5. ldapSync'[r.user] >= data.used - Ttl
        BY <1>1, <2>2, <3>3, <4>1, <4>4
      <4>6. SyncedSince(data, now, ldapSync')
        BY <1>1, <2>2, <3>3, <3>5, <4>4 DEF SyncedSince
      <4> QED BY <4>5, <4>6
    <3> QED BY <3>4, <3>5
  <2>6. ASSUME NEW d, SyncedSince(d, now, ldapSync) PROVE SyncedSince(d, now, ldapSync')
    BY <1>1, <2>4, <2>6 DEF SyncedSince
  <2>7. \A s \in DOMAIN file : s \in mixed' \/ SyncedSince(file[s], now, ldapSync')
    BY <1>1, <2>6 DEF SyncsRight
  <2>8. \A q \in Procs : req'[q].file \in mixed' \/ SyncedSince(req'[q].data, now, ldapSync')
    <3>1. ASSUME NEW q \in Procs \ {p} PROVE req'[q].file \in mixed' \/ SyncedSince(req'[q].data, now, ldapSync')
      <4>1. req'[q] = req[q]
        BY <2>3 DEF Rest
      <4>2. req[q].file \in mixed \/ SyncedSince(req[q].data, now, ldapSync)
        BY DEF SyncsRight
      <4> QED BY <1>1, <2>6, <4>1, <4>2
    <3> QED BY <2>3, <2>5, <3>1
  <2>9. SyncedWithinTtl'
    <3> SUFFICES ASSUME NEW q \in Procs, req'[q].at = "handled", req'[q].kind = "proxy", req'[q].signs = req'[q].user,
                        req'[q].file \notin mixed'
                 PROVE  ldapSync'[req'[q].user] >= req'[q].data.used - Ttl
      BY DEF SyncedWithinTtl
    <3>1. CASE q = p
      BY <2>3, <2>5, <3>1
    <3>2. CASE q # p
      <4>1. req'[q] = req[q] /\ req[q].file \notin mixed
        BY <1>1, <2>3, <3>2 DEF Rest
      <4>2. ldapSync[req[q].user] >= req[q].data.used - Ttl /\ req[q].user \in Users
        BY <4>1 DEF SyncsRight, SyncedWithinTtl, Sound, Typed, RowOK
      <4>3. SyncedSince(req[q].data, now, ldapSync)
        BY <4>1 DEF SyncsRight
      <4>4. req[q].data.used \in Int
        BY <4>3 DEF SyncedSince
      <4>5. ldapSync'[req[q].user] >= ldapSync[req[q].user] /\ ldapSync'[req[q].user] \in Int /\ ldapSync[req[q].user] \in Int
        BY <1>1, <2>4, <4>2
      <4>6. ldapSync'[req[q].user] >= req[q].data.used - Ttl
        BY <1>1, <4>2, <4>4, <4>5
      <4> QED BY <4>1, <4>6
    <3> QED BY <3>1, <3>2
  <2> QED BY <1>1, <2>4, <2>7, <2>8, <2>9 DEF SyncsRight
<1> QED BY <1>2, <1>3

-----------------------------------------------------------------------------
\* For signing in by a proxy.
InTime == Sound /\ (mode = "proxy" => SyncsRight)

LEMMA InTimeStep ==
  ASSUME InTime, [LoginNext]_loginVars
  PROVE  InTime'
<1>1. Sound /\ Sound'
  BY SoundStep DEF InTime
<1>2. mode' = mode
  BY <1>1, ModeStays
<1> SUFFICES ASSUME mode = "proxy" PROVE SyncsRight'
  BY <1>1, <1>2 DEF InTime
<1>3. SyncsRight /\ now \in Nat
  BY DEF InTime, SyncsRight
<1>4. SyncedSince(NoData, now, ldapSync)
  BY <1>3, IdleIs, NewIsSynced
<1>5. CASE UNCHANGED loginVars
  BY <1>3, <1>5 DEF loginVars, sessions, SyncsRight, SyncedWithinTtl
<1>6. CASE Beside
  <2>1. /\ Waits /\ mixed' = mixed /\ \A s \in DOMAIN file' : file'[s] = file[s]
        /\ \A q \in Procs : req'[q] = req[q] \/ (req'[q].data = NoData /\ req'[q].at # "handled")
    BY <1>1, <1>6, BesideWaits
  <2>2. now' \in {now, now + 1} /\ ldapSync' = ldapSync
    BY <1>6 DEF Beside, Tick, SessionGC, SendResetPasswordEmail, DeleteUser, ResetPassword, ChangeUserPassword
  <2>3. now' \in Nat /\ now' >= now
    BY <1>3, <2>2
  <2>4. SyncedSince(NoData, now', ldapSync')
    BY <2>3, IdleIs, NewIsSynced
  <2> QED BY <1>1, <1>3, <2>1, <2>2, <2>3, <2>4, NoSync DEF Waits
<1>7. ASSUME NEW p \in Procs, Sent(p) PROVE SyncsRight'
  <2>1. Rest(p) /\ req'[p].data = NoData /\ req'[p].at = "sent" /\ UNCHANGED <<now, file, mixed, ldapSync>>
    <3> PICK c \in Browsers : \E kind, u, arg :
          /\ Send(c, p, kind, u, arg)
          /\ kind = "proxy" <=> mode = "proxy"
          /\ kind \in {"login", "callback", "proxy"} => u \in Users
      BY <1>7 DEF Sent
    <3> PICK kind, u, arg :
          /\ Send(c, p, kind, u, arg)
          /\ kind = "proxy" <=> mode = "proxy"
          /\ kind \in {"login", "callback", "proxy"} => u \in Users
      OBVIOUS
    <3>1. Rest(p) /\ req'[p].data = NoData /\ req'[p].at = "sent"
      BY <1>1, SendSound
    <3> QED BY <3>1 DEF Send
  <2> QED BY <1>1, <1>3, <1>4, <2>1, NoSync DEF Rest
<1>8. ASSUME NEW p \in Procs, Start(p) \/ Restart(p) PROVE SyncsRight'
  BY <1>1, <1>3, <1>8, StartSyncs DEF Start, Restart
<1>9. ASSUME NEW p \in Procs, Handled(p) PROVE FALSE
  <2>1. RowOK(req[p]) /\ Nobody \notin Browsers
    BY <1>1, IdleIs DEF Sound, Typed
  <2> QED BY <1>9, <2>1 DEF Handled, Page, LoginView, Logout, OAuthRedirect, OAuthLogin, LoginPost, Handling, RowOK
<1>10. ASSUME NEW p \in Procs, SwitchUser(p) PROVE SyncsRight'
  <2>1. DOMAIN req = Procs /\ DOMAIN req[p] = RowFields
    BY <1>1 DEF Sound, Typed, RowOK
  <2>2. Rest(p) /\ req'[p].data = req[p].data /\ req'[p].file = req[p].file /\ req'[p].at = "switching"
    BY <1>10, <2>1 DEF SwitchUser, Rest, RowFields
  <2>3. Gone(req[p].sid) /\ UNCHANGED <<now, mixed, ldapSync>>
    BY <1>10, Removes DEF SwitchUser
  <2>4. req[p].file \in mixed \/ SyncedSince(req[p].data, now, ldapSync)
    BY <1>3 DEF SyncsRight
  <2> QED BY <1>1, <1>3, <2>2, <2>3, <2>4, NoSync DEF Rest, Gone
<1>11. ASSUME NEW p \in Procs, NEW ldapFails \in BOOLEAN, AuthProxy(p, ldapFails) PROVE SyncsRight'
  BY <1>1, <1>3, <1>11, ProxySyncs
<1>12. ASSUME NEW p \in Procs, Release(p) PROVE SyncsRight'
  BY <1>1, <1>3, <1>12, ReleaseSyncs
<1> QED BY <1>5, <1>6, <1>7, <1>8, <1>9, <1>10, <1>11, <1>12, StepsAre DEF Proxied

LEMMA InTimeAtFirst ==
  ASSUME LoginInit
  PROVE  InTime
<1>1. /\ now = 0 /\ DOMAIN file = {} /\ \A p \in Procs : req[p] = Idle
      /\ ldapSync = [u \in Users |-> Never] /\ Never \in Int /\ Never <= 0
  BY LoginsAssumption DEF LoginInit, Never
<1>2. SyncedSince(NoData, now, ldapSync)
  BY <1>1, IdleIs, NewIsSynced
<1>3. SyncsRight
  BY <1>1, <1>2, IdleIs DEF SyncsRight, SyncedWithinTtl
<1> QED BY <1>3, SoundAtFirst DEF InTime

\* A user whom the authentication proxy names has been read from LDAP no longer ago than
\* the TTL before the use of his session, however requests that name several users share
\* the session and switch, remove and write it back (initContextWithAuthProxy and
\* syncGrafanaUserWithLdapUser).  Not said of a session that a request took over from
\* another user, because it was written back between the removal and the new start.
THEOREM SyncedInTime == LoginSpec => []SyncedWithinTtl
<1>1. LoginInit => InTime
  BY InTimeAtFirst
<1>2. InTime /\ [LoginNext]_loginVars => InTime'
  BY InTimeStep
<1>3. InTime => SyncedWithinTtl
  <2> SUFFICES ASSUME Sound, mode # "proxy", NEW p \in Procs, req[p].at = "handled", req[p].kind = "proxy" PROVE FALSE
    BY DEF InTime, SyncsRight, SyncedWithinTtl
  <2> QED BY DEF Sound, Typed, RowOK
<1> QED BY <1>1, <1>2, <1>3, PTL DEF LoginSpec

=============================================================================
