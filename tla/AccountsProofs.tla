--------------------------- MODULE AccountsProofs ---------------------------
(***************************************************************************)
(* Theorems about Accounts, for any number of requests at the same time.   *)
(* What a request may still do is a list of commands whose shape says which*)
(* of them may follow which; it carries the three properties.              *)
(***************************************************************************)
EXTENDS Accounts, FiniteSetTheorems, SequenceTheorems, TLAPS

-----------------------------------------------------------------------------
(* The commands of a request.                                              *)

\* Commands that nothing follows: handlers of their own, and the end of a login.
LastOps == {"addOrgUserHelper", "AddOrgInvite", "CompleteInvite", "SignUp", "SignUpStep2",
            "JoinInvited", "ldapLogin", "authProxy", "OAuthLogin", "SetUsingOrg", "LoggedIn"}

\* What a sync of roles is made of.
SyncOps == {"UpdateOrgUser", "RemoveOrgUser", "AddOrgUser", "Commit"}

Ending(l) == l # <<>> /\ l[Len(l)].op = "LoggedIn"
RoleOf(c) == IF c.op = "RemoveOrgUser" THEN NoRole ELSE c.role

\* A login or a proxied request ends with LoggedIn.
LoginShape(l, i) ==
  /\ i < Len(l) => l[i].op \in SyncOps \cup {"CreateUser", "SyncOrgRoles"}
  /\ l[i].op = "CreateUser" => l[i + 1].op = "SyncOrgRoles"
  /\ l[i].op = "AddOrgUser" => l[i].unless = {"OrgNotFound"}
  /\ l[i].op \in SyncOps => RoleOf(l[i]) = Mapped(l[Len(l)].name, l[i].org)

ShapeAt(l, i) ==
  /\ l[i].op \in LastOps => i = Len(l)
  /\ l[i].op = "Commit" => i = 1
  /\ l[i].op = "AddApiKey" /\ i > 1 =>
       l[i - 1].op = "Quota" /\ l[i - 1].target = "api_key" /\ l[i - 1].org = l[i].org
  /\ l[i].op = "UpdateOrgQuota" => l[i].limit \in Int
  /\ l[i].op = "SyncOrgRoles" => Ending(l) /\ i + 1 = Len(l) /\ l[i + 1].name = l[i].name
  /\ Ending(l) => LoginShape(l, i)

Shape(l) == \A i \in 1..Len(l) : ShapeAt(l, i)

TempsRight == \E T : temps \in Seq(T)

Lists ==
  /\ \E S : todo \in [Slots -> Seq(S)]
  /\ \A p \in Slots : Shape(todo[p])

LEMMA NotEmpty ==
  ASSUME NEW S, NEW s \in Seq(S), Len(s) # 0
  PROVE  s # <<>>
<1> SUFFICES ASSUME s = <<>> PROVE FALSE
  OBVIOUS
<1>1. Len(<<>>) = 0
  BY EmptySeq
<1> QED BY <1>1

\* A command that has run leaves a list of that shape.
LEMMA TailShape ==
  ASSUME NEW S, NEW l \in Seq(S), l # <<>>, Shape(l)
  PROVE  Tail(l) \in Seq(S) /\ Shape(Tail(l))
<1> DEFINE t == Tail(l)
<1>1. t \in Seq(S) /\ Len(t) = Len(l) - 1 /\ Len(l) \in Nat \ {0}
      /\ \A i \in 1..Len(t) : t[i] = l[i + 1]
  BY HeadTailProperties, EmptySeq, LenProperties
<1> HIDE DEF t
<1>2. ASSUME Ending(t) PROVE Ending(l) /\ t[Len(t)] = l[Len(l)]
  <2>1. Len(t) \in Nat \ {0}
    BY <1>1, <1>2, EmptySeq, LenProperties DEF Ending
  <2> QED
    BY <2>1, <1>1, <1>2 DEF Ending
<1>3. ASSUME NEW i \in 1..Len(t) PROVE ShapeAt(t, i)
  <2>1. i + 1 \in 1..Len(l) /\ t[i] = l[i + 1] /\ i \in Nat /\ i + 1 > 1
    BY <1>1
  <2>2. ShapeAt(l, i + 1)
    BY <2>1 DEF Shape
  <2>3. t[i].op # "Commit" /\ (t[i].op \in LastOps => i = Len(t))
        /\ (t[i].op = "UpdateOrgQuota" => t[i].limit \in Int)
    <3>1. t[i].op # "Commit"
      BY <2>1, <2>2 DEF ShapeAt
    <3>2. t[i].op \in LastOps => i = Len(t)
      BY <2>1, <2>2, <1>1 DEF ShapeAt
    <3> QED BY <3>1, <3>2, <2>1, <2>2 DEF ShapeAt
  <2>4. ASSUME t[i].op = "AddApiKey", i > 1
        PROVE  t[i - 1].op = "Quota" /\ t[i - 1].target = "api_key" /\ t[i - 1].org = t[i].org
    <3>1. t[i - 1] = l[i] /\ (i + 1) - 1 = i
      BY <1>1, <2>1, <2>4
    <3> QED BY <3>1, <2>1, <2>2, <2>4 DEF ShapeAt
  <2>5. ASSUME i < Len(t) PROVE t[i + 1] = l[i + 2]
    BY <1>1, <2>1, <2>5
  <2>6. ASSUME t[i].op = "SyncOrgRoles"
        PROVE  Ending(t) /\ i + 1 = Len(t) /\ t[i + 1].name = t[i].name
    <3>1. Ending(l) /\ i + 2 = Len(l) /\ l[i + 2].name = l[i + 1].name
      BY <2>1, <2>2, <2>6 DEF ShapeAt
    <3>2. i + 1 = Len(t) /\ t[i + 1] = l[i + 2] /\ t # <<>>
      BY <3>1, <2>1, <1>1, EmptySeq
    <3> QED BY <3>1, <3>2, <2>1 DEF Ending
  <2>7. ASSUME Ending(t) PROVE LoginShape(t, i)
    <3>1. LoginShape(l, i + 1) /\ t[Len(t)] = l[Len(l)]
      BY <1>2, <2>2, <2>7 DEF ShapeAt
    <3>2. i < Len(t) => t[i].op \in SyncOps \cup {"CreateUser", "SyncOrgRoles"}
      BY <3>1, <2>1, <1>1 DEF LoginShape
    <3>3. ASSUME t[i].op = "CreateUser" PROVE t[i + 1].op = "SyncOrgRoles"
      <4>1. i # Len(t)
        BY <2>7, <3>3 DEF Ending
      <4> QED BY <4>1, <3>1, <3>3, <2>1, <2>5 DEF LoginShape
    <3> QED BY <3>1, <3>2, <3>3, <2>1 DEF LoginShape, RoleOf
  <2> QED BY <2>3, <2>4, <2>6, <2>7 DEF ShapeAt
<1>4. t \in Seq(S) /\ Shape(t)
  BY <1>1, <1>3 DEF Shape
<1> QED BY <1>4 DEF t

LEMMA Replaced ==
  ASSUME Lists, NEW p \in Slots, NEW C, NEW cmds \in Seq(C), Shape(cmds),
         todo' = [todo EXCEPT ![p] = cmds]
  PROVE  Lists'
<1>1. PICK S : todo \in [Slots -> Seq(S)]
  BY DEF Lists
<1>2. Seq(S) \subseteq Seq(S \cup C) /\ Seq(C) \subseteq Seq(S \cup C)
  OBVIOUS
<1>3. todo' \in [Slots -> Seq(S \cup C)]
  BY <1>1, <1>2
<1>4. \A q \in Slots : Shape(todo'[q])
  BY <1>1 DEF Lists
<1>5. \E D : todo' \in [Slots -> Seq(D)]
  BY <1>3
<1> QED BY <1>4, <1>5 DEF Lists, Shape, ShapeAt, LoginShape, Ending, RoleOf, Mapped, MappedOrgs, Groups, Topmost

LEMMA AfterDone ==
  ASSUME Lists, NEW p \in Slots, todo[p] # <<>>, Done(p)
  PROVE  Lists' /\ todo' = [todo EXCEPT ![p] = Tail(todo[p])]
<1>1. PICK S : todo \in [Slots -> Seq(S)]
  BY DEF Lists
<1>2. Tail(todo[p]) \in Seq(S) /\ Shape(Tail(todo[p]))
  BY <1>1, TailShape DEF Lists
<1>3. <<>> \o Tail(todo[p]) = Tail(todo[p])
  BY <1>2, ConcatEmptySeq
<1>4. todo' = [todo EXCEPT ![p] = Tail(todo[p])]
  BY <1>1, <1>3 DEF Done, Then
<1> QED BY <1>2, <1>4, Replaced

LEMMA AfterFail ==
  ASSUME Lists, NEW p \in Slots, Fail(p)
  PROVE  Lists' /\ todo' = [todo EXCEPT ![p] = <<>>]
<1>1. <<>> \in Seq({}) /\ Shape(<<>>)
  BY DEF Shape
<1> QED BY <1>1, Replaced DEF Fail

\* The list of a command that is the last one.
LEMMA OnlyOne ==
  ASSUME Lists, NEW p \in Slots, todo[p] # <<>>, Head(todo[p]).op \in LastOps
  PROVE  Len(todo[p]) = 1 /\ Tail(todo[p]) = <<>>
<1>1. PICK S : todo \in [Slots -> Seq(S)]
  BY DEF Lists
<1>2. Len(todo[p]) \in Nat \ {0} /\ Head(todo[p]) = todo[p][1]
  BY <1>1, HeadTailProperties, EmptySeq, LenProperties
<1>3. Len(todo[p]) = 1
  <2>1. 1 \in 1..Len(todo[p])
    BY <1>2
  <2>2. ShapeAt(todo[p], 1)
    BY <2>1 DEF Lists, Shape
  <2> QED BY <2>2, <1>2 DEF ShapeAt
<1>4. Tail(todo[p]) \in Seq(S) /\ Len(Tail(todo[p])) = 0
  BY <1>1, <1>3, HeadTailProperties
<1> QED BY <1>3, <1>4, EmptySeq

LEMMA AfterLast ==
  ASSUME Lists, NEW p \in Slots, todo[p] # <<>>, Head(todo[p]).op \in LastOps,
         NEW C, NEW cmds \in Seq(C), Shape(cmds), Then(p, cmds)
  PROVE  Lists' /\ todo' = [todo EXCEPT ![p] = cmds]
<1>1. PICK S : todo \in [Slots -> Seq(S)]
  BY DEF Lists
<1>2. Tail(todo[p]) = <<>> /\ cmds \o <<>> = cmds
  BY OnlyOne, ConcatEmptySeq
<1>3. todo' = [todo EXCEPT ![p] = cmds]
  BY <1>1, <1>2 DEF Then
<1> QED BY <1>3, Replaced

\* UpdateOrgUser and RemoveOrgUser put their commit in their place.
LEMMA AfterWrite ==
  ASSUME Lists, NEW p \in Slots, todo[p] # <<>>,
         Head(todo[p]).op \in {"UpdateOrgUser", "RemoveOrgUser"},
         NEW c, c.op = "Commit", c.org = Head(todo[p]).org, c.role = RoleOf(Head(todo[p])),
         Then(p, <<c>>)
  PROVE  /\ Lists'
         /\ todo' = [todo EXCEPT ![p] = [i \in 1..Len(todo[p]) |-> IF i = 1 THEN c ELSE todo[p][i]]]
<1> DEFINE l == todo[p]
           k == [i \in 1..Len(l) |-> IF i = 1 THEN c ELSE l[i]]
<1>1. PICK S : todo \in [Slots -> Seq(S)]
  BY DEF Lists
<1>2. l \in Seq(S) /\ Len(l) \in Nat \ {0} /\ Head(l) = l[1] /\ Tail(l) \in Seq(S) /\ Len(Tail(l)) = Len(l) - 1
      /\ \A i \in 1..(Len(l) - 1) : Tail(l)[i] = l[i + 1]
  BY <1>1, HeadTailProperties, EmptySeq, LenProperties
<1>3. k \in Seq(S \cup {c}) /\ Len(k) = Len(l)
  <2>1. \A i \in 1..Len(l) : k[i] \in S \cup {c}
    BY <1>2, ElementOfSeq
  <2> QED BY <2>1, <1>2
<1>4. <<c>> \o Tail(l) = k
  <2>1. <<c>> \in Seq(S \cup {c}) /\ Tail(l) \in Seq(S \cup {c}) /\ Len(<<c>>) = 1 /\ <<c>>[1] = c
    BY <1>2
  <2> DEFINE j == <<c>> \o Tail(l)
  <2>2. j \in Seq(S \cup {c}) /\ Len(j) = Len(l)
        /\ \A i \in 1..Len(l) : j[i] = IF i <= 1 THEN <<c>>[i] ELSE Tail(l)[i - 1]
    BY <2>1, <1>2, ConcatProperties
  <2> HIDE DEF j
  <2>3. \A i \in 1..Len(l) : j[i] = k[i]
    <3> SUFFICES ASSUME NEW i \in 1..Len(l) PROVE j[i] = k[i]
      OBVIOUS
    <3>1. CASE i = 1
      BY <3>1, <2>1, <2>2
    <3>2. CASE i > 1
      <4>1. i - 1 \in 1..(Len(l) - 1) /\ (i - 1) + 1 = i
        BY <3>2, <1>2
      <4> QED BY <4>1, <3>2, <2>2, <1>2
    <3> QED BY <3>1, <3>2
  <2>4. j = k
    BY <2>2, <2>3, <1>3, SeqEqual
  <2> QED BY <2>4 DEF j
<1>5. Shape(k)
  <2>1. l[1].op \in {"UpdateOrgUser", "RemoveOrgUser"} /\ Shape(l)
    BY <1>2 DEF Lists
  <2>2. Ending(k) <=> Ending(l)
    <3>1. k # <<>> /\ l # <<>> /\ Len(l) \in 1..Len(l)
      BY <1>2, <1>3, NotEmpty
    <3> QED BY <3>1, <2>1, <1>2, <1>3 DEF Ending
  <2>3. ASSUME Ending(l) PROVE Len(l) > 1 /\ k[Len(k)] = l[Len(l)]
    BY <2>1, <2>3, <1>2, <1>3 DEF Ending
  <2> SUFFICES ASSUME NEW i \in 1..Len(l) PROVE ShapeAt(k, i)
    BY <1>3 DEF Shape
  <2>4. ShapeAt(l, i) /\ ShapeAt(l, 1)
    BY <2>1, <1>2 DEF Shape
  <2>5. i # Len(l) => i + 1 \in 1..Len(l) /\ i + 1 # 1
    BY <1>2
  <2>6. CASE i = 1
    <3>1. Ending(k) => LoginShape(k, i)
      BY <2>1, <2>2, <2>3, <2>4, <2>6, <1>3 DEF ShapeAt, LoginShape, RoleOf, SyncOps
    <3>2. k[i] = c /\ c.op \notin LastOps
      BY <2>6, <1>2 DEF LastOps
    <3> HIDE DEF k
    <3> QED BY <3>1, <3>2, <2>6 DEF ShapeAt
  <2>7. CASE i # 1
    <3>1. k[i] = l[i] /\ (i # Len(l) => k[i + 1] = l[i + 1]) /\ (i - 1 # 1 => k[i - 1] = l[i - 1])
      BY <2>5, <2>7, <1>2
    <3>2. Ending(k) => LoginShape(k, i)
      BY ZenonT(60), <2>2, <2>3, <2>4, <2>7, <1>3, <3>1 DEF ShapeAt, LoginShape, RoleOf, Ending
    <3>3. i - 1 = 1 => l[i].op # "AddApiKey"
      BY <2>1, <2>4, <2>7 DEF ShapeAt
    <3> HIDE DEF k
    <3> QED BY <3>1, <3>2, <3>3, <2>2, <2>4, <1>3, <2>7 DEF ShapeAt
  <2> QED BY <2>6, <2>7
<1>6. todo' = [todo EXCEPT ![p] = k]
  BY <1>1, <1>4 DEF Then
<1> HIDE DEF k
<1>7. Lists'
  BY <1>3, <1>5, <1>6, Replaced
<1> QED BY <1>6, <1>7 DEF k

-----------------------------------------------------------------------------
(* The lists that requests begin with and that handlers leave.             *)

\* A command that may be anywhere.
Plain(c) ==
  c.op \notin LastOps \cup {"Commit", "AddApiKey", "UpdateOrgQuota", "SyncOrgRoles"}

LEMMA OneCommand ==
  ASSUME NEW c, c.op \notin {"SyncOrgRoles", "LoggedIn"}, c.op = "UpdateOrgQuota" => c.limit \in Int
  PROVE  <<c>> \in Seq({c}) /\ Shape(<<c>>)
<1> DEFINE l == <<c>>
<1>1. l \in Seq({c}) /\ Len(l) = 1 /\ l[1] = c
  OBVIOUS
<1> HIDE DEF l
<1>2. ~ Ending(l)
  BY <1>1 DEF Ending
<1>3. ShapeAt(l, 1)
  BY <1>1, <1>2 DEF ShapeAt
<1>4. Shape(l)
  BY <1>1, <1>3 DEF Shape
<1> QED BY <1>1, <1>4 DEF l

LEMMA TwoCommands ==
  ASSUME NEW b, NEW c, Plain(b), b.op # "SyncOrgRoles",
         c.op \notin {"Commit", "UpdateOrgQuota", "SyncOrgRoles", "LoggedIn"},
         c.op = "AddApiKey" => b.op = "Quota" /\ b.target = "api_key" /\ b.org = c.org
  PROVE  <<b, c>> \in Seq({b, c}) /\ Shape(<<b, c>>) /\ ~ Ending(<<b, c>>)
<1> DEFINE l == <<b, c>>
<1>1. l \in Seq({b, c}) /\ Len(l) = 2 /\ l[1] = b /\ l[2] = c
  OBVIOUS
<1> HIDE DEF l
<1>2. ~ Ending(l)
  BY <1>1 DEF Ending
<1>3. ShapeAt(l, 1) /\ ShapeAt(l, 2)
  BY <1>1, <1>2 DEF ShapeAt, Plain
<1>4. Shape(l)
  BY <1>1, <1>3 DEF Shape
<1> QED BY <1>1, <1>2, <1>4 DEF l

LEMMA ThreeCommands ==
  ASSUME NEW a, NEW b, NEW c, Plain(a), Plain(b), Plain(c) \/ c.op = "JoinInvited"
  PROVE  <<a, b, c>> \in Seq({a, b, c}) /\ Shape(<<a, b, c>>) /\ ~ Ending(<<a, b, c>>)
<1> DEFINE l == <<a, b, c>>
<1>1. l \in Seq({a, b, c}) /\ Len(l) = 3 /\ l[1] = a /\ l[2] = b /\ l[3] = c
  OBVIOUS
<1> HIDE DEF l
<1>2. ~ Ending(l)
  BY <1>1 DEF Ending, LastOps, Plain
<1>3. ShapeAt(l, 1) /\ ShapeAt(l, 2) /\ ShapeAt(l, 3)
  BY <1>1, <1>2 DEF ShapeAt, Plain
<1>4. Shape(l)
  BY <1>1, <1>3 DEF Shape
<1> QED BY <1>1, <1>2, <1>4 DEF l

LEMMA Glue ==
  ASSUME NEW S, NEW s \in Seq(S), NEW t \in Seq(S), NEW u \in Seq(S), Len(u) = Len(s) + Len(t),
         \A i \in 1..Len(s) : u[i] = s[i], \A i \in 1..Len(t) : u[Len(s) + i] = t[i]
  PROVE  s \o t = u
<1>1. s \o t \in Seq(S) /\ Len(s \o t) = Len(u) /\ Len(s) \in Nat /\ Len(t) \in Nat
      /\ \A i \in 1..(Len(s) + Len(t)) : (s \o t)[i] = IF i <= Len(s) THEN s[i] ELSE t[i - Len(s)]
  BY ConcatProperties, LenProperties
<1>2. ASSUME NEW i \in 1..Len(u) PROVE (s \o t)[i] = u[i]
  <2>1. CASE i <= Len(s)
    BY <1>1, <2>1
  <2>2. CASE i > Len(s)
    <3>1. i - Len(s) \in 1..Len(t) /\ Len(s) + (i - Len(s)) = i
      BY <1>1, <2>2
    <3>2. (s \o t)[i] = t[i - Len(s)]
      BY <1>1, <2>2
    <3>3. u[Len(s) + (i - Len(s))] = t[i - Len(s)]
      BY <3>1
    <3> QED BY <3>1, <3>2, <3>3
  <2> QED BY <1>1, <2>1, <2>2
<1> QED BY <1>1, <1>2, SeqEqual

LEMMA FourCommands ==
  ASSUME NEW a, NEW b, NEW c, NEW d, Plain(a), Plain(b), Plain(c), d.op = "SetUsingOrg"
  PROVE  LET l == <<a>> \o <<b, c>> \o <<d>> IN
         l \in Seq({a, b, c, d}) /\ Shape(l) /\ ~ Ending(l) /\ l # <<>> /\ Head(l) = a
<1> DEFINE l == <<a>> \o <<b, c>> \o <<d>>
<1>1. l = <<a, b, c, d>>
  <2> DEFINE S == {a, b, c, d}
  <2>1. <<a>> \in Seq(S) /\ <<b, c>> \in Seq(S) /\ <<d>> \in Seq(S) /\ <<a, b, c>> \in Seq(S)
        /\ <<a, b, c, d>> \in Seq(S)
    OBVIOUS
  <2>2. <<a>> \o <<b, c>> = <<a, b, c>>
    <3>1. \A i \in 1..Len(<<a>>) : <<a, b, c>>[i] = <<a>>[i]
      OBVIOUS
    <3>2. \A i \in 1..Len(<<b, c>>) : <<a, b, c>>[Len(<<a>>) + i] = <<b, c>>[i]
      OBVIOUS
    <3>3. Len(<<a, b, c>>) = Len(<<a>>) + Len(<<b, c>>)
      OBVIOUS
    <3> HIDE DEF S
    <3> QED BY <2>1, <3>1, <3>2, <3>3, Glue
  <2>3. <<a, b, c>> \o <<d>> = <<a, b, c, d>>
    <3>1. \A i \in 1..Len(<<a, b, c>>) : <<a, b, c, d>>[i] = <<a, b, c>>[i]
      OBVIOUS
    <3>2. \A i \in 1..Len(<<d>>) : <<a, b, c, d>>[Len(<<a, b, c>>) + i] = <<d>>[i]
      OBVIOUS
    <3>3. Len(<<a, b, c, d>>) = Len(<<a, b, c>>) + Len(<<d>>)
      OBVIOUS
    <3> HIDE DEF S
    <3> QED BY <2>1, <3>1, <3>2, <3>3, Glue
  <2> QED BY <2>2, <2>3
<1>2. l \in Seq({a, b, c, d}) /\ Len(l) = 4 /\ l[1] = a /\ l[2] = b /\ l[3] = c /\ l[4] = d /\ Head(l) = a /\ l # <<>>
  BY <1>1
<1> HIDE DEF l
<1>3. ~ Ending(l)
  BY <1>2 DEF Ending, LastOps
<1>4. ShapeAt(l, 1) /\ ShapeAt(l, 2) /\ ShapeAt(l, 3) /\ ShapeAt(l, 4)
  BY <1>2, <1>3 DEF ShapeAt, Plain
<1>5. Shape(l)
  BY <1>2, <1>4 DEF Shape
<1> QED BY <1>2, <1>3, <1>5 DEF l

\* A login, with or without a user to be made.
SyncCmds(n) == <<[op |-> "SyncOrgRoles", name |-> n], [op |-> "LoggedIn", name |-> n]>>

LEMMA LoginLists ==
  ASSUME NEW n, NEW c, c.op = "CreateUser"
  PROVE  /\ \E C : SyncCmds(n) \in Seq(C) /\ <<c>> \o SyncCmds(n) \in Seq(C) /\ <<c>> \o <<>> \in Seq(C)
         /\ Shape(SyncCmds(n)) /\ Shape(<<c>> \o SyncCmds(n)) /\ Shape(<<c>> \o <<>>)
         /\ Head(SyncCmds(n)).op = "SyncOrgRoles" /\ Head(<<c>> \o SyncCmds(n)) = c /\ Head(<<c>> \o <<>>) = c
<1> DEFINE a == [op |-> "SyncOrgRoles", name |-> n]
           b == [op |-> "LoggedIn", name |-> n]
           l == <<a, b>>
           k == <<c, a, b>>
           C == {a, b, c}
<1>1. SyncCmds(n) = l /\ <<c>> \o SyncCmds(n) = k /\ <<c>> \o <<>> = <<c>>
  <2>1. <<c>> \in Seq(C) /\ l \in Seq(C) /\ k \in Seq(C)
    OBVIOUS
  <2>2. \A i \in 1..Len(<<c>>) : k[i] = <<c>>[i]
    OBVIOUS
  <2>3. \A i \in 1..Len(l) : k[Len(<<c>>) + i] = l[i]
    OBVIOUS
  <2>4. Len(k) = Len(<<c>>) + Len(l)
    OBVIOUS
  <2>5. SyncCmds(n) = l
    BY DEF SyncCmds
  <2> HIDE DEF k, l, C
  <2>6. <<c>> \o l = k
    BY <2>1, <2>2, <2>3, <2>4, Glue
  <2>7. <<c>> \o <<>> = <<c>>
    BY <2>1, ConcatEmptySeq
  <2> QED BY <2>5, <2>6, <2>7
<1>2. l \in Seq(C) /\ Len(l) = 2 /\ l[1] = a /\ l[2] = b
  OBVIOUS
<1>3. k \in Seq(C) /\ Len(k) = 3 /\ k[1] = c /\ k[2] = a /\ k[3] = b
  OBVIOUS
<1>4. <<c>> \in Seq(C)
  OBVIOUS
<1>5. a.op = "SyncOrgRoles" /\ a.name = n /\ b.op = "LoggedIn" /\ b.name = n
  OBVIOUS
<1> HIDE DEF l, k, C, a, b
<1>6. Ending(l) /\ Ending(k)
  <2>1. l # <<>> /\ k # <<>>
    <3>1. l \in Seq(C) /\ Len(l) # 0
      BY <1>2
    <3>2. k \in Seq(C) /\ Len(k) # 0
      BY <1>3
    <3>3. l # <<>>
      BY <3>1, NotEmpty
    <3>4. k # <<>>
      BY <3>2, NotEmpty
    <3> QED BY <3>3, <3>4
  <2>2. l[Len(l)] = b /\ k[Len(k)] = b
    BY <1>2, <1>3
  <2> QED BY <2>1, <2>2, <1>5 DEF Ending
<1>7. ShapeAt(l, 1) /\ ShapeAt(l, 2)
  BY <1>2, <1>5, <1>6 DEF ShapeAt, LoginShape, LastOps, SyncOps
<1>8. ShapeAt(k, 1) /\ ShapeAt(k, 2) /\ ShapeAt(k, 3)
  BY <1>3, <1>5, <1>6 DEF ShapeAt, LoginShape, LastOps, SyncOps
<1>9. Shape(l) /\ Shape(k)
  BY <1>2, <1>3, <1>7, <1>8 DEF Shape
<1>10. Shape(<<c>>)
  BY OneCommand
<1>11. Head(<<c>>) = c
  OBVIOUS
<1>12. Head(l) = a /\ Head(k) = c
  BY DEF l, k
<1> QED BY <1>1, <1>2, <1>3, <1>4, <1>5, <1>9, <1>10, <1>11, <1>12

LEMMA Listed ==
  ASSUME NEW A, IsFiniteSet(A), NEW f \in SetToSeqs(A)
  PROVE  /\ f \in Seq(A) /\ DOMAIN f = 1..Len(f) /\ Len(f) \in Nat
         /\ \A a \in A : \E i \in 1..Len(f) : f[i] = a
<1> DEFINE n == Cardinality(A)
<1>1. n \in Nat
  BY FS_CardinalityType
<1>2. f \in [1..n -> A] /\ \A i, j \in 1..n : i # j => f[i] # f[j]
  BY DEF SetToSeqs
<1>3. f \in Seq(A) /\ DOMAIN f = 1..n /\ Len(f) = n
  BY <1>1, <1>2
<1>4. IsFiniteSet(1..n) /\ Cardinality(1..n) = n
  BY <1>1, FS_Interval
<1>5. f \in Injection(1..n, A)
  BY <1>2 DEF Injection, IsInjective
<1>6. f \in Surjection(1..n, A)
  BY <1>4, <1>5, FS_Injection
<1>7. \A a \in A : \E i \in 1..n : f[i] = a
  BY <1>6 DEF Surjection
<1> QED BY <1>1, <1>3, <1>7

\* The list k of a sync for a login of n: the changes a, the additions b, the end.
Synchronizes(k, a, b, n) ==
  /\ \E C : k \in Seq(C)
  /\ Shape(k) /\ Ending(k) /\ Head(k).op # "SyncOrgRoles"
  /\ k[Len(k)].name = n
  /\ Len(k) = Len(a) + Len(b) + 1
  /\ \A i \in 1..Len(a) : k[i] = a[i]
  /\ \A i \in 1..Len(b) : k[Len(a) + i] = b[i]

LEMMA SyncList ==
  ASSUME NEW S, NEW l \in Seq(S), l # <<>>, Shape(l), Head(l).op = "SyncOrgRoles",
         NEW A, NEW B, NEW a \in Seq(A), NEW b \in Seq(B),
         \A i \in 1..Len(a) : a[i].op \in {"UpdateOrgUser", "RemoveOrgUser"}
                              /\ RoleOf(a[i]) = Mapped(Head(l).name, a[i].org),
         \A i \in 1..Len(b) : b[i].op = "AddOrgUser" /\ b[i].unless = {"OrgNotFound"}
                              /\ RoleOf(b[i]) = Mapped(Head(l).name, b[i].org)
  PROVE  Synchronizes((a \o b) \o Tail(l), a, b, Head(l).name)
<1> DEFINE D == (S \cup A) \cup B
           k == (a \o b) \o Tail(l)
           n == Head(l).name
           m == Len(a) + Len(b)
<1>1. Seq(S) \subseteq Seq(D) /\ Seq(A) \subseteq Seq(D) /\ Seq(B) \subseteq Seq(D)
  OBVIOUS
<1>2. Len(l) \in Nat \ {0} /\ Head(l) = l[1] /\ Tail(l) \in Seq(S) /\ Len(Tail(l)) = Len(l) - 1
      /\ \A i \in 1..(Len(l) - 1) : Tail(l)[i] = l[i + 1]
  BY HeadTailProperties, EmptySeq, LenProperties
<1>3. Len(l) = 2 /\ l[2].op = "LoggedIn" /\ l[2].name = n
  <2>1. 1 \in 1..Len(l)
    BY <1>2
  <2>2. ShapeAt(l, 1)
    BY <2>1 DEF Shape
  <2>3. Ending(l) /\ 2 = Len(l) /\ l[2].name = l[1].name
    BY <2>2, <1>2 DEF ShapeAt
  <2> QED BY <2>3, <1>2 DEF Ending
<1>4. a \o b \in Seq(D) /\ Len(a \o b) = Len(a) + Len(b) /\ Len(a) \in Nat /\ Len(b) \in Nat
      /\ \A i \in 1..(Len(a) + Len(b)) : (a \o b)[i] = IF i <= Len(a) THEN a[i] ELSE b[i - Len(a)]
  <2> HIDE DEF D
  <2> QED BY <1>1, ConcatProperties, LenProperties
<1>5. /\ k \in Seq(D) /\ Len(k) = m + 1 /\ m \in Nat
      /\ \A i \in 1..(m + 1) : k[i] = IF i <= m THEN (a \o b)[i] ELSE Tail(l)[i - m]
  <2> HIDE DEF D
  <2> DEFINE u == a \o b
             t == Tail(l)
  <2>1. t \in Seq(D) /\ Len(t) = 1
    BY <1>1, <1>2, <1>3
  <2>2. u \in Seq(D) /\ Len(u) = m /\ m \in Nat
    BY <1>4
  <2> HIDE DEF u, t, m
  <2>3. u \o t \in Seq(D) /\ Len(u \o t) = m + 1
        /\ \A i \in 1..(m + 1) : (u \o t)[i] = IF i <= m THEN u[i] ELSE t[i - m]
    <3>1. u \o t \in Seq(D) /\ Len(u \o t) = Len(u) + Len(t)
          /\ \A i \in 1..(Len(u) + Len(t)) : (u \o t)[i] = IF i <= Len(u) THEN u[i] ELSE t[i - Len(u)]
      <4>1. u \in Seq(D) /\ t \in Seq(D)
        BY <2>1, <2>2
      <4> QED BY <4>1, ConcatProperties
    <3> QED BY <3>1, <2>1, <2>2
  <2> QED BY <2>2, <2>3 DEF u, t
<1>6. \A i \in 1..Len(a) : k[i] = a[i]
  BY <1>4, <1>5
<1>7. ASSUME NEW i \in 1..Len(b) PROVE k[Len(a) + i] = b[i]
  <2>1. Len(a) + i \in 1..m /\ ~ (Len(a) + i <= Len(a)) /\ (Len(a) + i) - Len(a) = i
    BY <1>4
  <2> QED BY <2>1, <1>4, <1>5
<1>8. k[m + 1] = l[2]
  <2>1. m + 1 \in 1..(m + 1) /\ ~ (m + 1 <= m) /\ (m + 1) - m = 1 /\ Tail(l)[1] = l[1 + 1]
    BY <1>2, <1>3, <1>5
  <2> QED BY <2>1, <1>5
<1>9. ASSUME NEW i \in 1..m
      PROVE  /\ k[i].op \in {"UpdateOrgUser", "RemoveOrgUser", "AddOrgUser"}
             /\ RoleOf(k[i]) = Mapped(n, k[i].org)
             /\ k[i].op = "AddOrgUser" => k[i].unless = {"OrgNotFound"}
  <2>1. CASE i <= Len(a)
    <3>1. i \in 1..Len(a)
      BY <2>1, <1>4
    <3>2. k[i] = a[i]
      BY <3>1, <1>6
    <3> HIDE DEF k
    <3> QED BY <3>1, <3>2
  <2>2. CASE i > Len(a)
    <3>1. i - Len(a) \in 1..Len(b) /\ Len(a) + (i - Len(a)) = i
      BY <2>2, <1>4
    <3>2. k[Len(a) + (i - Len(a))] = b[i - Len(a)]
      BY <3>1, <1>7
    <3>3. k[i] = b[i - Len(a)]
      BY <3>1, <3>2
    <3> HIDE DEF k
    <3> QED BY <3>1, <3>3
  <2> QED BY <1>4, <2>1, <2>2
<1> HIDE DEF k, D
<1>10. Ending(k) /\ k[Len(k)].name = n
  <2>1. Len(k) # 0
    BY <1>5
  <2>2. k # <<>>
    BY <2>1, <1>5, NotEmpty
  <2> QED BY <2>2, <1>3, <1>5, <1>8 DEF Ending
<1>11. ASSUME NEW i \in 1..Len(k) PROVE ShapeAt(k, i)
  <2>1. CASE i <= m
    <3>1. i \in 1..m /\ i < Len(k)
      BY <2>1, <1>5
    <3>2. k[i].op \in {"UpdateOrgUser", "RemoveOrgUser", "AddOrgUser"}
      BY <3>1, <1>9
    <3>3. k[i].op \notin LastOps
      BY <3>2 DEF LastOps
    <3>4. LoginShape(k, i)
      BY <3>1, <3>2, <1>9, <1>10 DEF LoginShape, SyncOps
    <3> QED BY <3>2, <3>3, <3>4 DEF ShapeAt
  <2>2. CASE i = m + 1
    <3>1. k[i].op = "LoggedIn" /\ i = Len(k)
      BY <2>2, <1>3, <1>5, <1>8
    <3> QED BY <3>1 DEF ShapeAt, LoginShape, SyncOps
  <2> QED BY <1>5, <2>1, <2>2
<1>12. Head(k).op # "SyncOrgRoles"
  <2>1. Head(k) = k[1]
    BY <1>5, <1>10, HeadTailProperties DEF Ending
  <2>2. CASE m = 0
    BY <2>1, <2>2, <1>8, <1>3
  <2>3. CASE m # 0
    <3>1. 1 \in 1..m
      BY <2>3, <1>5
    <3> QED BY <2>1, <3>1, <1>9
  <2> QED BY <2>2, <2>3
<1>13. Shape(k)
  BY <1>11 DEF Shape
<1>14. Len(k) = Len(a) + Len(b) + 1
  BY <1>4, <1>5
<1> HIDE DEF m
<1>15. Synchronizes(k, a, b, n)
  BY <1>5, <1>6, <1>7, <1>10, <1>12, <1>13, <1>14 DEF Synchronizes
<1> QED BY <1>15 DEF k

LEMMA FunctionIsSeq ==
  ASSUME NEW R, NEW m \in Nat, NEW k \in [1..m -> R]
  PROVE  k \in Seq(R) /\ Len(k) = m
OBVIOUS

\* The invitations that a sign-up joins.
LEMMA JoinList ==
  ASSUME NEW n \in Nat, NEW codes, NEW k,
         k = [i \in 1..(2 * n) |-> applyUserInvite(codes[(i + 1) \div 2])[2 - (i % 2)]]
  PROVE  /\ \E C : k \in Seq(C)
         /\ Shape(k) /\ ~ Ending(k)
         /\ \A i \in 1..Len(k) : k[i].op \in {"AddOrgUser", "UpdateTempUserStatus"}
<1>1. 2 * n \in Nat /\ DOMAIN k = 1..(2 * n)
  OBVIOUS
<1> DEFINE m == 2 * n
           R == {k[i] : i \in 1..m}
<1>2. k \in Seq(R) /\ Len(k) = 2 * n
  <2>1. k = [i \in 1..m |-> k[i]] /\ \A i \in 1..m : k[i] \in R
    OBVIOUS
  <2> HIDE DEF m, R
  <2>2. k \in [1..m -> R]
    BY <2>1
  <2>3. m \in Nat
    BY <1>1 DEF m
  <2>4. k \in Seq(R) /\ Len(k) = m
    BY <2>2, <2>3, FunctionIsSeq
  <2> QED BY <2>4 DEF m
<1> HIDE DEF R, m
<1>3. ASSUME NEW i \in 1..Len(k) PROVE k[i].op \in {"AddOrgUser", "UpdateTempUserStatus"}
  <2> DEFINE c == codes[(i + 1) \div 2]
  <2>1. 2 - (i % 2) \in {1, 2} /\ k[i] = applyUserInvite(c)[2 - (i % 2)]
    BY <1>2
  <2>2. applyUserInvite(c)[1].op = "AddOrgUser" /\ applyUserInvite(c)[2].op = "UpdateTempUserStatus"
    BY DEF applyUserInvite, AddCmd, StatusCmd
  <2> HIDE DEF c
  <2> QED BY <2>1, <2>2
<1>4. ~ Ending(k)
  <2> SUFFICES ASSUME Ending(k) PROVE FALSE
    OBVIOUS
  <2>1. Len(k) \in 1..Len(k)
    BY <1>1, <1>2, EmptySeq DEF Ending
  <2> QED BY <2>1, <1>3 DEF Ending
<1>5. Shape(k)
  BY ZenonT(60), <1>3, <1>4 DEF Shape, ShapeAt, LastOps
<1> QED BY <1>2, <1>3, <1>4, <1>5

-----------------------------------------------------------------------------
(* What a step does to the lists.                                          *)

\* The commands that leave something in their place.
ReplacedOps == {"UpdateOrgUser", "RemoveOrgUser", "SyncOrgRoles"}

Drops(p) ==
  todo[p] # <<>> /\ Head(todo[p]).op \notin ReplacedOps /\ todo' = [todo EXCEPT ![p] = Tail(todo[p])]
Starts(p) ==
  \E cmds : /\ todo' = [todo EXCEPT ![p] = cmds]
            /\ cmds = <<>> \/ Head(cmds).op \notin {"Commit", "AddApiKey"}
            /\ Ending(cmds) => Head(cmds).op \in {"CreateUser", "SyncOrgRoles"}

LEMMA DropsOrFails ==
  ASSUME Lists, NEW p \in Slots, todo[p] # <<>>,
         (Done(p) /\ Head(todo[p]).op \notin ReplacedOps) \/ Fail(p)
  PROVE  Lists' /\ (Drops(p) \/ Starts(p))
<1>1. CASE Done(p) /\ Head(todo[p]).op \notin ReplacedOps
  BY <1>1, AfterDone DEF Drops
<1>2. CASE Fail(p)
  BY <1>2, AfterFail DEF Starts, Ending
<1> QED BY <1>1, <1>2

LEMMA LastStarts ==
  ASSUME Lists, NEW p \in Slots, todo[p] # <<>>, Head(todo[p]).op \in LastOps,
         NEW C, NEW cmds \in Seq(C), Shape(cmds), Then(p, cmds),
         cmds = <<>> \/ Head(cmds).op \notin {"Commit", "AddApiKey"},
         Ending(cmds) => Head(cmds).op \in {"CreateUser", "SyncOrgRoles"}
  PROVE  Lists' /\ Starts(p)
BY AfterLast DEF Starts

LEMMA StoreLists ==
  ASSUME Lists, NEW p \in Slots, Store(p)
  PROVE  Lists' /\ (Drops(p) \/ Starts(p) \/ UpdateOrgUser(p) \/ RemoveOrgUser(p))
<1>1. CASE CreateUser(p)
  BY <1>1, DropsOrFails DEF CreateUser, At, ReplacedOps
<1>2. CASE DeleteUser(p)
  BY <1>2, DropsOrFails DEF DeleteUser, At, ReplacedOps
<1>3. CASE UpdateUserPermissions(p)
  BY <1>3, DropsOrFails DEF UpdateUserPermissions, At, ReplacedOps
<1>4. CASE SetUsingOrg(p)
  <2>1. CASE Fail(p)
    BY <1>4, <2>1, DropsOrFails DEF SetUsingOrg, At, ReplacedOps
  <2>2. CASE Then(p, <<[op |-> "SetOrg", org |-> Head(todo[p]).org]>>)
    <3> DEFINE c == [op |-> "SetOrg", org |-> Head(todo[p]).org]
    <3>1. <<c>> \in Seq({c}) /\ Shape(<<c>>)
      BY OneCommand
    <3>2. Head(<<c>>).op = "SetOrg" /\ ~ Ending(<<c>>)
      BY DEF Ending
    <3>3. todo[p] # <<>> /\ Head(todo[p]).op \in LastOps
      BY <1>4 DEF SetUsingOrg, At, LastOps
    <3>4. Then(p, <<c>>)
      BY <2>2
    <3> HIDE DEF c
    <3> QED BY <3>1, <3>2, <3>3, <3>4, LastStarts
  <2> QED BY <1>4, <2>1, <2>2 DEF SetUsingOrg
<1>5. CASE SetOrg(p)
  BY <1>5, DropsOrFails DEF SetOrg, At, ReplacedOps
<1>6. CASE CreateOrg(p)
  BY <1>6, DropsOrFails DEF CreateOrg, At, ReplacedOps
<1>7. CASE DeleteOrg(p)
  BY <1>7, DropsOrFails DEF DeleteOrg, At, ReplacedOps
<1>8. CASE AddOrgUser(p)
  BY <1>8, DropsOrFails DEF AddOrgUser, At, ReplacedOps
<1>9. CASE UpdateOrgUser(p)
  <2> DEFINE o == Head(todo[p]).org
             role == Head(todo[p]).role
             c == [op |-> "Commit", org |-> o, role |-> role, saw |-> Admins(o)]
  <2>1. Fail(p) \/ Then(p, <<c>>)
    BY <1>9 DEF UpdateOrgUser, ChangesRole
  <2>2. todo[p] # <<>> /\ Head(todo[p]).op = "UpdateOrgUser"
    BY <1>9 DEF UpdateOrgUser, At
  <2>3. c.op = "Commit" /\ c.org = o /\ c.role = RoleOf(Head(todo[p]))
    BY <2>2 DEF RoleOf
  <2> HIDE DEF c
  <2>4. CASE Then(p, <<c>>)
    BY <1>9, <2>2, <2>3, <2>4, AfterWrite
  <2> QED BY <1>9, <2>1, <2>2, <2>4, DropsOrFails
<1>10. CASE RemoveOrgUser(p)
  <2> DEFINE o == Head(todo[p]).org
             c == [op |-> "Commit", org |-> o, role |-> NoRole, saw |-> Admins(o)]
  <2>1. Fail(p) \/ Then(p, <<c>>)
    BY <1>10 DEF RemoveOrgUser, ChangesRole
  <2>2. todo[p] # <<>> /\ Head(todo[p]).op = "RemoveOrgUser"
    BY <1>10 DEF RemoveOrgUser, At
  <2>3. c.op = "Commit" /\ c.org = o /\ c.role = RoleOf(Head(todo[p]))
    BY <2>2 DEF RoleOf
  <2> HIDE DEF c
  <2>4. CASE Then(p, <<c>>)
    BY <1>10, <2>2, <2>3, <2>4, AfterWrite
  <2> QED BY <1>10, <2>1, <2>2, <2>4, DropsOrFails
<1>11. CASE Commit(p)
  BY <1>11, DropsOrFails DEF Commit, InTx, At, ReplacedOps
<1>12. CASE CreateTempUser(p)
  BY <1>12, DropsOrFails DEF CreateTempUser, At, ReplacedOps
<1>13. CASE UpdateTempUserStatus(p)
  BY <1>13, DropsOrFails DEF UpdateTempUserStatus, At, ReplacedOps
<1>14. CASE AddApiKey(p)
  BY <1>14, DropsOrFails DEF AddApiKey, At, ReplacedOps
<1>15. CASE DeleteApiKey(p)
  BY <1>15, DropsOrFails DEF DeleteApiKey, At, ReplacedOps
<1>16. CASE UpdateOrgQuota(p)
  BY <1>16, DropsOrFails DEF UpdateOrgQuota, At, ReplacedOps
<1> QED BY <1>1, <1>2, <1>3, <1>4, <1>5, <1>6, <1>7, <1>8, <1>9, <1>10, <1>11, <1>12, <1>13,
           <1>14, <1>15, <1>16 DEF Store

LEMMA Changes ==
  ASSUME NEW n, NEW o
  PROVE  /\ Change(n, o).op \in {"UpdateOrgUser", "RemoveOrgUser"} /\ Change(n, o).org = o
         /\ RoleOf(Change(n, o)) = Mapped(n, o)
         /\ Add(n, o).op = "AddOrgUser" /\ Add(n, o).org = o /\ Add(n, o).unless = {"OrgNotFound"}
         /\ RoleOf(Add(n, o)) = Mapped(n, o)
<1>1. Change(n, o).op \in {"UpdateOrgUser", "RemoveOrgUser"} /\ Change(n, o).org = o
      /\ RoleOf(Change(n, o)) = Mapped(n, o)
  <2>1. CASE Mapped(n, o) = NoRole
    <3>1. Change(n, o) = [op |-> "RemoveOrgUser", org |-> o]
      BY <2>1 DEF Change
    <3> QED BY <2>1, <3>1 DEF RoleOf
  <2>2. CASE Mapped(n, o) # NoRole
    <3>1. Change(n, o) = [op |-> "UpdateOrgUser", org |-> o, role |-> Mapped(n, o)]
      BY <2>2 DEF Change
    <3> DEFINE r == Mapped(n, o)
    <3>2. Change(n, o) = [op |-> "UpdateOrgUser", org |-> o, role |-> r]
      BY <3>1
    <3> HIDE DEF r
    <3>3. Change(n, o).op = "UpdateOrgUser" /\ Change(n, o).org = o /\ Change(n, o).role = r
      BY <3>2
    <3> QED BY <3>3 DEF RoleOf, r
  <2> QED BY <2>1, <2>2
<1>2. Add(n, o).op = "AddOrgUser" /\ Add(n, o).org = o /\ Add(n, o).unless = {"OrgNotFound"}
      /\ Add(n, o).role = Mapped(n, o)
  BY DEF Add, AddCmd
<1> QED BY <1>1, <1>2 DEF RoleOf

LEMMA OrgsFinite ==
  ASSUME orgs \subseteq OrgIds, NEW n, NEW u
  PROVE  IsFiniteSet(Wrong(n, u)) /\ IsFiniteSet(MappedOrgs(n) \ OrgsOf(u))
<1>1. IsFiniteSet(Wrong(n, u))
  <2>1. IsFiniteSet(1..MaxOrgs)
    BY BoundsAssumption, FS_Interval
  <2>2. Wrong(n, u) \in SUBSET (1..MaxOrgs)
    BY DEF Wrong, OrgsOf, OrgIds
  <2> QED BY <2>1, <2>2, FS_Subset
<1>2. IsFiniteSet(MappedOrgs(n))
  <2>1. LdapGroups \in Seq([org : Nat, role : {"Viewer", "Admin"}, names : SUBSET Names])
    BY BoundsAssumption
  <2>2. DOMAIN LdapGroups = 1..Len(LdapGroups) /\ Len(LdapGroups) \in Nat
    BY <2>1
  <2>3. IsFiniteSet(1..Len(LdapGroups))
    BY <2>2, FS_Interval
  <2>4. Groups(n) \in SUBSET (1..Len(LdapGroups))
    BY <2>2 DEF Groups
  <2>5. IsFiniteSet(Groups(n))
    BY <2>3, <2>4, FS_Subset
  <2> DEFINE f == [i \in Groups(n) |-> LdapGroups[i].org]
  <2>6. MappedOrgs(n) = {f[i] : i \in Groups(n)}
    BY DEF MappedOrgs
  <2>7. f \in Surjection(Groups(n), MappedOrgs(n))
    <3>1. f \in [Groups(n) -> MappedOrgs(n)]
      BY DEF MappedOrgs
    <3> HIDE DEF f
    <3> QED BY <3>1, <2>6 DEF Surjection
  <2> QED BY <2>5, <2>7, FS_Surjection
<1>3. MappedOrgs(n) \ OrgsOf(u) \in SUBSET MappedOrgs(n)
  OBVIOUS
<1> QED BY <1>1, <1>2, <1>3, FS_Subset

\* A sync of roles, for the user u of the request.
LEMMA SyncLists ==
  ASSUME Lists, orgs \subseteq OrgIds, NEW p \in Slots, SyncOrgRoles(p)
  PROVE  /\ Lists'
         /\ \A q \in Slots \ {p} : todo'[q] = todo[q]
         /\ LET k == todo'[p] n == Head(todo[p]).name u == who[p] IN
            /\ Ending(k) /\ Head(k).op # "SyncOrgRoles" /\ k[Len(k)].name = n
            /\ Head(k).op \in {"UpdateOrgUser", "RemoveOrgUser", "AddOrgUser", "LoggedIn"}
            /\ \A o \in Wrong(n, u) \cup (MappedOrgs(n) \ OrgsOf(u)) :
                 \E i \in 1..Len(k) : k[i].op \in SyncOps /\ k[i].org = o
<1> DEFINE l == todo[p]
           n == Head(l).name
           u == who[p]
           W == Wrong(n, u)
           M == MappedOrgs(n) \ OrgsOf(u)
<1>1. PICK S : todo \in [Slots -> Seq(S)]
  BY DEF Lists
<1>2. l \in Seq(S) /\ l # <<>> /\ Shape(l) /\ Head(l).op = "SyncOrgRoles"
  BY <1>1 DEF SyncOrgRoles, At, Lists
<1>3. IsFiniteSet(W) /\ IsFiniteSet(M)
  BY OrgsFinite
<1> DEFINE a(f) == [i \in DOMAIN f |-> Change(n, f[i])]
           b(g) == [i \in DOMAIN g |-> Add(n, g[i])]
<1>4. PICK f \in SetToSeqs(W), g \in SetToSeqs(M) : Then(p, a(f) \o b(g))
  BY DEF SyncOrgRoles
<1> HIDE DEF W, M
<1>5. f \in Seq(W) /\ DOMAIN f = 1..Len(f) /\ Len(f) \in Nat /\ \A o \in W : \E i \in 1..Len(f) : f[i] = o
  BY <1>3, Listed
<1>6. g \in Seq(M) /\ DOMAIN g = 1..Len(g) /\ Len(g) \in Nat /\ \A o \in M : \E i \in 1..Len(g) : g[i] = o
  BY <1>3, Listed
<1> DEFINE A == {a(f)[i] : i \in 1..Len(f)}
           B == {b(g)[i] : i \in 1..Len(g)}
<1>7. a(f) \in Seq(A) /\ Len(a(f)) = Len(f) /\ \A i \in 1..Len(f) : a(f)[i] = Change(n, f[i])
  <2> DEFINE m == Len(f)
  <2>1. a(f) \in [1..m -> A] /\ \A i \in 1..m : a(f)[i] = Change(n, f[i])
    BY <1>5
  <2>2. m \in Nat
    BY <1>5
  <2> HIDE DEF m, a, A
  <2>3. a(f) \in Seq(A) /\ Len(a(f)) = m
    BY <2>1, <2>2, FunctionIsSeq
  <2> QED BY <2>1, <2>3 DEF m
<1>8. b(g) \in Seq(B) /\ Len(b(g)) = Len(g) /\ \A i \in 1..Len(g) : b(g)[i] = Add(n, g[i])
  <2> DEFINE m == Len(g)
  <2>1. b(g) \in [1..m -> B] /\ \A i \in 1..m : b(g)[i] = Add(n, g[i])
    BY <1>6
  <2>2. m \in Nat
    BY <1>6
  <2> HIDE DEF m, b, B
  <2>3. b(g) \in Seq(B) /\ Len(b(g)) = m
    BY <2>1, <2>2, FunctionIsSeq
  <2> QED BY <2>1, <2>3 DEF m
<1> HIDE DEF a, b, A, B, l
<1> DEFINE k == (a(f) \o b(g)) \o Tail(l)
<1>9. /\ \E C : k \in Seq(C)
      /\ Shape(k) /\ Ending(k) /\ Head(k).op # "SyncOrgRoles"
      /\ k[Len(k)].name = n
      /\ Len(k) = Len(f) + Len(g) + 1
      /\ \A i \in 1..Len(f) : k[i] = a(f)[i]
      /\ \A i \in 1..Len(g) : k[Len(f) + i] = b(g)[i]
  <2> DEFINE x == a(f)
             y == b(g)
  <2>1. x \in Seq(A) /\ y \in Seq(B) /\ Len(x) = Len(f) /\ Len(y) = Len(g)
    BY <1>7, <1>8
  <2>2. \A i \in 1..Len(x) : x[i].op \in {"UpdateOrgUser", "RemoveOrgUser"}
                             /\ RoleOf(x[i]) = Mapped(Head(l).name, x[i].org)
    BY <1>7, Changes
  <2>3. \A i \in 1..Len(y) : y[i].op = "AddOrgUser" /\ y[i].unless = {"OrgNotFound"}
                             /\ RoleOf(y[i]) = Mapped(Head(l).name, y[i].org)
    BY <1>8, Changes
  <2> HIDE DEF x, y
  <2>4. Synchronizes((x \o y) \o Tail(l), x, y, Head(l).name)
    BY <1>2, <2>1, <2>2, <2>3, SyncList
  <2>5. (x \o y) \o Tail(l) = k
    BY DEF x, y
  <2> HIDE DEF k
  <2>6. Synchronizes(k, x, y, n)
    BY <2>4, <2>5
  <2> QED BY <2>1, <2>6 DEF x, y, Synchronizes
<1>10. todo' = [todo EXCEPT ![p] = k]
  BY <1>1, <1>4 DEF Then, l
<1> HIDE DEF k
<1>11. Lists'
  BY <1>9, <1>10, Replaced
<1>12. todo'[p] = k /\ \A q \in Slots \ {p} : todo'[q] = todo[q]
  BY <1>1, <1>10
<1>13. ASSUME NEW o \in W \cup M PROVE \E i \in 1..Len(k) : k[i].op \in SyncOps /\ k[i].org = o
  <2>1. CASE o \in W
    <3>1. PICK i \in 1..Len(f) : f[i] = o
      BY <1>5, <2>1
    <3>2. k[i] = Change(n, o) /\ i \in 1..Len(k)
      BY <3>1, <1>5, <1>6, <1>7, <1>9
    <3> QED BY <3>2, Changes DEF SyncOps
  <2>2. CASE o \in M
    <3>1. PICK i \in 1..Len(g) : g[i] = o
      BY <1>6, <2>2
    <3>2. k[Len(f) + i] = Add(n, o) /\ Len(f) + i \in 1..Len(k)
      BY <3>1, <1>5, <1>6, <1>8, <1>9
    <3> QED BY <3>2, Changes DEF SyncOps
  <2> QED BY <2>1, <2>2
<1>14. Head(k).op \in {"UpdateOrgUser", "RemoveOrgUser", "AddOrgUser", "LoggedIn"}
  <2>1. PICK C : k \in Seq(C)
    BY <1>9
  <2>2. Len(k) \in Nat \ {0} /\ Head(k) = k[1]
    BY <2>1, <1>9, EmptySeq, LenProperties, HeadTailProperties DEF Ending
  <2>3. CASE Len(k) = 1
    BY <2>2, <2>3, <1>9 DEF Ending
  <2>4. CASE Len(k) # 1
    <3>1. CASE Len(f) > 0
      <4>1. 1 \in 1..Len(f)
        BY <3>1, <1>5
      <4> QED BY <4>1, <2>2, <1>7, <1>9, Changes DEF SyncOps
    <3>2. CASE Len(f) = 0
      <4>1. 1 \in 1..Len(g) /\ Len(f) + 1 = 1
        BY <3>2, <2>4, <1>6, <1>9
      <4>2. k[Len(f) + 1] = b(g)[1]
        BY <4>1, <1>9
      <4> QED BY <4>1, <4>2, <2>2, <1>8, Changes DEF SyncOps
    <3> QED BY <3>1, <3>2, <1>5
  <2> QED BY <2>2, <2>3, <2>4
<1> QED BY <1>9, <1>11, <1>12, <1>13, <1>14 DEF W, M, l

LEMMA HandlerLists ==
  ASSUME Lists, TempsRight, orgs \subseteq OrgIds, NEW p \in Slots, Handler(p)
  PROVE  Lists' /\ (Drops(p) \/ Starts(p) \/ SyncOrgRoles(p))
<1> DEFINE c == Head(todo[p])
<1>1. CASE Quota(p)
  BY <1>1, DropsOrFails DEF Quota, At, ReplacedOps
<1>2. CASE addOrgUserHelper(p) \/ AddOrgInvite(p) \/ SignUp(p)
  <2>1. todo[p] # <<>> /\ c.op \in LastOps
    BY <1>2 DEF addOrgUserHelper, AddOrgInvite, SignUp, At, LastOps
  <2>2. \/ Fail(p)
        \/ \E d : d.op \in {"AddOrgUser", "CreateTempUser"} /\ Then(p, <<d>>)
    <3>1. CASE Fail(p)
      BY <3>1
    <3>2. CASE Then(p, <<AddCmd(c.org, c.role, {})>>)
      BY <3>2 DEF AddCmd
    <3> DEFINE row(o, role, status) == [email |-> c.name, org |-> o, role |-> role, status |-> status]
               e(o, role, status) == [op |-> "CreateTempUser", row |-> row(o, role, status)]
    <3>3. CASE Then(p, <<e(c.org, c.role, "InvitePending")>>)
      <4>1. e(c.org, c.role, "InvitePending").op = "CreateTempUser"
        OBVIOUS
      <4> HIDE DEF e
      <4> QED BY <3>3, <4>1
    <3>4. CASE Then(p, <<e(0, NoRole, "SignUpStarted")>>)
      <4>1. e(0, NoRole, "SignUpStarted").op = "CreateTempUser"
        OBVIOUS
      <4> HIDE DEF e
      <4> QED BY <3>4, <4>1
    <3> QED BY <1>2, <3>1, <3>2, <3>3, <3>4 DEF addOrgUserHelper, AddOrgInvite, SignUp
  <2>3. ASSUME NEW d, d.op \in {"AddOrgUser", "CreateTempUser"}, Then(p, <<d>>)
        PROVE  Lists' /\ Starts(p)
    <3>1. <<d>> \in Seq({d}) /\ Shape(<<d>>)
      BY <2>3, OneCommand
    <3>2. Head(<<d>>) = d /\ ~ Ending(<<d>>)
      BY <2>3 DEF Ending
    <3> QED BY <2>1, <2>3, <3>1, <3>2, LastStarts
  <2>4. CASE Fail(p)
    BY <2>1, <2>4, DropsOrFails
  <2>5. CASE \E d : d.op \in {"AddOrgUser", "CreateTempUser"} /\ Then(p, <<d>>)
    <3>1. PICK d : d.op \in {"AddOrgUser", "CreateTempUser"} /\ Then(p, <<d>>)
      BY <2>5
    <3>2. Lists' /\ Starts(p)
      BY <2>3, <3>1
    <3> QED BY <3>2
  <2> QED BY <2>2, <2>4, <2>5
<1>3. CASE CompleteInvite(p)
  <2>1. todo[p] # <<>> /\ c.op \in LastOps
    BY <1>3 DEF CompleteInvite, At, LastOps
  <2> DEFINE d1 == CreateUserCmd(c.name, TRUE, NoRole)
             d2 == AddCmd(temps[c.code].org, temps[c.code].role, {"AlreadyAdded"})
             d3 == StatusCmd(c.code, "Completed")
             d4 == [op |-> "SetUsingOrg", org |-> temps[c.code].org]
             k == <<d1>> \o <<d2, d3>> \o <<d4>>
  <2>2. Fail(p) \/ Then(p, k)
    BY <1>3 DEF CompleteInvite, applyUserInvite
  <2>3. Plain(d1) /\ Plain(d2) /\ Plain(d3) /\ d4.op = "SetUsingOrg" /\ d1.op = "CreateUser"
    BY DEF Plain, LastOps, CreateUserCmd, AddCmd, StatusCmd
  <2> HIDE DEF d1, d2, d3, d4, c
  <2>4. k \in Seq({d1, d2, d3, d4}) /\ Shape(k) /\ ~ Ending(k) /\ Head(k) = d1
    BY <2>3, FourCommands
  <2> HIDE DEF k
  <2>5. CASE Then(p, k)
    BY <2>1, <2>3, <2>4, <2>5, LastStarts DEF c
  <2> QED BY <2>1, <2>2, <2>5, DropsOrFails
<1>4. CASE SignUpStep2(p)
  <2>1. todo[p] # <<>> /\ c.op \in LastOps
    BY <1>4 DEF SignUpStep2, At, LastOps
  <2> DEFINE d1 == CreateUserCmd(c.name, FALSE, "Viewer")
             d2 == StatusCmd(c.code, "Completed")
             d3 == [op |-> "JoinInvited", name |-> c.name]
             k == <<d1, d2, d3>>
  <2>2. Fail(p) \/ Then(p, k)
    BY <1>4 DEF SignUpStep2
  <2>3. Plain(d1) /\ Plain(d2) /\ d3.op = "JoinInvited" /\ d1.op = "CreateUser"
    BY DEF Plain, LastOps, CreateUserCmd, StatusCmd
  <2> HIDE DEF d1, d2, d3, c
  <2>4. k \in Seq({d1, d2, d3}) /\ Shape(k) /\ ~ Ending(k)
    BY <2>3, ThreeCommands
  <2>5. Head(k) = d1
    OBVIOUS
  <2> HIDE DEF k
  <2>6. CASE Then(p, k)
    BY <2>1, <2>3, <2>4, <2>5, <2>6, LastStarts DEF c
  <2> QED BY <2>1, <2>2, <2>6, DropsOrFails
<1>5. CASE JoinInvited(p)
  <2>1. todo[p] # <<>> /\ c.op \in LastOps
    BY <1>5 DEF JoinInvited, At, LastOps
  <2> DEFINE mine == {i \in DOMAIN temps : Pending(temps[i]) /\ temps[i].email = c.name}
             m == Cardinality(mine)
             k(codes) == [i \in 1..(2 * m) |-> applyUserInvite(codes[(i + 1) \div 2])[2 - (i % 2)]]
  <2>2. PICK codes : codes \in SetToSeqs(mine) /\ Then(p, k(codes))
    BY <1>5 DEF JoinInvited
  <2>3. m \in Nat
    <3>1. PICK T : temps \in Seq(T)
      BY DEF TempsRight
    <3>2. DOMAIN temps = 1..Len(temps) /\ Len(temps) \in Nat
      BY <3>1
    <3>3. IsFiniteSet(DOMAIN temps)
      BY <3>2, FS_Interval
    <3>4. mine \in SUBSET DOMAIN temps
      OBVIOUS
    <3> HIDE DEF mine
    <3> QED BY <3>3, <3>4, FS_Subset, FS_CardinalityType
  <2> HIDE DEF mine, m, c
  <2>4. /\ \E C : k(codes) \in Seq(C)
        /\ Shape(k(codes)) /\ ~ Ending(k(codes))
        /\ \A i \in 1..Len(k(codes)) : k(codes)[i].op \in {"AddOrgUser", "UpdateTempUserStatus"}
    BY <2>3, JoinList
  <2> HIDE DEF k
  <2>5. PICK C : k(codes) \in Seq(C)
    BY <2>4
  <2>6. k(codes) = <<>> \/ Head(k(codes)).op \notin {"Commit", "AddApiKey"}
    <3> SUFFICES ASSUME k(codes) # <<>> PROVE Head(k(codes)).op \notin {"Commit", "AddApiKey"}
      OBVIOUS
    <3>1. Len(k(codes)) \in Nat \ {0} /\ Head(k(codes)) = k(codes)[1]
      BY <2>5, EmptySeq, LenProperties, HeadTailProperties
    <3> QED BY <3>1, <2>4
  <2> QED BY <2>1, <2>2, <2>4, <2>5, <2>6, LastStarts DEF c
<1>6. CASE ldapLogin(p) \/ authProxy(p)
  <2>1. todo[p] # <<>> /\ c.op \in LastOps
    BY <1>6 DEF ldapLogin, authProxy, At, LastOps
  <2> DEFINE n == c.name
  <2>2. \/ Fail(p) \/ Then(p, <<>>) \/ Then(p, SyncCmds(n))
        \/ \E d : d.op = "CreateUser" /\ (Then(p, <<d>> \o SyncCmds(n)) \/ Then(p, <<d>> \o <<>>))
    <3> DEFINE d1 == CreateUserCmd(n, FALSE, "Viewer")
               d2 == CreateUserCmd(n, TRUE, NoRole)
    <3>1. d1.op = "CreateUser" /\ d2.op = "CreateUser"
      BY DEF CreateUserCmd
    <3>2. ldapLogin(p) => Fail(p) \/ Then(p, SyncCmds(n)) \/ Then(p, <<d1>> \o SyncCmds(n))
      BY DEF ldapLogin, SyncCmds
    <3>3. authProxy(p) => Then(p, <<>>) \/ Then(p, SyncCmds(n))
                          \/ Then(p, <<d2>> \o SyncCmds(n)) \/ Then(p, <<d2>> \o <<>>)
      BY DEF authProxy, SyncCmds
    <3> HIDE DEF d1, d2, n
    <3> QED BY <1>6, <3>1, <3>2, <3>3
  <2> HIDE DEF n, c
  <2>3. CASE Fail(p) \/ Then(p, <<>>)
    BY <2>1, <2>3, DropsOrFails DEF Done, c, LastOps, ReplacedOps
  <2>4. CASE Then(p, SyncCmds(n))
    <3>1. PICK d : d = [op |-> "CreateUser"]
      OBVIOUS
    <3>2. d.op = "CreateUser"
      BY <3>1
    <3>3. PICK C : SyncCmds(n) \in Seq(C)
      BY <3>2, LoginLists
    <3>4. Shape(SyncCmds(n)) /\ Head(SyncCmds(n)).op = "SyncOrgRoles"
      BY <3>2, LoginLists
    <3> QED BY <2>1, <2>4, <3>3, <3>4, LastStarts DEF c
  <2>5. ASSUME NEW d, d.op = "CreateUser", Then(p, <<d>> \o SyncCmds(n)) \/ Then(p, <<d>> \o <<>>)
        PROVE  Lists' /\ Starts(p)
    <3> DEFINE j == <<d>> \o SyncCmds(n)
               k == <<d>> \o <<>>
    <3>1. PICK C : j \in Seq(C) /\ k \in Seq(C)
      BY <2>5, LoginLists
    <3>2. Shape(j) /\ Shape(k) /\ Head(j) = d /\ Head(k) = d
      BY <2>5, LoginLists
    <3>3. Then(p, j) \/ Then(p, k)
      BY <2>5
    <3> HIDE DEF j, k
    <3> QED BY <2>1, <2>5, <3>1, <3>2, <3>3, LastStarts DEF c
  <2> QED BY <2>2, <2>3, <2>4, <2>5
<1>7. CASE LoggedIn(p)
  BY <1>7, DropsOrFails DEF LoggedIn, At, ReplacedOps
<1>8. CASE OAuthLogin(p)
  <2>1. todo[p] # <<>> /\ c.op \in LastOps
    BY <1>8 DEF OAuthLogin, At, LastOps
  <2> DEFINE a == [op |-> "Quota", target |-> "user", org |-> 0]
             b == CreateUserCmd(c.name, FALSE, c.role)
             k == <<a, b>>
  <2>2. Done(p) \/ Then(p, k)
    BY <1>8 DEF OAuthLogin
  <2>3. Plain(a) /\ a.op = "Quota" /\ b.op = "CreateUser"
    BY DEF Plain, LastOps, CreateUserCmd
  <2> HIDE DEF a, b, c
  <2>4. k \in Seq({a, b}) /\ Shape(k) /\ ~ Ending(k)
    BY <2>3, TwoCommands
  <2>5. Head(k) = a
    OBVIOUS
  <2> HIDE DEF k
  <2>6. CASE Then(p, k)
    BY <2>1, <2>3, <2>4, <2>5, <2>6, LastStarts DEF c
  <2> QED BY <2>1, <2>2, <2>6, DropsOrFails DEF c, LastOps, ReplacedOps
<1>9. CASE SyncOrgRoles(p)
  BY <1>9, SyncLists
<1> QED BY <1>1, <1>2, <1>3, <1>4, <1>5, <1>6, <1>7, <1>8, <1>9 DEF Handler

\* Rows of users that do not exist yet are empty.
TablesRight ==
  /\ orgs \subseteq OrgIds /\ lastOrg \in Nat /\ lastUser \in UserIds
  /\ DOMAIN users = UserIds
  /\ DOMAIN members = OrgIds /\ \A o \in OrgIds : DOMAIN members[o] = UserIds
  /\ \A u \in UserIds : u > lastUser => users[u] = NoUser /\ \A o \in OrgIds : members[o][u] = NoRole

LEMMA Known ==
  ASSUME TablesRight, NEW u \in UserIds, Exists(u) \/ users[u].admin
  PROVE  u \in 1..lastUser
<1>1. ~ NoUser.admin
  BY DEF NoUser
<1>2. users[u] # NoUser
  BY <1>1, Zenon DEF Exists
<1> QED BY <1>2 DEF TablesRight, UserIds

Arrived(p) ==
  /\ todo[p] = <<>> /\ \E u \in 1..lastUser : who' = [who EXCEPT ![p] = u]
  /\ moved' = moved \ {p}
  /\ UNCHANGED <<tables, conf>>

\* Requests begin with one or two commands.
LEMMA BeginsOne ==
  ASSUME Lists, NEW p \in Slots, NEW u \in 1..lastUser, NEW c, Begin(p, u, <<c>>),
         c.op \notin {"SyncOrgRoles", "LoggedIn", "Commit", "AddApiKey"},
         c.op = "UpdateOrgQuota" => c.limit \in Int
  PROVE  Lists' /\ Starts(p) /\ Arrived(p)
<1> DEFINE k == <<c>>
<1>1. k \in Seq({c}) /\ Shape(k)
  BY OneCommand
<1>2. Head(k) = c /\ ~ Ending(k)
  BY DEF Ending
<1>3. todo' = [todo EXCEPT ![p] = k]
  BY DEF Begin
<1>4. Arrived(p)
  BY DEF Begin, Arrived
<1> HIDE DEF k
<1> QED BY <1>1, <1>2, <1>3, <1>4, Replaced DEF Starts

LEMMA BeginsTwo ==
  ASSUME Lists, NEW p \in Slots, NEW u \in 1..lastUser, NEW b, NEW c, Begin(p, u, <<b, c>>), Plain(b),
         c.op \notin {"Commit", "UpdateOrgQuota", "SyncOrgRoles", "LoggedIn"},
         c.op = "AddApiKey" => b.op = "Quota" /\ b.target = "api_key" /\ b.org = c.org,
         b.op = "Quota"
  PROVE  Lists' /\ Starts(p) /\ Arrived(p)
<1> DEFINE k == <<b, c>>
<1>1. k \in Seq({b, c}) /\ Shape(k) /\ ~ Ending(k)
  BY TwoCommands
<1>2. Head(k) = b
  OBVIOUS
<1>3. todo' = [todo EXCEPT ![p] = k]
  BY DEF Begin
<1>4. Arrived(p)
  BY DEF Begin, Arrived
<1> HIDE DEF k
<1> QED BY <1>1, <1>2, <1>3, <1>4, Replaced DEF Starts

LEMMA QuotaFirst ==
  ASSUME NEW target, NEW o
  PROVE  Plain(QuotaCmd(target, o)) /\ QuotaCmd(target, o).op = "Quota"
         /\ QuotaCmd(target, o).target = target /\ QuotaCmd(target, o).org = o
BY DEF QuotaCmd, Plain, LastOps

LEMMA ArrivalLists ==
  ASSUME Lists, TablesRight, NEW p \in Slots, Arrival(p)
  PROVE  Lists' /\ Starts(p) /\ Arrived(p)
<1>1. CASE OrgAdminRequest(p)
  <2>1. PICK w \in 1..lastUser :
          LET o == users[w].org IN
          \/ \E n \in Names, role \in Roles, op \in {"addOrgUserHelper", "AddOrgInvite"} :
               Begin(p, w, <<QuotaCmd("user", o), [op |-> op, name |-> n, org |-> o, role |-> role]>>)
          \/ \E v \in 1..lastUser, role \in Roles :
               Begin(p, v, <<[op |-> "UpdateOrgUser", org |-> o, role |-> role]>>)
          \/ \E v \in 1..lastUser : Begin(p, v, <<[op |-> "RemoveOrgUser", org |-> o]>>)
          \/ \E code \in DOMAIN temps : Begin(p, w, <<StatusCmd(code, "Revoked")>>)
          \/ \E k \in KeyNames :
               Begin(p, w, <<QuotaCmd("api_key", o), [op |-> "AddApiKey", org |-> o, key |-> k]>>)
          \/ \E k \in KeyNames : Begin(p, w, <<[op |-> "DeleteApiKey", org |-> o, key |-> k]>>)
    BY <1>1, Known DEF OrgAdminRequest
  <2> DEFINE o == users[w].org
  <2>2. CASE \E n \in Names, role \in Roles, op \in {"addOrgUserHelper", "AddOrgInvite"} :
               Begin(p, w, <<QuotaCmd("user", o), [op |-> op, name |-> n, org |-> o, role |-> role]>>)
    <3>1. PICK n \in Names, role \in Roles, op \in {"addOrgUserHelper", "AddOrgInvite"} :
               Begin(p, w, <<QuotaCmd("user", o), [op |-> op, name |-> n, org |-> o, role |-> role]>>)
      BY <2>2
    <3> DEFINE c == [op |-> op, name |-> n, org |-> o, role |-> role]
               b == QuotaCmd("user", o)
    <3>2. c.op \in {"addOrgUserHelper", "AddOrgInvite"} /\ Begin(p, w, <<b, c>>)
      BY <3>1
    <3>3. Plain(b) /\ b.op = "Quota"
      BY QuotaFirst
    <3> HIDE DEF b, c
    <3> QED BY <3>2, <3>3, BeginsTwo
  <2>3. CASE \E v \in 1..lastUser, role \in Roles :
               Begin(p, v, <<[op |-> "UpdateOrgUser", org |-> o, role |-> role]>>)
    <3>1. PICK v \in 1..lastUser, role \in Roles :
               Begin(p, v, <<[op |-> "UpdateOrgUser", org |-> o, role |-> role]>>)
      BY <2>3
    <3> DEFINE c == [op |-> "UpdateOrgUser", org |-> o, role |-> role]
    <3>2. c.op = "UpdateOrgUser" /\ Begin(p, v, <<c>>)
      BY <3>1
    <3> HIDE DEF c
    <3> QED BY <3>2, BeginsOne
  <2>4. CASE \E v \in 1..lastUser : Begin(p, v, <<[op |-> "RemoveOrgUser", org |-> o]>>)
    <3> DEFINE c == [op |-> "RemoveOrgUser", org |-> o]
    <3>1. PICK v \in 1..lastUser : Begin(p, v, <<c>>)
      BY <2>4
    <3>2. c.op = "RemoveOrgUser"
      OBVIOUS
    <3> HIDE DEF c
    <3> QED BY <3>1, <3>2, BeginsOne
  <2>5. CASE \E code \in DOMAIN temps : Begin(p, w, <<StatusCmd(code, "Revoked")>>)
    <3>1. PICK code \in DOMAIN temps : Begin(p, w, <<StatusCmd(code, "Revoked")>>)
      BY <2>5
    <3>2. StatusCmd(code, "Revoked").op = "UpdateTempUserStatus"
      BY DEF StatusCmd
    <3> QED BY <3>1, <3>2, BeginsOne
  <2>6. CASE \E k \in KeyNames :
               Begin(p, w, <<QuotaCmd("api_key", o), [op |-> "AddApiKey", org |-> o, key |-> k]>>)
    <3>1. PICK k \in KeyNames :
               Begin(p, w, <<QuotaCmd("api_key", o), [op |-> "AddApiKey", org |-> o, key |-> k]>>)
      BY <2>6
    <3> DEFINE c == [op |-> "AddApiKey", org |-> o, key |-> k]
               b == QuotaCmd("api_key", o)
    <3>2. c.op = "AddApiKey" /\ c.org = o /\ Begin(p, w, <<b, c>>)
      BY <3>1
    <3>3. Plain(b) /\ b.op = "Quota" /\ b.target = "api_key" /\ b.org = o
      BY QuotaFirst
    <3> HIDE DEF b, c, o
    <3> QED BY <3>2, <3>3, BeginsTwo
  <2>7. CASE \E k \in KeyNames : Begin(p, w, <<[op |-> "DeleteApiKey", org |-> o, key |-> k]>>)
    <3>1. PICK k \in KeyNames : Begin(p, w, <<[op |-> "DeleteApiKey", org |-> o, key |-> k]>>)
      BY <2>7
    <3> DEFINE c == [op |-> "DeleteApiKey", org |-> o, key |-> k]
    <3>2. c.op = "DeleteApiKey" /\ Begin(p, w, <<c>>)
      BY <3>1
    <3> HIDE DEF c
    <3> QED BY <3>2, BeginsOne
  <2> QED BY <2>1, <2>2, <2>3, <2>4, <2>5, <2>6, <2>7
<1>2. CASE UserRequest(p)
  <2>1. PICK w \in 1..lastUser : \/ Begin(p, w, <<Cmd("CreateOrg")>>)
                            \/ \E o \in OrgIds : Begin(p, w, <<[op |-> "SetUsingOrg", org |-> o]>>)
    BY <1>2, Known DEF UserRequest
  <2>2. CASE Begin(p, w, <<Cmd("CreateOrg")>>)
    <3>1. Cmd("CreateOrg").op = "CreateOrg"
      BY DEF Cmd
    <3> QED BY <2>2, <3>1, BeginsOne
  <2>3. CASE \E o \in OrgIds : Begin(p, w, <<[op |-> "SetUsingOrg", org |-> o]>>)
    <3>1. PICK o \in OrgIds : Begin(p, w, <<[op |-> "SetUsingOrg", org |-> o]>>)
      BY <2>3
    <3> DEFINE c == [op |-> "SetUsingOrg", org |-> o]
    <3>2. c.op = "SetUsingOrg" /\ Begin(p, w, <<c>>)
      BY <3>1
    <3> HIDE DEF c
    <3> QED BY <3>2, BeginsOne
  <2> QED BY <2>1, <2>2, <2>3
<1>3. CASE GrafanaAdminRequest(p)
  <2>1. PICK w \in 1..lastUser :
          \/ \E o \in OrgIds : Begin(p, w, <<[op |-> "DeleteOrg", org |-> o]>>)
          \/ \E n \in Names : Begin(p, w, <<CreateUserCmd(n, FALSE, "Viewer")>>)
          \/ \E v \in 1..lastUser : Begin(p, v, <<Cmd("DeleteUser")>>)
          \/ \E v \in 1..lastUser, b \in BOOLEAN :
               Begin(p, v, <<[op |-> "UpdateUserPermissions", admin |-> b]>>)
          \/ \E o \in OrgIds, l \in Limits :
               Begin(p, w, <<[op |-> "UpdateOrgQuota", org |-> o, limit |-> l]>>)
    BY <1>3, Known DEF GrafanaAdminRequest
  <2>2. CASE \E o \in OrgIds : Begin(p, w, <<[op |-> "DeleteOrg", org |-> o]>>)
    <3>1. PICK o \in OrgIds : Begin(p, w, <<[op |-> "DeleteOrg", org |-> o]>>)
      BY <2>2
    <3> DEFINE c == [op |-> "DeleteOrg", org |-> o]
    <3>2. c.op = "DeleteOrg" /\ Begin(p, w, <<c>>)
      BY <3>1
    <3> HIDE DEF c
    <3> QED BY <3>2, BeginsOne
  <2>3. CASE \E n \in Names : Begin(p, w, <<CreateUserCmd(n, FALSE, "Viewer")>>)
    <3>1. PICK n \in Names : Begin(p, w, <<CreateUserCmd(n, FALSE, "Viewer")>>)
      BY <2>3
    <3>2. CreateUserCmd(n, FALSE, "Viewer").op = "CreateUser"
      BY DEF CreateUserCmd
    <3> QED BY <3>1, <3>2, BeginsOne
  <2>4. CASE \E v \in 1..lastUser : Begin(p, v, <<Cmd("DeleteUser")>>)
    <3>1. PICK v \in 1..lastUser : Begin(p, v, <<Cmd("DeleteUser")>>)
      BY <2>4
    <3>2. Cmd("DeleteUser").op = "DeleteUser"
      BY DEF Cmd
    <3> QED BY <3>1, <3>2, BeginsOne
  <2>5. CASE \E v \in 1..lastUser, b \in BOOLEAN :
               Begin(p, v, <<[op |-> "UpdateUserPermissions", admin |-> b]>>)
    <3>1. PICK v \in 1..lastUser, b \in BOOLEAN :
               Begin(p, v, <<[op |-> "UpdateUserPermissions", admin |-> b]>>)
      BY <2>5
    <3> DEFINE c == [op |-> "UpdateUserPermissions", admin |-> b]
    <3>2. c.op = "UpdateUserPermissions" /\ Begin(p, v, <<c>>)
      BY <3>1
    <3> HIDE DEF c
    <3> QED BY <3>2, BeginsOne
  <2>6. CASE \E o \in OrgIds, l \in Limits :
               Begin(p, w, <<[op |-> "UpdateOrgQuota", org |-> o, limit |-> l]>>)
    <3>1. PICK o \in OrgIds, l \in Limits :
               Begin(p, w, <<[op |-> "UpdateOrgQuota", org |-> o, limit |-> l]>>)
      BY <2>6
    <3> DEFINE c == [op |-> "UpdateOrgQuota", org |-> o, limit |-> l]
    <3>2. c.op = "UpdateOrgQuota" /\ c.limit \in Int /\ Begin(p, w, <<c>>)
      BY <3>1, BoundsAssumption
    <3> HIDE DEF c
    <3> QED BY <3>2, BeginsOne
  <2> QED BY <2>1, <2>2, <2>3, <2>4, <2>5, <2>6
<1>4. CASE AnonymousRequest(p)
  <2>0. 1 \in 1..lastUser
    BY DEF TablesRight, UserIds
  <2>1. PICK n \in Names :
          \/ Begin(p, 1, <<QuotaCmd("user", 0), [op |-> "SignUp", name |-> n]>>)
          \/ \E code \in DOMAIN temps, op \in {"SignUpStep2", "CompleteInvite"} :
               Begin(p, 1, <<[op |-> op, name |-> n, code |-> code]>>)
          \/ Begin(p, 1, <<[op |-> "ldapLogin", name |-> n]>>)
          \/ \E b \in BOOLEAN : Begin(p, 1, <<[op |-> "authProxy", name |-> n, expired |-> b]>>)
          \/ \E role \in Roles : Begin(p, 1, <<[op |-> "OAuthLogin", name |-> n, role |-> role]>>)
    BY <1>4 DEF AnonymousRequest
  <2>2. CASE Begin(p, 1, <<QuotaCmd("user", 0), [op |-> "SignUp", name |-> n]>>)
    <3> DEFINE c == [op |-> "SignUp", name |-> n]
               b == QuotaCmd("user", 0)
    <3>1. c.op = "SignUp" /\ Begin(p, 1, <<b, c>>)
      BY <2>2
    <3>2. Plain(b) /\ b.op = "Quota"
      BY QuotaFirst
    <3> HIDE DEF b, c
    <3> QED BY <2>0, <3>1, <3>2, BeginsTwo
  <2>3. CASE \E code \in DOMAIN temps, op \in {"SignUpStep2", "CompleteInvite"} :
               Begin(p, 1, <<[op |-> op, name |-> n, code |-> code]>>)
    <3>1. PICK code \in DOMAIN temps, op \in {"SignUpStep2", "CompleteInvite"} :
               Begin(p, 1, <<[op |-> op, name |-> n, code |-> code]>>)
      BY <2>3
    <3> DEFINE c == [op |-> op, name |-> n, code |-> code]
    <3>2. c.op \in {"SignUpStep2", "CompleteInvite"} /\ Begin(p, 1, <<c>>)
      BY <3>1
    <3> HIDE DEF c
    <3> QED BY <2>0, <3>2, BeginsOne
  <2>4. CASE Begin(p, 1, <<[op |-> "ldapLogin", name |-> n]>>)
    <3> DEFINE c == [op |-> "ldapLogin", name |-> n]
    <3>1. c.op = "ldapLogin" /\ Begin(p, 1, <<c>>)
      BY <2>4
    <3> HIDE DEF c
    <3> QED BY <2>0, <3>1, BeginsOne
  <2>5. CASE \E b \in BOOLEAN : Begin(p, 1, <<[op |-> "authProxy", name |-> n, expired |-> b]>>)
    <3>1. PICK b \in BOOLEAN : Begin(p, 1, <<[op |-> "authProxy", name |-> n, expired |-> b]>>)
      BY <2>5
    <3> DEFINE c == [op |-> "authProxy", name |-> n, expired |-> b]
    <3>2. c.op = "authProxy" /\ Begin(p, 1, <<c>>)
      BY <3>1
    <3> HIDE DEF c
    <3> QED BY <2>0, <3>2, BeginsOne
  <2>6. CASE \E role \in Roles : Begin(p, 1, <<[op |-> "OAuthLogin", name |-> n, role |-> role]>>)
    <3>1. PICK role \in Roles : Begin(p, 1, <<[op |-> "OAuthLogin", name |-> n, role |-> role]>>)
      BY <2>6
    <3> DEFINE c == [op |-> "OAuthLogin", name |-> n, role |-> role]
    <3>2. c.op = "OAuthLogin" /\ Begin(p, 1, <<c>>)
      BY <3>1
    <3> HIDE DEF c
    <3> QED BY <2>0, <3>2, BeginsOne
  <2> QED BY <2>1, <2>2, <2>3, <2>4, <2>5, <2>6
<1> QED BY <1>1, <1>2, <1>3, <1>4 DEF Arrival

-----------------------------------------------------------------------------
(* The tables and the users of the requests.                               *)

WhoRight == who \in [Slots -> 1..lastUser]
Base == TablesRight /\ WhoRight /\ TempsRight /\ Lists

LEMMA HandlerFrame ==
  ASSUME WhoRight, TablesRight, NEW p \in Slots, Handler(p)
  PROVE  /\ UNCHANGED <<tables, conf>>
         /\ who' = who \/ \E u \in 1..lastUser : who' = [who EXCEPT ![p] = u]
         /\ moved' = IF SyncOrgRoles(p) THEN moved \ {p} ELSE moved
<1>1. ASSUME NEW n, ByLogin(n) # {}, Found(p, n)
      PROVE  \E u \in 1..lastUser : who' = [who EXCEPT ![p] = u]
  <2> DEFINE u == CHOOSE v \in ByLogin(n) : TRUE
  <2>1. u \in ByLogin(n)
    BY <1>1
  <2>2. who' = [who EXCEPT ![p] = u]
    BY <1>1 DEF Found
  <2> HIDE DEF u
  <2>3. u \in 1..lastUser
    BY <2>1, Known DEF ByLogin
  <2> QED BY <2>2, <2>3
<1>2. UNCHANGED <<tables, conf>>
  BY DEF Handler, Quota, addOrgUserHelper, AddOrgInvite, CompleteInvite, SignUp, SignUpStep2,
         JoinInvited, ldapLogin, authProxy, SyncOrgRoles, LoggedIn, OAuthLogin
<1>3. moved' = IF SyncOrgRoles(p) THEN moved \ {p} ELSE moved
  <2>1. CASE SyncOrgRoles(p)
    BY <2>1 DEF SyncOrgRoles
  <2>2. CASE ~ SyncOrgRoles(p)
    BY <2>2 DEF Handler, Quota, addOrgUserHelper, AddOrgInvite, CompleteInvite, SignUp,
         SignUpStep2, JoinInvited, ldapLogin, authProxy, LoggedIn, OAuthLogin
  <2> QED BY <2>1, <2>2
<1>4. who' = who \/ \E u \in 1..lastUser : who' = [who EXCEPT ![p] = u]
  <2>1. CASE addOrgUserHelper(p)
    BY <1>1, <2>1 DEF addOrgUserHelper
  <2>2. CASE AddOrgInvite(p)
    BY <1>1, <2>2 DEF AddOrgInvite
  <2>3. CASE ldapLogin(p)
    BY <1>1, <2>3 DEF ldapLogin
  <2>4. CASE authProxy(p)
    BY <1>1, <2>4 DEF authProxy
  <2>5. CASE ~ (addOrgUserHelper(p) \/ AddOrgInvite(p) \/ ldapLogin(p) \/ authProxy(p))
    BY <2>5 DEF Handler, Quota, CompleteInvite, SignUp, SignUpStep2, JoinInvited, SyncOrgRoles,
                LoggedIn, OAuthLogin
  <2> QED BY <2>1, <2>2, <2>3, <2>4, <2>5
<1> QED BY <1>2, <1>3, <1>4

LEMMA TempsAre ==
  ASSUME NEW n \in Nat, temps' = [i \in 1..n |-> temps'[i]]
  PROVE  TempsRight'
<1> DEFINE T == {temps'[i] : i \in 1..n}
<1>1. temps' \in [1..n -> T]
  OBVIOUS
<1> HIDE DEF T
<1>2. temps' \in Seq(T)
  BY <1>1, FunctionIsSeq
<1> QED BY <1>2 DEF TempsRight

\* What a step of the store does to the rows of users and members.
LEMMA StoreTables ==
  ASSUME Base, NEW p \in Slots, Store(p)
  PROVE  TablesRight' /\ WhoRight' /\ TempsRight'
<1> USE DEF UserIds, OrgIds
<1>0. /\ orgs \subseteq OrgIds /\ lastOrg \in Nat /\ lastUser \in UserIds
      /\ DOMAIN users = UserIds /\ DOMAIN members = OrgIds /\ \A o \in OrgIds : DOMAIN members[o] = UserIds
      /\ \A u \in UserIds : u > lastUser => users[u] = NoUser
      /\ \A u \in UserIds : u > lastUser => \A o \in OrgIds : members[o][u] = NoRole
      /\ who \in [Slots -> 1..lastUser] /\ MaxUsers \in Nat /\ MaxOrgs \in Nat
  BY BoundsAssumption DEF Base, TablesRight, WhoRight
<1>1. CASE CreateUser(p)
  <2> DEFINE c == Head(todo[p])
             o == NewUsersOrg(c)
             u == lastUser + 1
  <2>1. TempsRight'
    BY <1>1 DEF CreateUser, tables, Base, TempsRight
  <2>2. CASE UNCHANGED <<tables, who>>
    BY <1>0, <2>1, <2>2 DEF tables, TablesRight, WhoRight
  <2>3. CASE ~ UNCHANGED <<tables, who>>
    <3>1. /\ u \in UserIds /\ o <= MaxOrgs
          /\ users' = [users EXCEPT ![u] = [login |-> c.name, org |-> o, admin |-> FALSE]]
          /\ lastUser' = u
          /\ who' = [who EXCEPT ![p] = u]
          /\ IF o = 0 THEN UNCHANGED <<orgs, lastOrg, named, members>>
             ELSE /\ orgs' = orgs \cup {o}
                  /\ lastOrg' = IF o > lastOrg THEN o ELSE lastOrg
                  /\ named' = IF o > 1 THEN [named EXCEPT ![o] = c.name] ELSE named
                  /\ members' = [members EXCEPT ![o][u] = NewUsersRole(c)]
      BY <1>1, <2>3 DEF CreateUser
    <3>2. o \in Nat
      BY <1>0 DEF NewUsersOrg
    <3> HIDE DEF o, c
    <3>3. o # 0 => o \in OrgIds
      BY <1>0, <3>1, <3>2
    <3>4. WhoRight'
      BY <1>0, <3>1 DEF WhoRight
    <3>5. orgs' \subseteq OrgIds /\ lastOrg' \in Nat /\ lastUser' \in UserIds /\ DOMAIN users' = UserIds
      BY <1>0, <3>1, <3>2, <3>3
    <3>6. DOMAIN members' = OrgIds /\ \A x \in OrgIds : DOMAIN members'[x] = UserIds
      BY <1>0, <3>1, <3>2, <3>3
    <3>7. ASSUME NEW v \in UserIds, v > lastUser' PROVE users'[v] = NoUser
      <4>1. v > lastUser /\ v # u
        BY <1>0, <3>1, <3>7
      <4> QED BY <1>0, <3>1, <4>1
    <3>8. ASSUME NEW v \in UserIds, v > lastUser', NEW x \in OrgIds PROVE members'[x][v] = NoRole
      <4>1. v > lastUser /\ v # u
        BY <1>0, <3>1, <3>8
      <4>2. CASE o = 0
        BY <1>0, <3>1, <4>1, <4>2
      <4>3. CASE o # 0
        <5>1. members' = [members EXCEPT ![o][u] = NewUsersRole(c)]
          BY <3>1, <4>3
        <5>2. members'[x][v] = members[x][v]
          BY <1>0, <4>1, <5>1
        <5> QED BY <1>0, <4>1, <5>2
      <4> QED BY <4>2, <4>3
    <3> QED BY <2>1, <3>4, <3>5, <3>6, <3>7, <3>8 DEF TablesRight
  <2> QED BY <2>2, <2>3
<1>2. CASE CreateOrg(p)
  <2>1. /\ lastOrg + 1 \in OrgIds /\ lastOrg' = lastOrg + 1 /\ orgs' = orgs \cup {lastOrg'}
        /\ members' = [members EXCEPT ![lastOrg'][who[p]] = "Admin"]
        /\ UNCHANGED <<users, lastUser, temps, who>>
    BY <1>2 DEF CreateOrg
  <2>2. TempsRight' /\ WhoRight'
    BY <2>1 DEF Base, TempsRight, WhoRight
  <2>3. ASSUME NEW v \in UserIds, v > lastUser, NEW x \in OrgIds PROVE members'[x][v] = NoRole
    <3>1. v # who[p]
      BY <1>0, <2>3
    <3> QED BY <1>0, <2>1, <2>3, <3>1
  <2> QED BY <1>0, <2>1, <2>2, <2>3 DEF TablesRight
<1>3. CASE DeleteOrg(p)
  <2> DEFINE o == Head(todo[p]).org
  <2>1. CASE UNCHANGED tables
    BY <1>0, <1>3, <2>1 DEF DeleteOrg, tables, TablesRight, WhoRight, TempsRight, Base
  <2>2. CASE ~ UNCHANGED tables
    <3>1. /\ orgs' = orgs \ {o} /\ o \in orgs
          /\ members' = [members EXCEPT ![o] = [u \in UserIds |-> NoRole]]
          /\ temps' = [i \in DOMAIN temps |->
                         IF temps[i].org = o THEN [temps[i] EXCEPT !.status = "gone"] ELSE temps[i]]
          /\ UNCHANGED <<lastOrg, named, users, lastUser, who>>
      BY <1>3, <2>2 DEF DeleteOrg
    <3>2. TempsRight'
      <4>1. PICK T : temps \in Seq(T)
        BY DEF Base, TempsRight
      <4>2. DOMAIN temps = 1..Len(temps) /\ Len(temps) \in Nat
        BY <4>1
      <4>3. temps' = [i \in 1..Len(temps) |-> temps'[i]]
        BY <3>1, <4>2
      <4> QED BY <4>2, <4>3, TempsAre
    <3>3. TablesRight' /\ WhoRight'
      BY <1>0, <3>1 DEF TablesRight, WhoRight
    <3> QED BY <3>2, <3>3
  <2> QED BY <2>1, <2>2
<1>4. CASE AddOrgUser(p) \/ Commit(p)
  <2>1. PICK o, role : members' = members \/ members' = [members EXCEPT ![o][who[p]] = role]
    BY <1>4 DEF AddOrgUser, Commit
  <2>2. UNCHANGED <<orgs, lastOrg, named, users, lastUser, temps, who>>
    BY <1>4 DEF AddOrgUser, Commit
  <2>3. ASSUME NEW v \in UserIds, v > lastUser, NEW x \in OrgIds PROVE members'[x][v] = NoRole
    <3>1. v # who[p]
      BY <1>0, <2>3
    <3> QED BY <1>0, <2>1, <2>3, <3>1
  <2>4. DOMAIN members' = OrgIds /\ \A x \in OrgIds : DOMAIN members'[x] = UserIds
    BY <1>0, <2>1
  <2> QED BY <1>0, <2>2, <2>3, <2>4 DEF TablesRight, WhoRight, TempsRight, Base
<1>5. CASE DeleteUser(p) \/ UpdateUserPermissions(p) \/ SetOrg(p)
  <2>1. UNCHANGED <<orgs, lastOrg, lastUser, members, temps, who>>
    BY <1>5 DEF DeleteUser, UpdateUserPermissions, SetOrg
  <2>2. \/ users' = users
        \/ \E r : users' = [users EXCEPT ![who[p]] = r]
    BY <1>5 DEF DeleteUser, UpdateUserPermissions, SetOrg
  <2>3. DOMAIN users' = UserIds /\ \A v \in UserIds : v > lastUser => users'[v] = NoUser
    <3>1. \A v \in UserIds : v > lastUser => v # who[p]
      BY <1>0
    <3>2. CASE users' = users
      BY <1>0, <3>2
    <3>3. CASE \E r : users' = [users EXCEPT ![who[p]] = r]
      BY <1>0, <3>1, <3>3
    <3> QED BY <2>2, <3>2, <3>3
  <2> QED BY <1>0, <2>1, <2>3 DEF TablesRight, WhoRight, TempsRight, Base
<1>6. CASE CreateTempUser(p)
  <2>1. PICK row : temps' = Append(temps, row)
    BY <1>6 DEF CreateTempUser
  <2>2. TempsRight'
    <3>1. PICK T : temps \in Seq(T)
      BY DEF Base, TempsRight
    <3>2. temps \in Seq(T \cup {row}) /\ row \in T \cup {row}
      BY <3>1
    <3>3. temps' \in Seq(T \cup {row})
      BY <2>1, <3>2, AppendProperties
    <3> QED BY <3>3 DEF TempsRight
  <2>3. UNCHANGED <<orgs, lastOrg, named, users, lastUser, members, who>>
    BY <1>6 DEF CreateTempUser
  <2> QED BY <1>0, <2>2, <2>3 DEF TablesRight, WhoRight
<1>7. CASE UpdateTempUserStatus(p)
  <2>1. UNCHANGED <<orgs, lastOrg, named, users, lastUser, members, who>>
    BY <1>7 DEF UpdateTempUserStatus
  <2>2. TempsRight'
    <3>1. PICK T : temps \in Seq(T)
      BY DEF Base, TempsRight
    <3>2. DOMAIN temps = 1..Len(temps) /\ Len(temps) \in Nat /\ temps = [i \in 1..Len(temps) |-> temps[i]]
      BY <3>1
    <3>3. temps' = temps \/ \E i, r : temps' = [temps EXCEPT ![i] = r]
      BY <1>7 DEF UpdateTempUserStatus
    <3>4. temps' = [i \in 1..Len(temps) |-> temps'[i]]
      BY <3>2, <3>3
    <3> QED BY <3>2, <3>4, TempsAre
  <2> QED BY <1>0, <2>1, <2>2 DEF TablesRight, WhoRight
<1>8. CASE UNCHANGED <<orgs, lastOrg, users, lastUser, members, temps, who>>
  BY <1>0, <1>8 DEF TablesRight, WhoRight, TempsRight, Base
<1>9. UNCHANGED <<orgs, lastOrg, users, lastUser, members, temps, who>>
      \/ CreateUser(p) \/ CreateOrg(p) \/ DeleteOrg(p) \/ AddOrgUser(p) \/ Commit(p) \/ DeleteUser(p)
      \/ UpdateUserPermissions(p) \/ SetOrg(p) \/ CreateTempUser(p) \/ UpdateTempUserStatus(p)
  BY DEF Store, SetUsingOrg, UpdateOrgUser, RemoveOrgUser, AddApiKey, DeleteApiKey, UpdateOrgQuota, tables
<1> QED BY <1>1, <1>2, <1>3, <1>4, <1>5, <1>6, <1>7, <1>8, <1>9

\* One step of a request, of any kind.
Acts(p) == Store(p) \/ Handler(p) \/ Arrival(p)

LEMMA BaseStep ==
  ASSUME Base, NEW p \in Slots, Acts(p)
  PROVE  /\ Base'
         /\ Drops(p) \/ Starts(p) \/ UpdateOrgUser(p) \/ RemoveOrgUser(p) \/ SyncOrgRoles(p)
         /\ \A q \in Slots \ {p} : todo'[q] = todo[q]
<1> DEFINE Kind == Drops(p) \/ Starts(p) \/ UpdateOrgUser(p) \/ RemoveOrgUser(p) \/ SyncOrgRoles(p)
<1>1. orgs \subseteq OrgIds /\ Lists /\ TablesRight /\ TempsRight /\ WhoRight
  BY DEF Base, TablesRight
<1>5. Base' /\ Kind
  <2>2. CASE Store(p)
    <3>1. Lists' /\ Kind
      BY <1>1, <2>2, StoreLists
    <3>2. TablesRight' /\ WhoRight' /\ TempsRight'
      BY <2>2, StoreTables
    <3> QED BY <3>1, <3>2 DEF Base
  <2>3. CASE Handler(p)
    <3>1. Lists' /\ Kind
      BY <1>1, <2>3, HandlerLists
    <3>2. UNCHANGED <<tables, conf>>
          /\ (who' = who \/ \E u \in 1..lastUser : who' = [who EXCEPT ![p] = u])
      BY <1>1, <2>3, HandlerFrame
    <3> QED BY <1>1, <3>1, <3>2 DEF Base, tables, TablesRight, WhoRight, TempsRight
  <2>4. CASE Arrival(p)
    <3>1. Lists' /\ Starts(p) /\ Arrived(p)
      BY <1>1, <2>4, ArrivalLists
    <3> QED BY <1>1, <3>1 DEF Base, Arrived, tables, TablesRight, WhoRight, TempsRight
  <2> QED BY <2>2, <2>3, <2>4 DEF Acts
<1>6. \A q \in Slots \ {p} : todo'[q] = todo[q]
  <2>1. PICK S : todo \in [Slots -> Seq(S)]
    BY <1>1 DEF Lists
  <2>2. CASE \E cmds : todo' = [todo EXCEPT ![p] = cmds]
    BY <2>1, <2>2
  <2>3. Kind => \E cmds : todo' = [todo EXCEPT ![p] = cmds]
    BY DEF Drops, Starts, UpdateOrgUser, RemoveOrgUser, SyncOrgRoles, ChangesRole, Fail, Then
  <2> QED BY <1>5, <2>2, <2>3
<1> QED BY <1>5, <1>6

\* The other requests: whose rows have changed is marked as moved.
Untouched(q) ==
  /\ todo'[q] = todo[q] /\ who'[q] = who[q]
  /\ todo[q] # <<>> /\ q \notin moved' =>
       q \notin moved /\ orgs' = orgs /\ \A o \in OrgIds : members'[o][who[q]] = members[o][who[q]]

LEMMA Others ==
  ASSUME Base, NEW p \in Slots, Acts(p), NEW q \in Slots \ {p}
  PROVE  Untouched(q)
<1>1. todo'[q] = todo[q]
  BY BaseStep
<1>2. who \in [Slots -> 1..lastUser] /\ TablesRight /\ WhoRight
  BY DEF Base, WhoRight
<1>3. CASE Handler(p)
  <2>1. /\ UNCHANGED <<tables, conf>>
        /\ who' = who \/ \E u \in 1..lastUser : who' = [who EXCEPT ![p] = u]
        /\ moved' = moved \/ moved' = moved \ {p}
    BY <1>2, <1>3, HandlerFrame
  <2> QED BY <1>1, <1>2, <2>1 DEF Untouched, tables
<1>4. CASE Arrival(p)
  <2>1. Arrived(p)
    BY <1>4, ArrivalLists DEF Base
  <2> QED BY <1>1, <1>2, <2>1 DEF Untouched, tables, Arrived
<1>5. CASE Store(p)
  <2>1. CASE CreateUser(p)
    BY <1>1, <1>2, <2>1 DEF CreateUser, MovedAll, Untouched, tables
  <2>2. CASE CreateOrg(p)
    BY <1>1, <1>2, <2>2 DEF CreateOrg, MovedAll, Untouched
  <2>3. CASE DeleteOrg(p)
    BY <1>1, <1>2, <2>3 DEF DeleteOrg, MovedAll, Untouched, tables
  <2>4. CASE AddOrgUser(p) \/ Commit(p)
    <3>1. \/ members' = members /\ moved' = moved
          \/ Moved(p, who[p]) /\ \E o, role : members' = [members EXCEPT ![o][who[p]] = role]
          \/ members' = members /\ Moved(p, who[p])
      <4>1. CASE AddOrgUser(p)
        <5> DEFINE c == Head(todo[p])
        <5>1. \/ members' = members /\ moved' = moved
              \/ members' = [members EXCEPT ![c.org][who[p]] = c.role] /\ Moved(p, who[p])
          BY <4>1 DEF AddOrgUser
        <5> HIDE DEF c
        <5>2. CASE members' = members /\ moved' = moved
          BY <5>2
        <5>3. CASE members' = [members EXCEPT ![c.org][who[p]] = c.role] /\ Moved(p, who[p])
          BY <5>3
        <5> QED BY <5>1, <5>2, <5>3
      <4>2. CASE Commit(p)
        BY <4>2 DEF Commit
      <4> QED BY <2>4, <4>1, <4>2
    <3>2. UNCHANGED <<orgs, who>>
      BY <2>4 DEF AddOrgUser, Commit
    <3>3. CASE members' = members /\ moved' = moved
      BY <1>1, <3>2, <3>3 DEF Untouched
    <3>4. CASE Moved(p, who[p]) /\ \E o, role : members' = [members EXCEPT ![o][who[p]] = role]
      <4> SUFFICES ASSUME todo[q] # <<>>, q \notin moved'
                   PROVE  q \notin moved /\ \A o \in OrgIds : members'[o][who[q]] = members[o][who[q]]
        BY <1>1, <3>2 DEF Untouched
      <4>1. who[q] # who[p] /\ q \notin moved
        BY <3>4 DEF Moved
      <4>2. who[q] \in UserIds
        BY <1>2, BoundsAssumption DEF TablesRight, UserIds
      <4> QED BY <1>2, <3>4, <4>1, <4>2 DEF TablesRight
    <3>5. CASE members' = members /\ Moved(p, who[p])
      BY <1>1, <3>2, <3>5 DEF Untouched, Moved
    <3> QED BY <3>1, <3>3, <3>4, <3>5
  <2>5. CASE ~ (CreateUser(p) \/ CreateOrg(p) \/ DeleteOrg(p) \/ AddOrgUser(p) \/ Commit(p))
    <3>1. UNCHANGED <<orgs, members, who, moved>>
      BY <1>5, <2>5 DEF Store, DeleteUser, UpdateUserPermissions, SetUsingOrg, SetOrg, UpdateOrgUser,
           RemoveOrgUser, CreateTempUser, UpdateTempUserStatus, AddApiKey, DeleteApiKey, UpdateOrgQuota, tables
    <3> QED BY <1>1, <3>1 DEF Untouched
  <2> QED BY <2>1, <2>2, <2>3, <2>4, <2>5
<1> QED BY <1>3, <1>4, <1>5 DEF Acts

-----------------------------------------------------------------------------
(* Where the commands are: what comes next is known from the shape.         *)

\* What dropping a command can bring to the front.
LEMMA Dropped ==
  ASSUME Lists, NEW p \in Slots, Drops(p)
  PROVE  /\ ~ InTx(p)'
         /\ \A o : At(p, "AddApiKey")' /\ Head(todo[p]).org' = o =>
              At(p, "Quota") /\ Head(todo[p]).target = "api_key" /\ Head(todo[p]).org = o
         /\ Ending(todo'[p]) =>
              /\ Ending(todo[p]) /\ Len(todo'[p]) = Len(todo[p]) - 1 /\ Len(todo[p]) \in Nat
              /\ \A i \in 1..Len(todo'[p]) : todo'[p][i] = todo[p][i + 1]
              /\ todo'[p][Len(todo'[p])] = todo[p][Len(todo[p])]
              /\ Head(todo[p]) = todo[p][1] /\ Head(todo'[p]) = todo'[p][1]
              /\ Head(todo[p]).op \in {"CreateUser", "AddOrgUser", "Commit"}
<1> DEFINE l == todo[p]
           t == Tail(l)
<1>1. PICK S : todo \in [Slots -> Seq(S)]
  BY DEF Lists
<1>2. todo'[p] = t /\ l # <<>> /\ Shape(l) /\ l \in Seq(S) /\ Head(l).op \notin ReplacedOps
  BY <1>1 DEF Drops, Lists
<1>3. t \in Seq(S) /\ Len(t) = Len(l) - 1 /\ Len(l) \in Nat \ {0} /\ Head(l) = l[1]
      /\ \A i \in 1..Len(t) : t[i] = l[i + 1]
  BY <1>2, HeadTailProperties, EmptySeq, LenProperties
<1> HIDE DEF l, t
<1>4. ASSUME t # <<>> PROVE Len(t) \in Nat \ {0} /\ Head(t) = t[1] /\ Head(t) = l[2] /\ 2 \in 1..Len(l) /\ ShapeAt(l, 2)
  <2>1. Len(t) \in Nat \ {0} /\ Head(t) = t[1]
    BY <1>3, <1>4, HeadTailProperties, EmptySeq, LenProperties
  <2>2. 2 \in 1..Len(l) /\ t[1] = l[1 + 1]
    BY <2>1, <1>3
  <2> QED BY <2>1, <2>2, <1>2 DEF Shape
<1>5. ~ InTx(p)'
  <2>1. t # <<>> => Head(t).op # "Commit"
    BY <1>4 DEF ShapeAt
  <2> QED BY <2>1, <1>2 DEF InTx, At
<1>6. ASSUME t # <<>>, Head(t).op = "AddApiKey"
      PROVE  Head(l).op = "Quota" /\ Head(l).target = "api_key" /\ Head(l).org = Head(t).org
  <2>1. l[2].op = "AddApiKey" /\ 2 > 1 /\ 2 - 1 = 1
    BY <1>4, <1>6
  <2>2. l[2 - 1].op = "Quota" /\ l[2 - 1].target = "api_key" /\ l[2 - 1].org = l[2].org
    BY <1>4, <1>6, <2>1 DEF ShapeAt
  <2> QED BY <2>1, <2>2, <1>3, <1>4, <1>6
<1>7. ASSUME Ending(t)
      PROVE  /\ Ending(l) /\ t[Len(t)] = l[Len(l)] /\ Head(t) = t[1]
             /\ Head(l).op \in {"CreateUser", "AddOrgUser", "Commit"}
  <2>1. t # <<>> /\ Len(t) \in Nat \ {0} /\ Head(t) = t[1]
    BY <1>4, <1>7 DEF Ending
  <2>2. Len(t) \in 1..Len(t) /\ Len(t) + 1 = Len(l)
    BY <2>1, <1>3
  <2>3. t[Len(t)] = l[Len(l)]
    BY <2>2, <1>3
  <2>4. Ending(l)
    BY <2>3, <1>2, <1>7 DEF Ending
  <2>5. 1 \in 1..Len(l) /\ 1 < Len(l)
    BY <2>1, <2>2, <1>3
  <2>6. LoginShape(l, 1)
    BY <2>4, <2>5, <1>2 DEF Shape, ShapeAt
  <2>7. Head(l).op \in SyncOps \cup {"CreateUser", "SyncOrgRoles"}
    BY <2>5, <2>6, <1>3 DEF LoginShape
  <2> QED BY <2>1, <2>3, <2>4, <2>7, <1>2 DEF SyncOps, ReplacedOps
<1>8. \A o : At(p, "AddApiKey")' /\ Head(todo[p]).org' = o =>
        At(p, "Quota") /\ Head(todo[p]).target = "api_key" /\ Head(todo[p]).org = o
  BY <1>2, <1>6 DEF At, l
<1>9. l = todo[p]
  BY DEF l
<1> QED BY <1>2, <1>3, <1>5, <1>7, <1>8, <1>9

\* What a new list has in front.
LEMMA Started ==
  ASSUME Lists, NEW p \in Slots, Starts(p)
  PROVE  /\ ~ InTx(p)' /\ ~ At(p, "AddApiKey")'
         /\ Ending(todo'[p]) => Head(todo'[p]).op \in {"CreateUser", "SyncOrgRoles"}
<1>1. PICK cmds : /\ todo' = [todo EXCEPT ![p] = cmds]
                  /\ cmds = <<>> \/ Head(cmds).op \notin {"Commit", "AddApiKey"}
                  /\ Ending(cmds) => Head(cmds).op \in {"CreateUser", "SyncOrgRoles"}
  BY DEF Starts
<1>2. PICK S : todo \in [Slots -> Seq(S)]
  BY DEF Lists
<1>3. todo'[p] = cmds
  BY <1>1, <1>2
<1> QED BY <1>1, <1>3 DEF InTx, At

-----------------------------------------------------------------------------
(* The last administrator.                                                  *)

\* What a transaction that has written may count on until it commits.
TxRight(p) ==
  InTx(p) =>
    LET c == Head(todo[p]) IN
    /\ c.role = "Admin" \/ \E u \in c.saw : u # who[p]
    /\ conf.serial => c.saw = Admins(c.org) /\ \A q \in Slots \ {p} : ~ InTx(q)
    /\ p \notin moved /\ c.role # NoRole /\ c.org \in OrgIds => members[c.org][who[p]] # NoRole

\* UpdateOrgUser and RemoveOrgUser: an error, or a commit that follows.
LEMMA Writes ==
  ASSUME Base, NEW p \in Slots, UpdateOrgUser(p) \/ RemoveOrgUser(p)
  PROVE  /\ UNCHANGED <<tables, who, moved, conf>> /\ Unlocked(p)
         /\ At(p, "UpdateOrgUser") \/ At(p, "RemoveOrgUser")
         /\ \/ todo'[p] = <<>>
            \/ LET l == todo[p] k == todo'[p] c == Head(k) IN
               /\ k # <<>> /\ Len(k) = Len(l) /\ Len(l) \in Nat \ {0} /\ Head(l) = l[1]
               /\ c = k[1] /\ c.op = "Commit" /\ c.org = Head(l).org
               /\ c.role = RoleOf(Head(l)) /\ c.saw = Admins(c.org)
               /\ \A i \in 2..Len(l) : k[i] = l[i]
               /\ c.role = "Admin" \/ \E u \in c.saw : u # who[p]
               /\ c.role # NoRole => members[c.org][who[p]] # NoRole
<1> DEFINE l == todo[p]
           o == Head(l).org
           role == RoleOf(Head(l))
           c == [op |-> "Commit", org |-> o, role |-> role, saw |-> Admins(o)]
<1>1. PICK S : todo \in [Slots -> Seq(S)]
  BY DEF Base, Lists
<1>2. /\ UNCHANGED <<tables, who, moved, conf>> /\ Unlocked(p)
      /\ At(p, "UpdateOrgUser") \/ At(p, "RemoveOrgUser")
  BY DEF UpdateOrgUser, RemoveOrgUser
<1>3. l \in Seq(S) /\ l # <<>> /\ Len(l) \in Nat \ {0} /\ Head(l) = l[1]
  BY <1>1, <1>2, HeadTailProperties, EmptySeq, LenProperties DEF At
<1>4. Fail(p) \/ (Then(p, <<c>>) /\ (role = "Admin" \/ Admins(o) \ {who[p]} # {})
                  /\ (role # NoRole => members[o][who[p]] # NoRole))
  <2>1. CASE UpdateOrgUser(p)
    <3>1. role = Head(l).role
      BY <2>1 DEF UpdateOrgUser, At, RoleOf
    <3> QED BY <2>1, <3>1 DEF UpdateOrgUser, ChangesRole
  <2>2. CASE RemoveOrgUser(p)
    <3>1. role = NoRole /\ role # "Admin"
      BY <2>2 DEF RemoveOrgUser, At, RoleOf, NoRole
    <3> QED BY <2>2, <3>1 DEF RemoveOrgUser, ChangesRole
  <2> QED BY <2>1, <2>2
<1>5. CASE Fail(p)
  BY <1>1, <1>2, <1>5 DEF Fail
<1>6. CASE Then(p, <<c>>) /\ (role = "Admin" \/ Admins(o) \ {who[p]} # {})
           /\ (role # NoRole => members[o][who[p]] # NoRole)
  <2>1. c.op = "Commit" /\ c.org = o /\ c.role = role /\ c.saw = Admins(o)
    OBVIOUS
  <2> HIDE DEF c
  <2> DEFINE k == [i \in 1..Len(l) |-> IF i = 1 THEN c ELSE l[i]]
  <2>2. todo' = [todo EXCEPT ![p] = k]
    <3>1. todo[p] # <<>> /\ Head(todo[p]).op \in {"UpdateOrgUser", "RemoveOrgUser"} /\ Lists
      BY <1>2 DEF At, Base
    <3> QED BY <1>6, <2>1, <3>1, AfterWrite
  <2>3. Len(k) = Len(l) /\ k[1] = c /\ \A i \in 2..Len(l) : k[i] = l[i]
    BY <1>3
  <2>4. k \in Seq(S \cup {c})
    <3>1. \A i \in 1..Len(l) : k[i] \in S \cup {c}
      BY <1>3, ElementOfSeq
    <3> QED BY <3>1, <1>3
  <2> HIDE DEF k
  <2>5. todo'[p] = k
    BY <1>1, <2>2
  <2>6. k # <<>> /\ Head(k) = c
    <3>1. k # <<>>
      BY <2>3, <2>4, <1>3, NotEmpty
    <3> QED BY <3>1, <2>3, <2>4, HeadTailProperties
  <2> HIDE DEF l, o, role
  <2>7. \/ role = "Admin"
        \/ \E u \in Admins(o) : u # who[p]
    BY <1>6
  <2> QED BY <1>2, <1>3, <1>6, <2>1, <2>3, <2>5, <2>6, <2>7 DEF l, o, role
<1> HIDE DEF c
<1> QED BY <1>4, <1>5, <1>6

\* The members stay in a step of a handler or an arrival.
LEMMA OnlyStore ==
  ASSUME Base, NEW p \in Slots, Acts(p), ~ Store(p)
  PROVE  UNCHANGED <<tables, conf>>
<1>1. CASE Handler(p)
  BY <1>1, HandlerFrame DEF Base
<1>2. CASE Arrival(p)
  BY <1>2, ArrivalLists DEF Base, Arrived
<1> QED BY <1>1, <1>2 DEF Acts

LEMMA SettingsKept ==
  ASSUME Base, NEW p \in Slots, Acts(p)
  PROVE  conf' = conf
<1>1. CASE Store(p)
  BY <1>1 DEF Store, CreateUser, DeleteUser, UpdateUserPermissions, SetUsingOrg, SetOrg, CreateOrg,
       DeleteOrg, AddOrgUser, UpdateOrgUser, RemoveOrgUser, Commit, CreateTempUser,
       UpdateTempUserStatus, AddApiKey, DeleteApiKey, UpdateOrgQuota
<1> QED BY <1>1, OnlyStore

\* A step of the store that is not a commit waits for the lock.
LEMMA StoreWaits ==
  ASSUME NEW p \in Slots, Store(p)
  PROVE  InTx(p) \/ Unlocked(p)
BY DEF Store, CreateUser, DeleteUser, UpdateUserPermissions, SetUsingOrg, SetOrg, CreateOrg,
       DeleteOrg, AddOrgUser, UpdateOrgUser, RemoveOrgUser, Commit, CreateTempUser,
       UpdateTempUserStatus, AddApiKey, DeleteApiKey, UpdateOrgQuota

LEMMA TxStep ==
  ASSUME Base, \A q \in Slots : TxRight(q), NEW p \in Slots, Acts(p)
  PROVE  \A q \in Slots : TxRight(q)'
<1>1. conf' = conf /\ Base'
  BY SettingsKept, BaseStep
<1>2. ASSUME InTx(p)' PROVE UpdateOrgUser(p) \/ RemoveOrgUser(p)
  <2>1. CASE Drops(p) \/ Starts(p)
    BY <1>2, <2>1, Dropped, Started DEF Base
  <2>2. CASE SyncOrgRoles(p)
    BY <1>2, <2>2, SyncLists DEF Base, TablesRight, InTx, At
  <2> QED BY <2>1, <2>2, BaseStep
<1>3. TxRight(p)'
  <2> SUFFICES ASSUME InTx(p)' PROVE TxRight(p)'
    BY DEF TxRight
  <2>1. UpdateOrgUser(p) \/ RemoveOrgUser(p)
    BY <1>2
  <2>0. PICK c : c = Head(todo'[p])
    OBVIOUS
  <2>2. /\ UNCHANGED <<tables, who, moved, conf>> /\ Unlocked(p)
        /\ c.saw = Admins(c.org)
        /\ c.role = "Admin" \/ \E u \in c.saw : u # who[p]
        /\ c.role # NoRole => members[c.org][who[p]] # NoRole
    BY <2>0, <2>1, Writes DEF InTx, At
  <2>3. conf.serial => \A q \in Slots \ {p} : ~ InTx(q)'
    <3>1. \A q \in Slots \ {p} : todo'[q] = todo[q]
      BY BaseStep
    <3> QED BY <2>2, <3>1 DEF Unlocked, InTx, At
  <2>4. c.saw = Admins(c.org)'
    BY <2>2 DEF Admins, tables
  <2> QED BY <2>0, <2>2, <2>3, <2>4 DEF TxRight, tables
<1>4. ASSUME NEW q \in Slots \ {p} PROVE TxRight(q)'
  <2> SUFFICES ASSUME InTx(q)' PROVE TxRight(q)'
    BY DEF TxRight
  <2> DEFINE c == Head(todo[q])
  <2>1. Untouched(q)
    BY Others
  <2>2. InTx(q) /\ Head(todo'[q]) = c /\ who'[q] = who[q] /\ todo[q] # <<>>
    BY <2>1 DEF Untouched, InTx, At
  <2>3. c.role = "Admin" \/ \E u \in c.saw : u # who'[q]
    BY <2>2 DEF TxRight
  <2>4. ASSUME conf.serial PROVE c.saw = Admins(c.org)' /\ \A r \in Slots \ {q} : ~ InTx(r)'
    <3>1. c.saw = Admins(c.org) /\ \A r \in Slots \ {q} : ~ InTx(r)
      BY <2>2, <2>4 DEF TxRight
    <3>2. ~ Store(p)
      BY <2>2, <2>4, <3>1, StoreWaits DEF Unlocked
    <3>3. members' = members
      BY <3>2, OnlyStore DEF tables
    <3>4. ~ InTx(p)'
      BY <1>2, <3>2 DEF Store
    <3>5. \A r \in Slots \ {p} : todo'[r] = todo[r]
      BY BaseStep
    <3> QED BY <3>1, <3>3, <3>4, <3>5 DEF Admins, InTx, At
  <2>5. ASSUME q \notin moved', c.role # NoRole, c.org \in OrgIds PROVE members'[c.org][who'[q]] # NoRole
    <3>1. q \notin moved /\ members'[c.org][who[q]] = members[c.org][who[q]]
      BY <2>1, <2>2, <2>5 DEF Untouched
    <3> QED BY <2>2, <2>5, <3>1 DEF TxRight
  <2> QED BY <1>1, <2>2, <2>3, <2>4, <2>5 DEF TxRight
<1> QED BY <1>3, <1>4

AdminInv == Base /\ \A p \in Slots : TxRight(p)

LEMMA BaseInit ==
  ASSUME AccountsInit
  PROVE  Base /\ \A p \in Slots : todo[p] = <<>>
<1>1. MaxUsers \in Nat /\ MaxOrgs \in Nat /\ MaxUsers >= 2 /\ MaxOrgs >= 1
  BY BoundsAssumption
<1>2. todo = [p \in Slots |-> <<>>] /\ who = [p \in Slots |-> 1] /\ lastUser = 2 /\ lastOrg = 1 /\ orgs = {1}
      /\ temps \in Temps
  BY DEF AccountsInit
<1>3. Lists
  <2>1. <<>> \in Seq({}) /\ Shape(<<>>)
    BY DEF Shape
  <2>2. todo \in [Slots -> Seq({})]
    BY <1>2, <2>1
  <2> QED BY <1>2, <2>1, <2>2 DEF Lists
<1>4. TempsRight /\ WhoRight
  <2>1. PICK T : Temps \subseteq Seq(T)
    BY BoundsAssumption
  <2>2. TempsRight
    BY <1>2, <2>1 DEF TempsRight
  <2> QED BY <1>2, <2>2 DEF WhoRight
<1>5. TablesRight
  <2>1. PICK role \in Roles :
          /\ users = [u \in UserIds |->
                        CASE u = 1 -> [login |-> "root", org |-> 1, admin |-> TRUE]
                          [] u = 2 -> [login |-> "ann", org |-> 1, admin |-> FALSE]
                          [] OTHER -> NoUser]
          /\ members = [o \in OrgIds |-> [u \in UserIds |->
                          CASE o = 1 /\ u = 1 -> "Admin"
                            [] o = 1 /\ u = 2 -> role
                            [] OTHER -> NoRole]]
    BY DEF AccountsInit
  <2>2. DOMAIN users = UserIds /\ DOMAIN members = OrgIds /\ \A o \in OrgIds : DOMAIN members[o] = UserIds
    BY <2>1
  <2>3. ASSUME NEW u \in UserIds, u > lastUser
        PROVE  users[u] = NoUser /\ \A o \in OrgIds : members[o][u] = NoRole
    <3>1. u # 1 /\ u # 2
      BY <1>2, <2>3
    <3> QED BY <2>1, <2>3, <3>1
  <2>4. orgs \subseteq OrgIds /\ lastUser \in UserIds /\ lastOrg \in Nat
    BY <1>1, <1>2 DEF OrgIds, UserIds
  <2> QED BY <2>2, <2>3, <2>4 DEF TablesRight
<1> QED BY <1>2, <1>3, <1>4, <1>5 DEF Base

LEMMA Quiet ==
  ASSUME Base, UNCHANGED accountsVars
  PROVE  Base'
<1>1. TablesRight' /\ WhoRight' /\ TempsRight'
  BY DEF Base, TablesRight, WhoRight, TempsRight, accountsVars, tables
<1>2. todo' = todo
  BY DEF accountsVars
<1>3. (\E S : todo' \in [Slots -> Seq(S)]) /\ \A p \in Slots : Shape(todo'[p])
  BY <1>2 DEF Base, Lists
<1>4. Lists'
  BY <1>3 DEF Lists, Shape, ShapeAt, LoginShape, Ending, RoleOf, Mapped, MappedOrgs, Groups, Topmost
<1> QED BY <1>1, <1>4 DEF Base

\* The transactions are in order in every reachable state.
THEOREM TransactionsRight == AccountsSpec => []AdminInv
<1>1. AccountsInit => AdminInv
  BY BaseInit DEF AdminInv, TxRight, InTx, At
<1>2. AdminInv /\ [AccountsNext]_accountsVars => AdminInv'
  <2> SUFFICES ASSUME AdminInv, [AccountsNext]_accountsVars PROVE AdminInv'
    OBVIOUS
  <2>1. ASSUME NEW p \in Slots, Acts(p) PROVE AdminInv'
    BY <2>1, BaseStep, TxStep DEF AdminInv
  <2>2. CASE UNCHANGED accountsVars
    <3>1. Base'
      BY <2>2, Quiet DEF AdminInv
    <3>2. \A p \in Slots : TxRight(p)'
      BY <2>2 DEF AdminInv, TxRight, InTx, At, Admins, accountsVars, tables
    <3> QED BY <3>1, <3>2 DEF AdminInv
  <2> QED BY <2>1, <2>2 DEF AccountsNext, Acts
<1> QED BY <1>1, <1>2, PTL DEF AccountsSpec

\* An administrator of an organisation that a step leaves without one.
LEMMA AdminLost ==
  ASSUME AdminInv, NEW p \in Slots, Acts(p), NEW o \in orgs \cap orgs', Admins(o) # {}, Admins(o)' = {}
  PROVE  ~ conf.serial /\ InTx(p) /\ \E u \in Head(todo[p]).saw : u \notin Admins(o)
<1>1. Base /\ TablesRight /\ o \in OrgIds /\ who[p] \in UserIds
      /\ (\A v \in UserIds : v > lastUser => members[o][v] = NoRole) /\ MaxUsers \in Nat
      /\ DOMAIN members = OrgIds /\ DOMAIN members[o] = UserIds /\ lastUser \in UserIds
      /\ lastOrg \in Nat
  BY SMTT(30), BoundsAssumption DEF AdminInv, Base, TablesRight, WhoRight, UserIds
<1>2. PICK a \in UserIds : members[o][a] = "Admin"
  BY DEF Admins
<1>3. \A v \in UserIds : members'[o][v] # "Admin"
  BY DEF Admins
<1>4. Store(p)
  BY <1>1, <1>2, <1>3, OnlyStore DEF tables
<1>5. members' # members
  BY <1>2, <1>3
<1>6. ~ CreateUser(p)
  <2> SUFFICES ASSUME CreateUser(p) PROVE FALSE
    OBVIOUS
  <2> DEFINE c == Head(todo[p])
             x == NewUsersOrg(c)
             u == lastUser + 1
  <2>1. members' = [members EXCEPT ![x][u] = NewUsersRole(c)]
    BY <1>5 DEF CreateUser, tables
  <2> HIDE DEF x, c
  <2>2. a # u
    BY <1>1, <1>2 DEF UserIds, NoRole
  <2>3. members'[o][a] = members[o][a]
    BY <1>1, <2>1, <2>2
  <2> QED BY <1>2, <1>3, <2>3
<1>7. ~ CreateOrg(p)
  <2> SUFFICES ASSUME CreateOrg(p) PROVE FALSE
    OBVIOUS
  <2>1. members' = [members EXCEPT ![lastOrg'][who[p]] = "Admin"]
    BY DEF CreateOrg
  <2>2. members'[o][a] = "Admin"
    BY <1>1, <1>2, <2>1
  <2> QED BY <1>3, <2>2
<1>8. ~ DeleteOrg(p)
  <2> SUFFICES ASSUME DeleteOrg(p) PROVE FALSE
    OBVIOUS
  <2>1. /\ orgs' = orgs \ {Head(todo[p]).org}
        /\ members' = [members EXCEPT ![Head(todo[p]).org] = [u \in UserIds |-> NoRole]]
    BY <1>5 DEF DeleteOrg, tables
  <2>2. o # Head(todo[p]).org
    BY <2>1
  <2> QED BY <1>1, <1>2, <1>3, <2>1, <2>2
<1>9. ~ AddOrgUser(p)
  <2> SUFFICES ASSUME AddOrgUser(p) PROVE FALSE
    OBVIOUS
  <2> DEFINE c == Head(todo[p])
  <2>1. members' = [members EXCEPT ![c.org][who[p]] = c.role] /\ members[c.org][who[p]] = NoRole
    BY <1>5 DEF AddOrgUser
  <2> HIDE DEF c
  <2>2. ~ (c.org = o /\ who[p] = a)
    BY <1>2, <2>1 DEF NoRole
  <2>3. members'[o][a] = members[o][a]
    BY <1>1, <2>1, <2>2
  <2> QED BY <1>2, <1>3, <2>3
<1>10. Commit(p)
  BY <1>4, <1>5, <1>6, <1>7, <1>8, <1>9
     DEF Store, DeleteUser, UpdateUserPermissions, SetUsingOrg, SetOrg, UpdateOrgUser, RemoveOrgUser,
         CreateTempUser, UpdateTempUserStatus, AddApiKey, DeleteApiKey, UpdateOrgQuota, tables
<1> DEFINE c == Head(todo[p])
<1>11. InTx(p) /\ members' = [members EXCEPT ![c.org][who[p]] = c.role]
  BY <1>5, <1>10 DEF Commit
<1>12. TxRight(p)
  BY DEF AdminInv
<1>13. c.role = "Admin" \/ \E u \in c.saw : u # who[p]
  BY <1>11, <1>12 DEF TxRight
<1>14. conf.serial => c.saw = Admins(c.org)
  BY <1>11, <1>12 DEF TxRight
<1> HIDE DEF c
<1>15. c.org = o
  BY <1>1, <1>2, <1>3, <1>11
<1>16. c.role # "Admin"
  BY <1>1, <1>3, <1>11, <1>15
<1>17. \A v \in UserIds : v # who[p] => members[o][v] # "Admin"
  BY <1>1, <1>3, <1>11
<1>18. PICK u \in c.saw : u # who[p]
  BY <1>13, <1>16
<1>19. u \notin Admins(o)
  BY <1>17, <1>18 DEF Admins
<1>20. ~ conf.serial
  BY <1>14, <1>15, <1>18, <1>19
<1> QED BY <1>11, <1>18, <1>19, <1>20 DEF c

\* AdminKept: without serialised transactions an organisation loses its last
\* administrator only to a commit that had counted on one already removed.
THEOREM AdminIsKept == AccountsSpec => AdminKept
<1> DEFINE Lost == \A o \in orgs \cap orgs' : Admins(o) # {} /\ Admins(o)' = {} =>
                     ~ conf.serial /\ \E p \in Slots :
                       InTx(p) /\ \E u \in Head(todo[p]).saw : u \notin Admins(o)
<1>1. AdminInv /\ [AccountsNext]_accountsVars => [Lost]_accountsVars
  <2> SUFFICES ASSUME AdminInv, AccountsNext PROVE Lost
    OBVIOUS
  <2>1. PICK p \in Slots : Acts(p)
    BY DEF AccountsNext, Acts
  <2> QED BY <2>1, AdminLost
<1> QED BY <1>1, TransactionsRight, PTL DEF AccountsSpec, AdminKept

-----------------------------------------------------------------------------
(* Roles from LDAP.                                                         *)

\* What a login has still to put right is in its list.
Synced(p) ==
  LET l == todo[p] IN
  Ending(l) /\ Head(l).op \notin {"CreateUser", "SyncOrgRoles"} /\ p \notin moved =>
    \A o \in orgs :
      \/ members[o][who[p]] = Mapped(l[Len(l)].name, o)
      \/ \E i \in 1..Len(l) : l[i].op \in SyncOps /\ l[i].org = o

LdapInv == AdminInv /\ \A p \in Slots : Synced(p)

\* AddOrgUser and Commit do what the sync wants of them, if they run at all.
LEMMA CommandDone ==
  ASSUME AdminInv, NEW p \in Slots, Acts(p), Drops(p), p \notin moved', Ending(todo'[p]),
         Head(todo[p]).op \in {"AddOrgUser", "Commit"}
  PROVE  LET l == todo[p] c == Head(l) n == l[Len(l)].name IN
         /\ orgs' = orgs /\ who' = who /\ p \notin moved
         /\ c.org \in orgs => members'[c.org][who[p]] = Mapped(n, c.org)
         /\ \A o \in orgs : o # c.org => members'[o][who[p]] = members[o][who[p]]
<1> DEFINE l == todo[p]
           c == Head(l)
           n == l[Len(l)].name
<1>1. Base /\ orgs \subseteq OrgIds /\ who[p] \in UserIds
      /\ DOMAIN members = OrgIds /\ (\A o \in OrgIds : DOMAIN members[o] = UserIds)
  BY BoundsAssumption DEF AdminInv, Base, TablesRight, WhoRight, UserIds
<1>2. /\ Ending(l) /\ Len(l) \in Nat \ {0} /\ c = l[1] /\ Shape(l)
  <2>1. Ending(l) /\ Len(l) \in Nat /\ c = l[1] /\ l # <<>> /\ Shape(l)
    BY <1>1, Dropped DEF Base, Lists, Ending
  <2>2. PICK S : todo \in [Slots -> Seq(S)]
    BY <1>1 DEF Base, Lists
  <2>3. l \in Seq(S)
    BY <2>2
  <2> QED BY <2>1, <2>3, EmptySeq, LenProperties
<1>3. c.op \in SyncOps /\ RoleOf(c) = c.role /\ c.role = Mapped(n, c.org)
      /\ (c.op = "AddOrgUser" => c.unless = {"OrgNotFound"})
  <2>1. 1 \in 1..Len(l)
    BY <1>2
  <2>2. LoginShape(l, 1)
    BY <1>2, <2>1 DEF Shape, ShapeAt
  <2>3. c.op \in SyncOps /\ RoleOf(c) = c.role
    BY DEF SyncOps, RoleOf
  <2> QED BY <1>2, <2>2, <2>3 DEF LoginShape
<1>4. AddOrgUser(p) \/ Commit(p)
  <2>1. todo[p] # <<>> /\ ~ Arrival(p)
    BY <1>1, ArrivalLists DEF Drops, Base, Arrived
  <2>2. ~ Handler(p)
    BY DEF Handler, Quota, addOrgUserHelper, AddOrgInvite, CompleteInvite, SignUp, SignUpStep2,
         JoinInvited, ldapLogin, authProxy, SyncOrgRoles, LoggedIn, OAuthLogin, At
  <2>3. Store(p)
    BY <2>1, <2>2 DEF Acts
  <2> QED
    BY <2>3 DEF Store, CreateUser, DeleteUser, UpdateUserPermissions, SetUsingOrg, SetOrg, CreateOrg,
       DeleteOrg, UpdateOrgUser, RemoveOrgUser, CreateTempUser,
       UpdateTempUserStatus, AddApiKey, DeleteApiKey, UpdateOrgQuota, At
<1>5. UNCHANGED <<orgs, who>>
  BY <1>4 DEF AddOrgUser, Commit
<1>6. \/ c.op = "AddOrgUser" /\ AddOrgUser(p)
      \/ c.op = "Commit" /\ Commit(p)
  BY <1>4 DEF AddOrgUser, Commit, At, InTx
<1> HIDE DEF n
<1>7. CASE c.op = "AddOrgUser" /\ AddOrgUser(p)
  <2>1. ~ Fail(p)
    <3>1. ASSUME Fail(p) PROVE todo'[p] = <<>>
      <4>1. PICK S : todo \in [Slots -> Seq(S)]
        BY <1>1 DEF Base, Lists
      <4> QED BY <3>1, <4>1 DEF Fail
    <3> QED BY <3>1 DEF Ending
  <2>2. \/ /\ members' = [members EXCEPT ![c.org][who[p]] = c.role] /\ Moved(p, who[p])
           /\ c.org \in orgs
        \/ UNCHANGED <<members, moved>> /\ c.org \notin orgs
    <3> DEFINE err == IF members[c.org][who[p]] # NoRole THEN "AlreadyAdded"
                      ELSE IF c.org \notin orgs THEN "OrgNotFound" ELSE ""
    <3>1. IF err = ""
          THEN /\ members' = [members EXCEPT ![c.org][who[p]] = c.role]
               /\ Moved(p, who[p])
          ELSE err \in c.unless /\ UNCHANGED <<members, moved>>
      BY <1>7, <2>1 DEF AddOrgUser
    <3>2. err # "" => err = "OrgNotFound" /\ c.org \notin orgs
      BY <1>3, <1>7, <3>1
    <3>3. err = "" => c.org \in orgs
      OBVIOUS
    <3> HIDE DEF err, c
    <3> QED BY <3>1, <3>2, <3>3
  <2> HIDE DEF c, l
  <2>3. p \notin moved
    BY <2>2 DEF Moved
  <2>4. c.org \in orgs => members'[c.org][who[p]] = Mapped(n, c.org)
    BY <1>1, <1>3, <2>2
  <2>5. \A o \in orgs : o # c.org => members'[o][who[p]] = members[o][who[p]]
    BY <1>1, <2>2
  <2> QED BY <1>5, <2>3, <2>4, <2>5 DEF c, l, n
<1>8. CASE c.op = "Commit" /\ Commit(p)
  <2>1. /\ InTx(p) /\ Moved(p, who[p])
        /\ members' = IF members[c.org][who[p]] = NoRole THEN members
                      ELSE [members EXCEPT ![c.org][who[p]] = c.role]
    BY <1>8 DEF Commit
  <2>2. p \notin moved
    BY <2>1 DEF Moved
  <2>3. c.role # NoRole /\ c.org \in OrgIds => members[c.org][who[p]] # NoRole
    BY <2>1, <2>2 DEF AdminInv, TxRight
  <2> HIDE DEF c, l
  <2>4. c.org \in orgs => members'[c.org][who[p]] = Mapped(n, c.org)
    <3> SUFFICES ASSUME c.org \in orgs PROVE members'[c.org][who[p]] = c.role
      BY <1>3
    <3>1. CASE members[c.org][who[p]] = NoRole
      BY <1>1, <2>1, <2>3, <3>1
    <3>2. CASE members[c.org][who[p]] # NoRole
      BY <1>1, <2>1, <3>2
    <3> QED BY <3>1, <3>2
  <2>5. \A o \in orgs : o # c.org => members'[o][who[p]] = members[o][who[p]]
    BY <1>1, <2>1
  <2> QED BY <1>5, <2>2, <2>4, <2>5 DEF c, l, n
<1> QED BY <1>6, <1>7, <1>8

LEMMA SyncedStep ==
  ASSUME LdapInv, NEW p \in Slots, Acts(p)
  PROVE  \A q \in Slots : Synced(q)'
<1>1. Base /\ AdminInv /\ orgs \subseteq OrgIds
  BY DEF LdapInv, AdminInv, Base, TablesRight
<1>2. ASSUME NEW q \in Slots \ {p} PROVE Synced(q)'
  <2>1. Untouched(q) /\ Synced(q)
    BY <1>1, Others DEF LdapInv
  <2> SUFFICES ASSUME Ending(todo'[q]), Head(todo'[q]).op \notin {"CreateUser", "SyncOrgRoles"}, q \notin moved',
                      NEW o \in orgs'
               PROVE  \/ members'[o][who'[q]] = Mapped(todo'[q][Len(todo'[q])].name, o)
                      \/ \E i \in 1..Len(todo'[q]) : todo'[q][i].op \in SyncOps /\ todo'[q][i].org = o
    BY DEF Synced, Ending, Mapped, MappedOrgs, Groups, Topmost
  <2>2. todo'[q] = todo[q] /\ who'[q] = who[q] /\ q \notin moved /\ o \in orgs
        /\ members'[o][who[q]] = members[o][who[q]]
    BY <1>1, <2>1 DEF Untouched, Ending
  <2> QED BY <2>1, <2>2 DEF Synced
<1>3. Synced(p)'
  <2> SUFFICES ASSUME Ending(todo'[p]), Head(todo'[p]).op \notin {"CreateUser", "SyncOrgRoles"}, p \notin moved',
                      NEW o \in orgs'
               PROVE  \/ members'[o][who'[p]] = Mapped(todo'[p][Len(todo'[p])].name, o)
                      \/ \E i \in 1..Len(todo'[p]) : todo'[p][i].op \in SyncOps /\ todo'[p][i].org = o
    BY DEF Synced, Ending, Mapped, MappedOrgs, Groups, Topmost
  <2> DEFINE l == todo[p]
  <2>0. Synced(p) /\ Lists
    BY <1>1 DEF LdapInv, Base
  <2>1. PICK k : k = todo'[p]
    OBVIOUS
  <2>2. CASE Starts(p)
    BY <2>0, <2>2, Started
  <2>3. CASE SyncOrgRoles(p)
    <3> DEFINE n == Head(l).name
               u == who[p]
    <3>1. k[Len(k)].name = n
          /\ \A x \in Wrong(n, u) \cup (MappedOrgs(n) \ OrgsOf(u)) :
               \E i \in 1..Len(k) : k[i].op \in SyncOps /\ k[i].org = x
      BY <1>1, <2>0, <2>1, <2>3, SyncLists
    <3>2. orgs' = orgs /\ members' = members /\ who' = who
      BY <2>3 DEF SyncOrgRoles, tables
    <3> HIDE DEF n, u
    <3>3. CASE members[o][u] = Mapped(n, o)
      BY <2>1, <3>1, <3>2, <3>3 DEF u
    <3>4. CASE members[o][u] # Mapped(n, o)
      <4>1. o \in Wrong(n, u) \cup (MappedOrgs(n) \ OrgsOf(u))
        BY <3>2, <3>4 DEF Wrong, OrgsOf, Mapped
      <4> QED BY <2>1, <3>1, <4>1
    <3> QED BY <3>3, <3>4
  <2>4. CASE UpdateOrgUser(p) \/ RemoveOrgUser(p)
    <3>1. /\ UNCHANGED <<tables, who, moved, conf>>
          /\ At(p, "UpdateOrgUser") \/ At(p, "RemoveOrgUser")
      BY <1>1, <2>4, Writes
    <3>2. /\ k # <<>> /\ Len(k) = Len(l) /\ Len(l) \in Nat \ {0} /\ Head(l) = l[1]
          /\ Head(k) = k[1] /\ Head(k).op = "Commit" /\ Head(k).org = Head(l).org
          /\ \A i \in 2..Len(l) : k[i] = l[i]
      BY <1>1, <2>1, <2>4, Writes DEF Ending
    <3>3. Len(l) # 1
      BY <2>1, <3>2 DEF Ending
    <3>4. Ending(l) /\ k[Len(k)] = l[Len(l)]
      <4>0. Len(l) \in 2..Len(l)
        <5>1. \A m \in Nat \ {0} : m # 1 => m \in 2..m
          OBVIOUS
        <5> QED BY <3>2, <3>3, <5>1
      <4>1. k[Len(k)] = l[Len(l)]
        BY <3>2, <4>0
      <4> QED BY <2>1, <3>1, <4>1 DEF Ending, At
    <3>5. \/ members[o][who[p]] = Mapped(l[Len(l)].name, o)
          \/ \E i \in 1..Len(l) : l[i].op \in SyncOps /\ l[i].org = o
      BY <2>0, <3>1, <3>4 DEF Synced, At, tables
    <3>6. ASSUME NEW i \in 1..Len(l), l[i].op \in SyncOps, l[i].org = o
          PROVE  k[i].op \in SyncOps /\ k[i].org = o
      <4>1. CASE i = 1
        BY <3>2, <3>6, <4>1 DEF SyncOps
      <4>2. CASE i # 1
        BY <3>2, <3>6, <4>2
      <4> QED BY <4>1, <4>2
    <3> QED BY <2>1, <3>1, <3>2, <3>4, <3>5, <3>6 DEF tables
  <2>5. CASE Drops(p)
    <3>1. /\ Ending(l) /\ Len(k) = Len(l) - 1 /\ Len(l) \in Nat
          /\ \A i \in 1..Len(k) : k[i] = l[i + 1]
          /\ k[Len(k)] = l[Len(l)]
          /\ Head(l) = l[1] /\ Head(k) = k[1]
          /\ Head(l).op \in {"CreateUser", "AddOrgUser", "Commit"}
      BY <2>0, <2>1, <2>5, Dropped
    <3>2. Head(l).op # "CreateUser"
      <4> SUFFICES ASSUME Head(l).op = "CreateUser" PROVE FALSE
        OBVIOUS
      <4>0. PICK S : todo \in [Slots -> Seq(S)]
        BY <2>0 DEF Lists
      <4>1. Len(l) \in Nat \ {0}
        BY <3>1, <4>0, EmptySeq, LenProperties DEF Ending
      <4>2. LoginShape(l, 1)
        BY <2>0, <3>1, <4>1 DEF Lists, Shape, ShapeAt
      <4>3. l[1 + 1].op = "SyncOrgRoles" /\ Len(l) # 1
        BY <3>1, <4>2 DEF LoginShape, Ending
      <4>4. 1 \in 1..Len(k) /\ k[1] = l[1 + 1]
        <5>1. \A m \in Nat \ {0} : m # 1 => 1 \in 1..(m - 1)
          OBVIOUS
        <5>2. 1 \in 1..Len(k)
          BY <3>1, <4>1, <4>3, <5>1
        <5> QED BY <3>1, <5>2
      <4> QED BY <2>1, <3>1, <4>3, <4>4
    <3> DEFINE c == Head(l)
               n == l[Len(l)].name
    <3>3. /\ orgs' = orgs /\ who' = who /\ p \notin moved
          /\ c.org \in orgs => members'[c.org][who[p]] = Mapped(n, c.org)
          /\ \A x \in orgs : x # c.org => members'[x][who[p]] = members[x][who[p]]
      BY <1>1, <2>5, <3>1, <3>2, CommandDone
    <3>4. \/ members[o][who[p]] = Mapped(n, o)
          \/ \E i \in 1..Len(l) : l[i].op \in SyncOps /\ l[i].org = o
      BY <2>0, <3>1, <3>2, <3>3 DEF Synced
    <3>5. CASE o = c.org
      BY <2>1, <3>1, <3>3, <3>5
    <3>6. CASE o # c.org
      <4>1. CASE members[o][who[p]] = Mapped(n, o)
        BY <2>1, <3>1, <3>3, <3>6, <4>1
      <4>2. CASE \E i \in 1..Len(l) : l[i].op \in SyncOps /\ l[i].org = o
        <5>1. PICK i \in 1..Len(l) : l[i].op \in SyncOps /\ l[i].org = o
          BY <4>2
        <5>2. i # 1
          BY <3>1, <3>6, <5>1
        <5>3. i - 1 \in 1..Len(k) /\ (i - 1) + 1 = i
          BY <3>1, <5>2
        <5>4. k[i - 1] = l[i]
          BY <3>1, <5>3
        <5> QED BY <2>1, <5>1, <5>3, <5>4
      <4> QED BY <3>4, <4>1, <4>2
    <3> QED BY <3>5, <3>6
  <2> QED BY <1>1, <2>2, <2>3, <2>4, <2>5, BaseStep
<1> QED BY <1>2, <1>3

\* LdapRolesMapped: a login that has synced, and that nobody has interfered
\* with, has in every organisation the role of the topmost mapping.
THEOREM RolesAreMapped == AccountsSpec => []LdapRolesMapped
<1>1. AccountsInit => LdapInv
  BY BaseInit DEF LdapInv, AdminInv, TxRight, InTx, At, Synced, Ending
<1>2. LdapInv /\ [AccountsNext]_accountsVars => LdapInv'
  <2> SUFFICES ASSUME LdapInv, [AccountsNext]_accountsVars PROVE LdapInv'
    OBVIOUS
  <2>1. ASSUME NEW p \in Slots, Acts(p) PROVE LdapInv'
    BY <2>1, BaseStep, TxStep, SyncedStep DEF LdapInv, AdminInv
  <2>2. CASE UNCHANGED accountsVars
    <3>1. Base'
      BY <2>2, Quiet DEF AdminInv, LdapInv
    <3>2. \A p \in Slots : TxRight(p)'
      BY <2>2 DEF LdapInv, AdminInv, TxRight, InTx, At, Admins, accountsVars, tables
    <3>3. \A p \in Slots : Synced(p)'
      <4>1. todo' = todo /\ who' = who /\ moved' = moved /\ orgs' = orgs /\ members' = members
        BY <2>2 DEF accountsVars, tables
      <4>2. \A p \in Slots : Synced(p)
        BY DEF LdapInv
      <4> QED BY <4>1, <4>2 DEF Synced, Ending, Mapped, MappedOrgs, Groups, Topmost
    <3> QED BY <3>1, <3>2, <3>3 DEF AdminInv, LdapInv
  <2> QED BY <2>1, <2>2 DEF AccountsNext, Acts
<1>3. LdapInv => LdapRolesMapped
  <2> SUFFICES ASSUME LdapInv, NEW p \in Slots, At(p, "LoggedIn"), p \notin moved, NEW o \in orgs
               PROVE  members[o][who[p]] = Mapped(Head(todo[p]).name, o)
    BY DEF LdapRolesMapped
  <2> DEFINE l == todo[p]
  <2>1. Lists /\ Synced(p)
    BY DEF LdapInv, AdminInv, Base
  <2>2. Len(l) = 1 /\ l # <<>>
    BY <2>1, OnlyOne DEF At, LastOps
  <2>3. l[1] = Head(l)
    <3>1. PICK S : todo \in [Slots -> Seq(S)]
      BY <2>1 DEF Lists
    <3> QED BY <2>2, <3>1, HeadTailProperties
  <2>4. Ending(l) /\ Head(l).op = "LoggedIn"
    BY <2>2, <2>3 DEF Ending, At
  <2>5. \A i \in 1..Len(l) : l[i].op \notin SyncOps
    BY <2>2, <2>3, <2>4 DEF SyncOps
  <2> QED BY <2>1, <2>2, <2>3, <2>4, <2>5 DEF Synced
<1> QED BY <1>1, <1>2, <1>3, PTL DEF AccountsSpec

-----------------------------------------------------------------------------
(* API keys.                                                                *)

\* Requests that have passed the quota of an organisation and not yet added.
Adders(o) == {p \in Slots : At(p, "AddApiKey") /\ Head(todo[p]).org = o}

LimitsRight ==
  /\ DOMAIN keys = OrgIds /\ DOMAIN limits = OrgIds /\ DOMAIN peak = OrgIds
  /\ \A o \in OrgIds :
       /\ IsFiniteSet(keys[o]) /\ limits[o] \in Int /\ peak[o] \in Int
       /\ peak[o] >= 0 => limits[o] >= 0 /\ limits[o] <= peak[o]

KeyInv == Base /\ LimitsRight /\ KeysWithinQuota

\* How many there can be.
LEMMA Counts ==
  ASSUME NEW o
  PROVE  /\ IsFiniteSet(Adders(o)) /\ Cardinality(Adders(o)) \in Nat
         /\ Cardinality(Adders(o)) <= Cardinality(Slots) /\ Cardinality(Slots) \in Nat \ {0}
         /\ \A A : A \subseteq Adders(o) => Cardinality(A) \in Nat /\ Cardinality(A) <= Cardinality(Adders(o))
         /\ \A A : \A p \in Adders(o) : A \subseteq Adders(o) \ {p} =>
              Cardinality(A) \in Nat /\ Cardinality(A) + 1 <= Cardinality(Adders(o))
<1>1. Adders(o) \in SUBSET Slots
  BY DEF Adders
<1>2. IsFiniteSet(Slots) /\ Slots # {}
  BY BoundsAssumption
<1>3. IsFiniteSet(Adders(o)) /\ Cardinality(Adders(o)) <= Cardinality(Slots)
  BY <1>1, <1>2, FS_Subset
<1>4. Cardinality(Slots) \in Nat \ {0}
  BY <1>2, FS_CardinalityType, FS_EmptySet
<1>5. Cardinality(Adders(o)) \in Nat
  BY <1>3, FS_CardinalityType
<1>6. ASSUME NEW A, A \subseteq Adders(o)
      PROVE  Cardinality(A) \in Nat /\ Cardinality(A) <= Cardinality(Adders(o))
  <2>1. A \in SUBSET Adders(o)
    BY <1>6
  <2> QED BY <2>1, <1>3, FS_Subset, FS_CardinalityType
<1>7. ASSUME NEW A, NEW p \in Adders(o), A \subseteq Adders(o) \ {p}
      PROVE  Cardinality(A) \in Nat /\ Cardinality(A) + 1 <= Cardinality(Adders(o))
  <2> DEFINE B == Adders(o) \ {p}
  <2>1. IsFiniteSet(B) /\ Cardinality(B) = Cardinality(Adders(o)) - 1
    BY <1>3, FS_RemoveElement
  <2>2. A \in SUBSET B
    BY <1>7
  <2> HIDE DEF B
  <2>3. Cardinality(A) <= Cardinality(B) /\ IsFiniteSet(A)
    BY <2>1, <2>2, FS_Subset
  <2>4. Cardinality(A) \in Nat /\ Cardinality(B) \in Nat
    BY <2>1, <2>3, FS_CardinalityType
  <2> QED BY <2>1, <2>3, <2>4, <1>5
<1> QED BY <1>3, <1>4, <1>5, <1>6, <1>7

\* Only the check of the quota brings a request to the addition.
LEMMA AddersStep ==
  ASSUME Base, NEW p \in Slots, Acts(p), NEW o
  PROVE  /\ Adders(o)' \subseteq Adders(o) \cup {p}
         /\ p \in Adders(o)' =>
              Quota(p) /\ Head(todo[p]).target = "api_key" /\ Head(todo[p]).org = o
              /\ ~ QuotaReached("api_key", o)
<1>1. \A q \in Slots \ {p} : todo'[q] = todo[q]
  BY BaseStep
<1>2. Adders(o)' \subseteq Adders(o) \cup {p}
  BY <1>1 DEF Adders, At
<1>3. ASSUME p \in Adders(o)'
      PROVE  Quota(p) /\ Head(todo[p]).target = "api_key" /\ Head(todo[p]).org = o
             /\ ~ QuotaReached("api_key", o)
  <2>1. At(p, "AddApiKey")' /\ Head(todo[p]).org' = o
    BY <1>3 DEF Adders
  <2>2. ~ Starts(p)
    BY <2>1, Started DEF Base
  <2>3. ~ SyncOrgRoles(p)
    BY <2>1, SyncLists DEF Base, TablesRight, At
  <2>4. ~ (UpdateOrgUser(p) \/ RemoveOrgUser(p))
    BY <2>1, Writes DEF At
  <2>5. Drops(p)
    BY <2>2, <2>3, <2>4, BaseStep
  <2>6. At(p, "Quota") /\ Head(todo[p]).target = "api_key" /\ Head(todo[p]).org = o
    BY <2>1, <2>5, Dropped DEF Base
  <2>7. ~ Arrival(p)
    BY <2>6, ArrivalLists DEF Base, Arrived, At
  <2>8. Quota(p)
    BY <2>6, <2>7 DEF Acts, Store, Handler, CreateUser, DeleteUser, UpdateUserPermissions, SetUsingOrg, SetOrg,
       CreateOrg, DeleteOrg, AddOrgUser, UpdateOrgUser, RemoveOrgUser, Commit, InTx, CreateTempUser,
       UpdateTempUserStatus, AddApiKey, DeleteApiKey, UpdateOrgQuota, addOrgUserHelper, AddOrgInvite,
       CompleteInvite, SignUp, SignUpStep2, JoinInvited, ldapLogin, authProxy, SyncOrgRoles, LoggedIn,
       OAuthLogin, At
  <2>9. ~ Fail(p)
    <3>1. PICK S : todo \in [Slots -> Seq(S)]
      BY DEF Base, Lists
    <3> QED BY <2>1, <3>1 DEF Fail, At
  <2> QED BY <2>6, <2>8, <2>9 DEF Quota
<1> QED BY <1>2, <1>3

\* What a step does to the keys and their limits.
LEMMA KeyTables ==
  ASSUME KeyInv, NEW p \in Slots, Acts(p)
  PROVE  /\ LimitsRight'
         /\ \A o \in OrgIds :
              /\ peak'[o] >= 0 => peak[o] >= 0 /\ peak[o] <= peak'[o]
              /\ \/ keys'[o] \subseteq keys[o]
                 \/ (\E k : keys'[o] = keys[o] \cup {k}) /\ p \in Adders(o) /\ p \notin Adders(o)'
<1>0. /\ DOMAIN keys = OrgIds /\ DOMAIN limits = OrgIds /\ DOMAIN peak = OrgIds
      /\ \A o \in OrgIds :
           /\ IsFiniteSet(keys[o]) /\ limits[o] \in Int /\ peak[o] \in Int
           /\ peak[o] >= 0 => limits[o] >= 0 /\ limits[o] <= peak[o]
      /\ Base
  BY DEF KeyInv, LimitsRight
<1>1. CASE AddApiKey(p)
  <2> DEFINE c == Head(todo[p])
  <2>1. keys' = keys \/ keys' = [keys EXCEPT ![c.org] = @ \cup {c.key}]
    BY <1>1 DEF AddApiKey
  <2>2. UNCHANGED <<limits, peak>> /\ At(p, "AddApiKey")
    BY <1>1 DEF AddApiKey
  <2>3. \A o : p \notin Adders(o)'
    <3>1. ~ Quota(p)
      BY <2>2 DEF Quota, At
    <3> QED BY <1>0, <3>1, AddersStep
  <2>4. p \in Adders(c.org)
    BY <2>2 DEF Adders
  <2> HIDE DEF c
  <2>5. \A o \in OrgIds : keys'[o] = keys[o] \/ (keys'[o] = keys[o] \cup {c.key} /\ o = c.org)
    BY <1>0, <2>1
  <2>6. ASSUME NEW o \in OrgIds PROVE IsFiniteSet(keys'[o])
    <3>1. IsFiniteSet(keys[o]) /\ IsFiniteSet(keys[o] \cup {c.key})
      BY <1>0, FS_AddElement
    <3>2. keys'[o] = keys[o] \/ keys'[o] = keys[o] \cup {c.key}
      BY <2>5
    <3> QED BY <3>1, <3>2
  <2>7. DOMAIN keys' = OrgIds
    BY <1>0, <2>1
  <2>8. LimitsRight'
    BY <1>0, <2>2, <2>6, <2>7 DEF LimitsRight
  <2>9. ASSUME NEW o \in OrgIds
        PROVE  \/ keys'[o] \subseteq keys[o]
               \/ (\E k : keys'[o] = keys[o] \cup {k}) /\ p \in Adders(o) /\ p \notin Adders(o)'
    BY <2>3, <2>4, <2>5
  <2>10. \A o \in OrgIds : peak'[o] >= 0 => peak[o] >= 0 /\ peak[o] <= peak'[o]
    BY <1>0, <2>2
  <2> QED BY <2>8, <2>9, <2>10
<1>2. CASE UpdateOrgQuota(p)
  <2> DEFINE c == Head(todo[p])
  <2>1. /\ limits' = [limits EXCEPT ![c.org] = c.limit]
        /\ peak' = [peak EXCEPT ![c.org] = Above(c.limit, @)]
        /\ keys' = keys /\ At(p, "UpdateOrgQuota")
    BY <1>2 DEF UpdateOrgQuota
  <2>2. c.limit \in Int
    <3>1. PICK S : todo \in [Slots -> Seq(S)]
      BY <1>0 DEF Base, Lists
    <3>2. Len(todo[p]) \in Nat \ {0} /\ c = todo[p][1]
      BY <2>1, <3>1, HeadTailProperties, EmptySeq, LenProperties DEF At
    <3>3. ShapeAt(todo[p], 1)
      BY <1>0, <3>2 DEF Base, Lists, Shape
    <3> QED BY <2>1, <3>2, <3>3 DEF ShapeAt, At
  <2> HIDE DEF c
  <2>3. ASSUME NEW o \in OrgIds
        PROVE  /\ limits'[o] \in Int /\ peak'[o] \in Int
               /\ peak'[o] >= 0 => limits'[o] >= 0 /\ limits'[o] <= peak'[o] /\ peak[o] >= 0 /\ peak[o] <= peak'[o]
    <3>1. limits[o] \in Int /\ peak[o] \in Int
      BY <1>0
    <3>2. CASE o = c.org
      <4>1. limits'[o] = c.limit /\ peak'[o] = Above(c.limit, peak[o])
        BY <1>0, <2>1, <3>2
      <4> QED BY <2>2, <3>1, <4>1 DEF Above
    <3>3. CASE o # c.org
      <4>1. limits'[o] = limits[o] /\ peak'[o] = peak[o]
        BY <1>0, <2>1, <3>3
      <4> QED BY <1>0, <4>1
    <3> QED BY <3>2, <3>3
  <2>4. DOMAIN limits' = OrgIds /\ DOMAIN peak' = OrgIds
    BY <1>0, <2>1
  <2> QED BY <1>0, <2>1, <2>3, <2>4 DEF LimitsRight
<1>3. CASE DeleteOrg(p)
  <2>1. keys' = keys \/ \E o : keys' = [keys EXCEPT ![o] = {}]
    BY <1>3 DEF DeleteOrg, tables
  <2>2. UNCHANGED <<limits, peak>>
    BY <1>3 DEF DeleteOrg, tables
  <2>3. DOMAIN keys' = OrgIds /\ \A o \in OrgIds : keys'[o] = keys[o] \/ keys'[o] = {}
    BY <1>0, <2>1
  <2>4. \A o \in OrgIds : IsFiniteSet(keys'[o])
    BY <1>0, <2>3, FS_EmptySet
  <2> QED BY <1>0, <2>2, <2>3, <2>4 DEF LimitsRight
<1>4. CASE DeleteApiKey(p)
  <2> DEFINE c == Head(todo[p])
  <2>1. keys' = [keys EXCEPT ![c.org] = @ \ {c.key}] /\ UNCHANGED <<limits, peak>>
    BY <1>4 DEF DeleteApiKey
  <2> HIDE DEF c
  <2>3. DOMAIN keys' = OrgIds /\ \A o \in OrgIds : keys'[o] \in SUBSET keys[o]
    BY <1>0, <2>1
  <2>4. \A o \in OrgIds : IsFiniteSet(keys'[o])
    BY <1>0, <2>3, FS_Subset
  <2> QED BY <1>0, <2>1, <2>3, <2>4 DEF LimitsRight
<1>5. CASE UNCHANGED <<keys, limits, peak>>
  <2>1. keys' = keys /\ limits' = limits /\ peak' = peak
    BY <1>5
  <2>2. LimitsRight'
    BY <1>0, <2>1 DEF LimitsRight
  <2> QED BY <1>0, <2>1, <2>2
<1>6. \/ AddApiKey(p) \/ UpdateOrgQuota(p) \/ DeleteOrg(p) \/ DeleteApiKey(p)
      \/ UNCHANGED <<keys, limits, peak>>
  <2>1. CASE Store(p)
    BY <2>1 DEF Store, CreateUser, DeleteUser, UpdateUserPermissions, SetUsingOrg, SetOrg, CreateOrg,
       AddOrgUser, UpdateOrgUser, RemoveOrgUser, Commit, CreateTempUser, UpdateTempUserStatus, tables
  <2>2. CASE ~ Store(p)
    BY <1>0, <2>2, OnlyStore DEF tables
  <2> QED BY <2>1, <2>2
<1> QED BY <1>1, <1>2, <1>3, <1>4, <1>5, <1>6

LEMMA QuotaStep ==
  ASSUME KeyInv, NEW p \in Slots, Acts(p)
  PROVE  KeysWithinQuota'
<1> SUFFICES ASSUME NEW o \in OrgIds, peak'[o] >= 0
             PROVE  Cardinality(keys'[o]) + Cardinality(Adders(o)') <= peak'[o] + Cardinality(Slots) - 1
  BY DEF KeysWithinQuota, Adders
<1> DEFINE a == Cardinality(Adders(o))
           b == Cardinality(Adders(o)')
           n == Cardinality(keys[o])
           m == Cardinality(keys'[o])
           s == Cardinality(Slots)
<1>1. Base /\ LimitsRight /\ KeysWithinQuota /\ LimitsRight'
  BY KeyTables DEF KeyInv
<1>2. /\ peak[o] >= 0 /\ peak[o] <= peak'[o] /\ peak[o] \in Int /\ peak'[o] \in Int
      /\ limits[o] \in Int /\ limits[o] >= 0 /\ limits[o] <= peak[o]
      /\ IsFiniteSet(keys[o]) /\ IsFiniteSet(keys'[o])
  BY <1>1, KeyTables DEF LimitsRight
<1>3. n \in Nat /\ m \in Nat
  BY <1>2, FS_CardinalityType
<1>4. a \in Nat /\ a <= s /\ s \in Nat \ {0}
  BY Counts
<1>5. n + a <= peak[o] + s - 1
  BY <1>1, <1>2 DEF KeysWithinQuota, Adders
<1>6. CASE p \in Adders(o)'
  <2>1. Quota(p) /\ ~ QuotaReached("api_key", o)
    BY <1>1, <1>6, AddersStep
  <2>2. keys' = keys
    BY <2>1 DEF Quota, tables
  <2>3. n < limits[o]
    BY <2>1, <1>2, <1>3 DEF QuotaReached
  <2>4. b \in Nat /\ b <= s
    <3>1. Adders(o)' \in SUBSET Slots /\ IsFiniteSet(Slots)
      BY BoundsAssumption DEF Adders
    <3>2. IsFiniteSet(Adders(o)') /\ b <= s
      BY <3>1, FS_Subset
    <3> QED BY <3>2, FS_CardinalityType
  <2>5. m = n
    BY <2>2
  <2> HIDE DEF a, b, n, m, s
  <2> QED BY <2>3, <2>4, <2>5, <1>2, <1>3, <1>4 DEF b, m, s
<1>7. CASE p \notin Adders(o)'
  <2>1. Adders(o)' \subseteq Adders(o)
    BY <1>1, <1>7, AddersStep
  <2>2. b \in Nat /\ b <= a
    BY <2>1, Counts
  <2>3. CASE keys'[o] \subseteq keys[o]
    <3>1. m <= n
      <4>1. keys'[o] \in SUBSET keys[o]
        BY <2>3
      <4> QED BY <4>1, <1>2, FS_Subset
    <3> HIDE DEF a, b, n, m, s
    <3> QED BY <3>1, <2>2, <1>2, <1>3, <1>4, <1>5 DEF b, m, s
  <2>4. CASE ~ (keys'[o] \subseteq keys[o])
    <3>1. (\E k : keys'[o] = keys[o] \cup {k}) /\ p \in Adders(o)
      BY <2>4, KeyTables
    <3>2. m <= n + 1
      <4>1. PICK k : keys'[o] = keys[o] \cup {k}
        BY <3>1
      <4>2. m = n \/ m = n + 1
        BY <4>1, <1>2, FS_AddElement
      <4> QED BY <4>2, <1>3
    <3>3. b + 1 <= a
      <4>1. Adders(o)' \subseteq Adders(o) \ {p}
        BY <2>1, <1>7
      <4> QED BY <3>1, <4>1, Counts
    <3> HIDE DEF a, b, n, m, s
    <3> QED BY <3>2, <3>3, <2>2, <1>2, <1>3, <1>4, <1>5 DEF b, m, s
  <2> QED BY <2>3, <2>4
<1> QED BY <1>6, <1>7

LEMMA KeyInit ==
  ASSUME AccountsInit
  PROVE  LimitsRight /\ KeysWithinQuota
<1>1. /\ keys = [o \in OrgIds |-> {}] /\ limits = [o \in OrgIds |-> conf.keyLimit] /\ peak = limits
      /\ conf.keyLimit \in Int
  BY BoundsAssumption DEF AccountsInit
<1>2. LimitsRight
  BY <1>1, FS_EmptySet DEF LimitsRight
<1>3. ASSUME NEW o \in OrgIds, peak[o] >= 0
      PROVE  Cardinality(keys[o]) + Cardinality(Adders(o)) <= peak[o] + Cardinality(Slots) - 1
  <2>1. \A p \in Slots : todo[p] = <<>>
    BY BaseInit
  <2>2. Adders(o) = {}
    BY <2>1 DEF Adders, At
  <2>3. Cardinality(Adders(o)) = 0 /\ Cardinality(keys[o]) = 0
    BY <1>1, <2>2, FS_EmptySet
  <2>4. Cardinality(Slots) \in Nat \ {0} /\ peak[o] \in Int
    BY <1>1, Counts
  <2> QED BY <1>3, <2>3, <2>4
<1>4. KeysWithinQuota
  BY <1>3 DEF KeysWithinQuota, Adders
<1> QED BY <1>2, <1>4

\* KeysWithinQuota: requests that pass the check together exceed the largest
\* limit of an organisation by less than their number.
THEOREM KeysInQuota == AccountsSpec => []KeysWithinQuota
<1>1. AccountsInit => KeyInv
  BY BaseInit, KeyInit DEF KeyInv
<1>2. KeyInv /\ [AccountsNext]_accountsVars => KeyInv'
  <2> SUFFICES ASSUME KeyInv, [AccountsNext]_accountsVars PROVE KeyInv'
    OBVIOUS
  <2>1. ASSUME NEW p \in Slots, Acts(p) PROVE KeyInv'
    BY <2>1, BaseStep, KeyTables, QuotaStep DEF KeyInv
  <2>2. CASE UNCHANGED accountsVars
    <3>1. Base'
      BY <2>2, Quiet DEF KeyInv
    <3>2. LimitsRight'
      BY <2>2 DEF KeyInv, LimitsRight, accountsVars, tables
    <3>3. KeysWithinQuota'
      BY <2>2 DEF KeyInv, KeysWithinQuota, At, accountsVars, tables
    <3> QED BY <3>1, <3>2, <3>3 DEF KeyInv
  <2> QED BY <2>1, <2>2 DEF AccountsNext, Acts
<1>3. KeyInv => KeysWithinQuota
  BY DEF KeyInv
<1> QED BY <1>1, <1>2, <1>3, PTL DEF AccountsSpec
=============================================================================
