-------------------------- MODULE DashboardsProofs --------------------------
(***************************************************************************)
(* Theorems about Dashboards, for any number of requests, dashboards,      *)
(* alerts and files: versions, alerts that follow their dashboard, and the *)
(* dashboards of a plugin.                                                 *)
(***************************************************************************)
EXTENDS Dashboards, FiniteSetTheorems, SequenceTheorems, TLAPS

-----------------------------------------------------------------------------
(* The commands of a thread *)

\* Commands that may stand in a list of several: those of a sync.
SyncCmd(c) ==
  \/ c.op \in {"SaveDashboard", "DeleteDashboard"} /\ c.args.plugin
  \/ c.op = "UpdatePluginSettingVersion"

\* The alerts of a dashboard are those of some JSON that was saved.
Proper(data) == \E j \in Jsons : data.alerts = j.alerts

CmdRight(c) ==
  /\ DOMAIN c = {"op", "seen", "tries", "args"}
  /\ c.op \in {"validateDashboardAlerts", "SaveDashboard"} =>
       /\ DOMAIN c.args = {"id", "version", "sent", "data", "overwrite", "plugin"}
       /\ c.args.id \in {0} \cup DashIds /\ Proper(c.args.data) /\ c.args.plugin \in BOOLEAN
       /\ c.args.plugin => c.op = "SaveDashboard" /\ c.args.id = 0
  /\ c.op = "SaveAlerts" => c.args.dash \in DashIds /\ Proper(c.args.data)

Shape(l) ==
  /\ \A i \in 1..Len(l) : CmdRight(l[i])
  /\ \A i \in 2..Len(l) : l[i].seen = <<>>
  /\ Len(l) > 1 => \A i \in 1..Len(l) : SyncCmd(l[i])

Unbegun(l) == \A i \in 1..Len(l) : l[i].seen = <<>>
Fresh(l) == (\E S : l \in Seq(S)) /\ Shape(l) /\ Unbegun(l)

ListsRight ==
  /\ \E S : todo \in [Threads -> Seq(S)]
  /\ \A p \in Threads : Shape(todo[p])

Others(p) == \A q \in Threads \ {p} : todo'[q] = todo[q]

LEMMA ListFacts ==
  ASSUME ListsRight, NEW p \in Threads
  PROVE  /\ \E S : todo[p] \in Seq(S)
         /\ Len(todo[p]) \in Nat /\ (todo[p] # <<>> => Len(todo[p]) > 0)
         /\ Head(todo[p]) = todo[p][1]
         /\ todo[p] # <<>> => CmdRight(Head(todo[p]))
<1>1. PICK S : todo \in [Threads -> Seq(S)]
  BY DEF ListsRight
<1>2. todo[p] \in Seq(S) /\ Len(todo[p]) \in Nat
  BY <1>1
<1>3. todo[p] # <<>> => Len(todo[p]) > 0
  BY <1>2, EmptySeq
<1>4. Head(todo[p]) = todo[p][1]
  OBVIOUS
<1>5. todo[p] # <<>> => CmdRight(todo[p][1])
  BY <1>2, <1>3 DEF ListsRight, Shape
<1> QED BY <1>2, <1>3, <1>4, <1>5

LEMMA TailFresh ==
  ASSUME NEW S, NEW l \in Seq(S), l # <<>>, Shape(l)
  PROVE  /\ Tail(l) \in Seq(S) /\ Fresh(Tail(l)) /\ Len(Tail(l)) = Len(l) - 1
         /\ \A i \in 1..Len(Tail(l)) : Tail(l)[i] = l[i + 1]
<1> DEFINE t == Tail(l)
<1>1. Len(l) \in Nat \ {0}
  BY EmptySeq
<1>2. t \in Seq(S) /\ Len(t) = Len(l) - 1 /\ \A i \in 1..Len(t) : t[i] = l[i + 1]
  BY <1>1
<1> HIDE DEF t
<1>3. \A i \in 1..Len(t) : i + 1 \in 2..Len(l) /\ i + 1 \in 1..Len(l)
  BY <1>1, <1>2
<1>4. Shape(t) /\ Unbegun(t)
  BY <1>1, <1>2, <1>3 DEF Shape, Unbegun
<1> QED BY <1>2, <1>4 DEF t, Fresh

LEMMA PutList ==
  ASSUME ListsRight, NEW p \in Threads, NEW l, Fresh(l), todo' = [todo EXCEPT ![p] = l]
  PROVE  ListsRight' /\ Others(p) /\ ~ Begun(p)' /\ todo'[p] = l
<1>1. PICK S : todo \in [Threads -> Seq(S)]
  BY DEF ListsRight
<1>2. PICK C : l \in Seq(C)
  BY DEF Fresh
<1>3. Seq(S) \subseteq Seq(S \cup C) /\ Seq(C) \subseteq Seq(S \cup C)
  OBVIOUS
<1>4. todo' \in [Threads -> Seq(S \cup C)]
  BY <1>1, <1>2, <1>3
<1>5. \E D : todo' \in [Threads -> Seq(D)]
  BY <1>4
<1>6. todo'[p] = l /\ Others(p)
  BY <1>1 DEF Others
<1>7. \A q \in Threads : Shape(todo'[q])
  BY <1>6 DEF ListsRight, Others, Fresh
<1>8. l # <<>> => Head(l).seen = <<>>
  <2>1. Head(l) = l[1]
    OBVIOUS
  <2>2. l # <<>> => 1 \in 1..Len(l)
    BY <1>2, EmptySeq
  <2> QED BY <2>1, <2>2 DEF Fresh, Unbegun
<1>9. ListsRight'
  BY <1>5, <1>7 DEF ListsRight, Shape, CmdRight, SyncCmd, Proper
<1> QED BY <1>6, <1>8, <1>9 DEF Begun

LEMMA Nothing ==
  /\ <<>> \in Seq({}) /\ Len(<<>>) = 0 /\ Fresh(<<>>)
BY EmptySeq DEF Fresh, Shape, Unbegun

LEMMA OneCmd ==
  ASSUME NEW c, CmdRight(c), c.seen = <<>>
  PROVE  Fresh(<<c>>)
<1> DEFINE l == <<c>>
<1>1. l \in Seq({c}) /\ Len(l) = 1 /\ l[1] = c
  OBVIOUS
<1> HIDE DEF l
<1>2. Shape(l) /\ Unbegun(l)
  BY <1>1 DEF Shape, Unbegun
<1>3. Fresh(l)
  BY <1>1, <1>2 DEF Fresh
<1> QED BY <1>3 DEF l

LEMMA AfterFail ==
  ASSUME ListsRight, NEW p \in Threads, Fail(p)
  PROVE  ListsRight' /\ Others(p) /\ ~ Begun(p)' /\ todo'[p] = <<>>
BY Nothing, PutList DEF Fail

LEMMA AfterDone ==
  ASSUME ListsRight, NEW p \in Threads, todo[p] # <<>>, Then(p, <<>>)
  PROVE  ListsRight' /\ Others(p) /\ ~ Begun(p)' /\ todo'[p] = Tail(todo[p]) /\ Fresh(todo'[p])
<1>1. PICK S : todo \in [Threads -> Seq(S)]
  BY DEF ListsRight
<1>2. Tail(todo[p]) \in Seq(S) /\ Fresh(Tail(todo[p]))
  BY <1>1, TailFresh DEF ListsRight
<1>3. <<>> \o Tail(todo[p]) = Tail(todo[p])
  BY <1>2, ConcatEmptySeq
<1>4. todo' = [todo EXCEPT ![p] = Tail(todo[p])]
  BY <1>1, <1>3 DEF Then
<1> QED BY <1>2, <1>4, PutList

\* A command that is not of a sync is alone.
LEMMA Alone1 ==
  ASSUME ListsRight, NEW p \in Threads, todo[p] # <<>>, ~ SyncCmd(Head(todo[p]))
  PROVE  Len(todo[p]) = 1 /\ Tail(todo[p]) = <<>>
<1>1. PICK S : todo[p] \in Seq(S)
  BY ListFacts
<1>2. Len(todo[p]) \in Nat \ {0} /\ Head(todo[p]) = todo[p][1]
  BY ListFacts
<1>3. Len(todo[p]) = 1
  <2>1. 1 \in 1..Len(todo[p]) /\ ~ SyncCmd(todo[p][1]) /\ Shape(todo[p])
    BY <1>2 DEF ListsRight
  <2>2. Len(todo[p]) > 1 => SyncCmd(todo[p][1])
    BY <2>1, Zenon DEF Shape
  <2>3. ~ (Len(todo[p]) > 1)
    BY <2>1, <2>2, Zenon
  <2>4. Len(todo[p]) \in Nat \ {0}
    BY <1>2
  <2>5. \A n \in Nat \ {0} : ~ (n > 1) => n = 1
    OBVIOUS
  <2> QED BY <2>3, <2>4, <2>5, Zenon
<1>4. Tail(todo[p]) \in Seq(S) /\ Len(Tail(todo[p])) = 0
  BY <1>1, <1>3
<1> QED BY <1>3, <1>4, EmptySeq

LEMMA AfterThen ==
  ASSUME ListsRight, NEW p \in Threads, todo[p] # <<>>, ~ SyncCmd(Head(todo[p])),
         NEW l, Fresh(l), Then(p, l)
  PROVE  ListsRight' /\ Others(p) /\ ~ Begun(p)' /\ todo'[p] = l
<1>1. PICK S : todo \in [Threads -> Seq(S)]
  BY DEF ListsRight
<1>2. PICK C : l \in Seq(C)
  BY DEF Fresh
<1>3. l \o <<>> = l
  BY <1>2, ConcatEmptySeq
<1>4. todo' = [todo EXCEPT ![p] = l]
  BY <1>1, <1>3, Alone1 DEF Then
<1> QED BY <1>4, PutList

\* A transaction that begins: the command itself stays what it is.
LEMMA HeadChanged ==
  ASSUME ListsRight, NEW p \in Threads, todo[p] # <<>>,
         NEW c, CmdRight(c), SyncCmd(Head(todo[p])) => SyncCmd(c),
         todo' = [todo EXCEPT ![p][1] = c]
  PROVE  /\ ListsRight' /\ Others(p) /\ todo'[p] # <<>> /\ Head(todo'[p]) = c
         /\ Len(todo'[p]) = Len(todo[p]) /\ \A i \in 2..Len(todo[p]) : todo'[p][i] = todo[p][i]
<1> DEFINE l == [todo[p] EXCEPT ![1] = c]
<1>1. PICK S : todo \in [Threads -> Seq(S)]
  BY DEF ListsRight
<1>2. Len(todo[p]) \in Nat \ {0} /\ Head(todo[p]) = todo[p][1]
  BY ListFacts
<1>3. todo' = [todo EXCEPT ![p] = l]
  BY <1>1
<1>4. /\ l \in Seq(S \cup {c}) /\ Len(l) = Len(todo[p]) /\ l[1] = c
      /\ \A i \in 2..Len(todo[p]) : l[i] = todo[p][i]
  BY <1>1, <1>2
<1> HIDE DEF l
<1>5. Shape(l)
  BY <1>2, <1>4 DEF ListsRight, Shape
<1>6. Seq(S) \subseteq Seq(S \cup {c})
  OBVIOUS
<1>7. todo' \in [Threads -> Seq(S \cup {c})]
  BY <1>1, <1>3, <1>4, <1>6
<1>8. \E D : todo' \in [Threads -> Seq(D)]
  BY <1>7
<1>9. todo'[p] = l /\ Others(p)
  BY <1>1, <1>3 DEF Others
<1>10. \A q \in Threads : Shape(todo'[q])
  BY <1>5, <1>9 DEF ListsRight, Others
<1>11. ListsRight'
  BY <1>8, <1>10 DEF ListsRight, Shape, CmdRight, SyncCmd, Proper
<1>12. Head(l) = l[1]
  OBVIOUS
<1>13. Len(l) # 0
  BY <1>2, <1>4
<1>14. l # <<>>
  BY <1>13
<1> QED BY <1>4, <1>9, <1>11, <1>12, <1>14

-----------------------------------------------------------------------------
(* The list of a sync *)

LEMMA SetToSeqRight ==
  ASSUME NEW S, IsFiniteSet(S)
  PROVE  /\ SetToSeq(S) \in [1..Cardinality(S) -> S] /\ Cardinality(S) \in Nat
         /\ SetToSeq(S) \in Seq(S) /\ Len(SetToSeq(S)) = Cardinality(S)
         /\ \A i, j \in DOMAIN SetToSeq(S) : SetToSeq(S)[i] = SetToSeq(S)[j] => i = j
         /\ \A x \in S : \E i \in DOMAIN SetToSeq(S) : SetToSeq(S)[i] = x
<1> DEFINE n == Cardinality(S)
<1>1. n \in Nat /\ ExistsBijection(1..n, S)
  BY FS_CardinalityType
<1>2. \E f \in [1..n -> S] : IsInjective(f)
  BY <1>1 DEF ExistsBijection, Bijection, Injection
<1>3. SetToSeq(S) \in [1..n -> S] /\ IsInjective(SetToSeq(S))
  BY <1>2 DEF SetToSeq
<1>4. SetToSeq(S) \in Injection(1..n, S) /\ IsFiniteSet(1..n) /\ Cardinality(1..n) = n
  BY <1>1, <1>3, FS_Interval DEF Injection
<1>5. SetToSeq(S) \in Surjection(1..n, S)
  BY <1>4, FS_Injection
<1>6. \A x \in S : \E i \in DOMAIN SetToSeq(S) : SetToSeq(S)[i] = x
  BY <1>3, <1>5 DEF Surjection
<1>7. \A i, j \in DOMAIN SetToSeq(S) : SetToSeq(S)[i] = SetToSeq(S)[j] => i = j
  BY <1>3 DEF IsInjective
<1> DEFINE f == SetToSeq(S)
<1>8. f \in [1..n -> S] /\ n \in Nat
  BY <1>1, <1>3
<1> HIDE DEF f, n
<1>9. f \in Seq(S) /\ Len(f) = n
  BY <1>8
<1> QED BY <1>6, <1>7, <1>8, <1>9 DEF f, n

Good(c) == CmdRight(c) /\ SyncCmd(c) /\ c.seen = <<>>
AllGood(l) == (\E S : l \in Seq(S)) /\ \A i \in 1..Len(l) : Good(l[i])

LEMMA GoodFresh == ASSUME NEW l, AllGood(l) PROVE Fresh(l)
<1>1. PICK S : l \in Seq(S)
  BY DEF AllGood
<1>2. Len(l) \in Nat
  BY <1>1
<1>3. \A i \in 2..Len(l) : i \in 1..Len(l)
  BY <1>2
<1> QED BY <1>1, <1>3, Zenon DEF AllGood, Good, Fresh, Shape, Unbegun

LEMMA GoodConcat ==
  ASSUME NEW l, NEW k, AllGood(l), AllGood(k)
  PROVE  AllGood(l \o k)
<1>1. PICK S : l \in Seq(S)
  BY DEF AllGood
<1>2. PICK T : k \in Seq(T)
  BY DEF AllGood
<1>3. Seq(S) \subseteq Seq(S \cup T) /\ Seq(T) \subseteq Seq(S \cup T)
  OBVIOUS
<1>4. l \in Seq(S \cup T) /\ k \in Seq(S \cup T)
  BY <1>1, <1>2, <1>3
<1> DEFINE m == l \o k
<1>5. /\ m \in Seq(S \cup T) /\ Len(m) = Len(l) + Len(k) /\ Len(l) \in Nat /\ Len(k) \in Nat
      /\ \A i \in 1..Len(m) : m[i] = IF i <= Len(l) THEN l[i] ELSE k[i - Len(l)]
  BY <1>4
<1> HIDE DEF m
<1>6. ASSUME NEW i \in 1..Len(m) PROVE Good(m[i])
  <2>1. CASE i <= Len(l)
    BY <1>5, <1>6, <2>1 DEF AllGood
  <2>2. CASE ~ (i <= Len(l))
    <3>1. i - Len(l) \in 1..Len(k)
      BY <1>5, <2>2
    <3> QED BY <1>5, <2>2, <3>1 DEF AllGood
  <2> QED BY <2>1, <2>2
<1>7. AllGood(m)
  BY <1>5, <1>6 DEF AllGood
<1> QED BY <1>7 DEF m

LEMMA GoodDelete == ASSUME NEW s PROVE Good(Delete(s))
BY DEF Good, Delete, Cmd, CmdRight, SyncCmd

LEMMA GoodImport == ASSUME NEW data \in Jsons PROVE Good(Import(data))
BY DEF Good, Import, Cmd, CmdRight, SyncCmd, Proper

LEMMA GoodMark == Good(Cmd("UpdatePluginSettingVersion", [plugin |-> TRUE]))
BY DEF Good, Cmd, CmdRight, SyncCmd

LEMMA ImportsGood ==
  ASSUME NEW F, IsFiniteSet(F), F \subseteq Jsons
  PROVE  AllGood([i \in DOMAIN SetToSeq(F) |-> Import(SetToSeq(F)[i])])
<1> DEFINE s == SetToSeq(F)
<1> DEFINE l == [i \in DOMAIN s |-> Import(s[i])]
<1> DEFINE n == Cardinality(F)
<1>1. s \in [1..n -> F] /\ n \in Nat
  BY SetToSeqRight
<1> HIDE DEF s, n
<1>2. l = [i \in 1..n |-> Import(s[i])]
  BY <1>1
<1>3. l \in Seq({Import(s[i]) : i \in 1..n}) /\ Len(l) = n
  BY <1>1, <1>2
<1>4. \A i \in 1..Len(l) : l[i] = Import(s[i]) /\ s[i] \in Jsons
  BY <1>1, <1>2, <1>3
<1> HIDE DEF l
<1>5. AllGood(l)
  BY <1>3, <1>4, GoodImport DEF AllGood
<1> QED BY <1>5 DEF l, s

LEMMA DeletesGood ==
  ASSUME NEW W, IsFiniteSet(W)
  PROVE  AllGood([i \in DOMAIN SetToSeq(W) |-> Delete(SetToSeq(W)[i])])
<1> DEFINE s == SetToSeq(W)
<1> DEFINE l == [i \in DOMAIN s |-> Delete(s[i])]
<1> DEFINE n == Cardinality(W)
<1>1. s \in [1..n -> W] /\ n \in Nat
  BY SetToSeqRight
<1> HIDE DEF s, n
<1>2. l = [i \in 1..n |-> Delete(s[i])]
  BY <1>1
<1>3. l \in Seq({Delete(s[i]) : i \in 1..n}) /\ Len(l) = n
  BY <1>1, <1>2
<1>4. \A i \in 1..Len(l) : l[i] = Delete(s[i])
  BY <1>1, <1>2, <1>3
<1> HIDE DEF l
<1>5. AllGood(l)
  BY <1>3, <1>4, GoodDelete DEF AllGood
<1> QED BY <1>5 DEF l, s

\* Slugs of dashboards are finitely many.
LEMMA SlugsFinite ==
  ASSUME NEW D \in SUBSET DashIds
  PROVE  IsFiniteSet({dashboards[d].data.slug : d \in D})
<1> DEFINE W == {dashboards[d].data.slug : d \in D}
<1>1. IsFiniteSet(D)
  <2>1. MaxDash \in Int
    BY DashboardsAssumption
  <2>2. IsFiniteSet(DashIds)
    BY <2>1, FS_Interval DEF DashIds
  <2> QED BY <2>2, FS_Subset
<1> DEFINE f == [d \in D |-> dashboards[d].data.slug]
<1>2. f \in Surjection(D, W)
  BY DEF Surjection
<1> QED BY <1>1, <1>2, FS_Surjection

LEMMA FilesFinite ==
  ASSUME NEW n \in DOMAIN Files, NEW F \in SUBSET Files[n]
  PROVE  IsFiniteSet(F) /\ F \subseteq Jsons
<1>1. Files[n] \in Range(Files)
  BY DEF Range
<1>2. IsFiniteSet(Files[n]) /\ Files[n] \subseteq Jsons
  BY <1>1, DashboardsAssumption DEF Jsons
<1> QED BY <1>2, FS_Subset

-----------------------------------------------------------------------------
(* What a step does to the lists *)

\* A thread that has no transaction any more, or not yet.
QuietStep(p) == ListsRight' /\ Others(p) /\ ~ Begun(p)'

\* A thread whose transaction has begun and has read t.
BeginStep(p, t) ==
  /\ ListsRight' /\ Others(p) /\ todo[p] # <<>> /\ todo'[p] # <<>>
  /\ Head(todo'[p]) = [Head(todo[p]) EXCEPT !.seen = <<t>>]
  /\ Head(todo'[p]).op = Head(todo[p]).op /\ Head(todo'[p]).args = Head(todo[p]).args
  /\ Head(todo'[p]).seen = <<t>>
  /\ Len(todo'[p]) = Len(todo[p]) /\ \A i \in 2..Len(todo[p]) : todo'[p][i] = todo[p][i]

LEMMA BeginFacts ==
  ASSUME NEW p \in Threads, NEW t, BeginStep(p, t)
  PROVE  /\ Seen(p)' = t /\ Args(p)' = Args(p) /\ Begun(p)' /\ ListsRight' /\ Others(p)
         /\ \A op : At(p, op)' <=> At(p, op)
<1>1. Head(todo'[p]).seen = <<t>> /\ <<t>>[1] = t /\ <<t>> # <<>>
  BY DEF BeginStep
<1>2. Seen(p)' = t
  BY <1>1 DEF Seen
<1>3. Args(p)' = Args(p) /\ Begun(p)'
  BY <1>1 DEF BeginStep, Args, Begun
<1>4. \A op : At(p, op)' <=> At(p, op)
  BY DEF BeginStep, At
<1> QED BY <1>2, <1>3, <1>4 DEF BeginStep

LEMMA AfterSees ==
  ASSUME ListsRight, NEW p \in Threads, todo[p] # <<>>, NEW t, Sees(p, t)
  PROVE  BeginStep(p, t)
<1> DEFINE h == Head(todo[p])
           c == [h EXCEPT !.seen = <<t>>]
<1>1. CmdRight(h) /\ h = todo[p][1]
  BY ListFacts
<1>2. todo' = [todo EXCEPT ![p][1] = c]
  BY <1>1 DEF Sees
<1>3. c.op = h.op /\ c.args = h.args /\ c.seen = <<t>> /\ DOMAIN c = DOMAIN h
  BY <1>1 DEF CmdRight
<1> HIDE DEF c
<1>4. CmdRight(c) /\ (SyncCmd(h) => SyncCmd(c))
  BY <1>1, <1>3 DEF CmdRight, SyncCmd
<1>5. /\ ListsRight' /\ Others(p) /\ todo'[p] # <<>> /\ Head(todo'[p]) = c
      /\ Len(todo'[p]) = Len(todo[p]) /\ \A i \in 2..Len(todo[p]) : todo'[p][i] = todo[p][i]
  BY <1>2, <1>4, HeadChanged
<1>6. c = [h EXCEPT !.seen = <<t>>]
  BY DEF c
<1> QED BY <1>3, <1>5, <1>6 DEF BeginStep

LEMMA RetriedRight ==
  ASSUME NEW c, CmdRight(c)
  PROVE  /\ CmdRight(Retried(c)) /\ Retried(c).seen = <<>> /\ Retried(c).op = c.op
         /\ SyncCmd(c) => SyncCmd(Retried(c))
         /\ c.op # "SaveDashboard" => Retried(c).args = c.args
         /\ c.op = "SaveDashboard" =>
              /\ Retried(c).args.id = c.args.id /\ Retried(c).args.data = c.args.data
              /\ Retried(c).args.plugin = c.args.plugin /\ Retried(c).args.overwrite = c.args.overwrite
<1> DEFINE r == Retried(c)
           again == [c EXCEPT !.seen = <<>>, !.tries = @ + 1]
<1>1. /\ again.op = c.op /\ again.args = c.args /\ again.seen = <<>>
      /\ DOMAIN again = {"op", "seen", "tries", "args"}
  BY DEF CmdRight
<1> HIDE DEF again
<1>2. CASE ~ (c.op = "SaveDashboard" /\ c.args.id > 0)
  <2>1. r = again
    BY <1>2 DEF Retried, again
  <2> HIDE DEF r
  <2>2. CmdRight(r) /\ (SyncCmd(c) => SyncCmd(r))
    BY <1>1, <2>1 DEF CmdRight, SyncCmd
  <2> QED BY <1>1, <2>1, <2>2 DEF r
<1>3. CASE c.op = "SaveDashboard" /\ c.args.id > 0
  <2> DEFINE n == Parent(c.args, c.seen[1]) + 1
             a == [c.args EXCEPT !.version = n]
  <2>1. r = [again EXCEPT !.args.version = n]
    BY <1>3 DEF Retried, again
  <2>2. r.op = c.op /\ r.args = a /\ r.seen = <<>> /\ DOMAIN r = {"op", "seen", "tries", "args"}
    <3> HIDE DEF n
    <3> QED BY <1>1, <2>1
  <2> HIDE DEF r, n
  <2>3. /\ DOMAIN a = DOMAIN c.args /\ a.id = c.args.id /\ a.data = c.args.data
        /\ a.plugin = c.args.plugin /\ a.overwrite = c.args.overwrite
    BY <1>3 DEF CmdRight
  <2> HIDE DEF a
  <2>4. CmdRight(r) /\ (SyncCmd(c) => SyncCmd(r))
    BY <1>3, <2>2, <2>3 DEF CmdRight, SyncCmd
  <2> QED BY <1>3, <2>2, <2>3, <2>4 DEF r
<1> QED BY <1>2, <1>3

LEMMA AfterRetry ==
  ASSUME ListsRight, NEW p \in Threads, todo[p] # <<>>, todo' = [todo EXCEPT ![p][1] = Retried(@)]
  PROVE  /\ QuietStep(p) /\ todo'[p] # <<>> /\ Head(todo'[p]) = Retried(Head(todo[p]))
         /\ Len(todo'[p]) = Len(todo[p]) /\ \A i \in 2..Len(todo[p]) : todo'[p][i] = todo[p][i]
<1> DEFINE h == Head(todo[p])
           c == Retried(h)
<1>1. CmdRight(h) /\ h = todo[p][1]
  BY ListFacts
<1>2. todo' = [todo EXCEPT ![p][1] = c]
  BY <1>1
<1>3. CmdRight(c) /\ c.seen = <<>> /\ (SyncCmd(h) => SyncCmd(c))
  BY <1>1, RetriedRight
<1> HIDE DEF c
<1>4. /\ ListsRight' /\ Others(p) /\ todo'[p] # <<>> /\ Head(todo'[p]) = c
      /\ Len(todo'[p]) = Len(todo[p]) /\ \A i \in 2..Len(todo[p]) : todo'[p][i] = todo[p][i]
  BY <1>2, <1>3, HeadChanged
<1> QED BY <1>3, <1>4 DEF QuietStep, Begun, c

-----------------------------------------------------------------------------
(* Rows and the tables that transactions have read *)

RowRight(r) ==
  /\ DOMAIN r = {"version", "data", "plugin"}
  /\ r.version \in Nat \ {0} /\ r.plugin \in BOOLEAN /\ Proper(r.data)

TableRight(t) ==
  /\ DOMAIN t = DashIds
  /\ \A d \in DashIds : t[d] # NoRow => d <= lastDash /\ RowRight(t[d])

HistoryRight ==
  /\ IsFiniteSet(history)
  /\ \A v \in history :
       /\ DOMAIN v = {"dash", "version", "parent", "data"}
       /\ v.dash \in DashIds /\ dashboards[v.dash] # NoRow
       /\ v.version \in Nat \ {0} /\ Proper(v.data)
  /\ \A v, w \in history : v.dash = w.dash /\ v.version = w.version => v = w

\* A save writes a dashboard that was there when it was read, or a new one.
SaveRight(p) == TableRight(Seen(p)) /\ (Args(p).id # 0 => Seen(p)[Args(p).id] # NoRow)

BasicInv ==
  /\ ListsRight /\ lastDash \in Nat /\ TableRight(dashboards) /\ HistoryRight
  /\ disk \in DOMAIN Files
  /\ \A p \in Threads : At(p, "SaveDashboard") /\ Begun(p) => SaveRight(p)

\* The rest follows where no dashboard is lost and nobody reads.
LEMMA BasicQuiet ==
  ASSUME BasicInv, ListsRight', (lastDash \in Nat /\ TableRight(dashboards) /\ HistoryRight)',
         lastDash' >= lastDash, disk' \in DOMAIN Files,
         \A p \in Threads : todo'[p] = todo[p] \/ ~ Begun(p)'
  PROVE  BasicInv'
<1> SUFFICES ASSUME NEW p \in Threads, At(p, "SaveDashboard")', Begun(p)'
             PROVE  SaveRight(p)'
  BY DEF BasicInv
<1>1. todo'[p] = todo[p]
  OBVIOUS
<1>2. SaveRight(p)
  BY <1>1 DEF BasicInv, At, Begun
<1>3. Seen(p)' = Seen(p) /\ Args(p)' = Args(p)
  BY <1>1 DEF Seen, Args
<1>4. TableRight(Seen(p))'
  <2> DEFINE t == Seen(p)
  <2>1. TableRight(t) /\ lastDash \in Nat /\ lastDash' \in Nat
    BY <1>2 DEF SaveRight, BasicInv
  <2>2. \A d \in DashIds : d <= lastDash => d <= lastDash'
    BY <2>1 DEF DashIds
  <2>3. Seen(p)' = t
    BY <1>3
  <2> HIDE DEF t
  <2> QED BY <2>1, <2>2, <2>3 DEF TableRight, RowRight, Proper
<1> QED BY <1>2, <1>3, <1>4 DEF SaveRight

LEMMA BasicSame ==
  ASSUME BasicInv, ListsRight', UNCHANGED <<dashboards, lastDash, history, disk>>,
         \A p \in Threads : todo'[p] = todo[p] \/ ~ Begun(p)'
  PROVE  BasicInv'
<1>1. (lastDash \in Nat /\ TableRight(dashboards) /\ HistoryRight)' /\ lastDash' >= lastDash /\ disk' \in DOMAIN Files
  BY DEF BasicInv, TableRight, HistoryRight, RowRight, Proper
<1> QED BY <1>1, BasicQuiet

\* Another transaction begins than one that saves a dashboard.
LEMMA BasicBegins ==
  ASSUME BasicInv, UNCHANGED <<dashboards, lastDash, history, disk>>,
         NEW p \in Threads, NEW t, BeginStep(p, t), ~ At(p, "SaveDashboard")
  PROVE  BasicInv'
<1>1. (lastDash \in Nat /\ TableRight(dashboards) /\ HistoryRight)' /\ disk' \in DOMAIN Files
  BY DEF BasicInv, TableRight, HistoryRight, RowRight, Proper
<1>2. ASSUME NEW q \in Threads, At(q, "SaveDashboard")', Begun(q)'
      PROVE  SaveRight(q)'
  <2>1. q # p
    BY <1>2 DEF BeginStep, At
  <2>2. todo'[q] = todo[q]
    BY <2>1 DEF BeginStep, Others
  <2>3. SaveRight(q)
    BY <1>2, <2>2 DEF BasicInv, At, Begun
  <2> QED BY <2>2, <2>3 DEF SaveRight, TableRight, RowRight, Proper, Seen, Args
<1> QED BY <1>1, <1>2 DEF BasicInv, BeginStep

LEMMA BasicStart == DashboardsInit => BasicInv
<1> SUFFICES ASSUME DashboardsInit PROVE BasicInv
  OBVIOUS
<1>1. ListsRight
  <2>1. todo = [p \in Threads |-> <<>>]
    BY DEF DashboardsInit
  <2>2. todo \in [Threads -> Seq({})] /\ \A p \in Threads : Shape(todo[p])
    BY <2>1, Nothing DEF Fresh
  <2> QED BY <2>2 DEF ListsRight
<1>2. \A p \in Threads : ~ Begun(p)
  BY DEF DashboardsInit, Begun
<1>3. disk \in DOMAIN Files
  BY DashboardsAssumption DEF DashboardsInit
<1>4. lastDash \in {1, 2} /\ lastDash \in DashIds
  BY DEF DashboardsInit
<1> DEFINE n == IF lastDash = 1 THEN 1 ELSE MaxKeep + 1
           data(first, d) == IF d = 1 THEN first ELSE [first EXCEPT !.slug = "b"]
           row(first, d) == [version |-> n, data |-> data(first, d), plugin |-> FALSE]
           old(first, d, v) == [dash |-> d, version |-> v, parent |-> v - 1, data |-> data(first, d)]
<1>5. PICK first \in Datas :
        /\ dashboards = [d \in DashIds |-> IF d <= lastDash THEN row(first, d) ELSE NoRow]
        /\ history = UNION {{old(first, d, v) : v \in 1..n} : d \in 1..lastDash}
  BY DEF DashboardsInit
<1>6. n \in Nat \ {0}
  BY DashboardsAssumption DEF MaxKeep
<1>7. \A d \in DashIds : Proper(data(first, d))
  <2>1. first \in Jsons /\ DOMAIN first = {"slug", "alerts", "rev"}
    BY DashboardsAssumption DEF Jsons
  <2>2. \A d \in DashIds : data(first, d).alerts = first.alerts
    BY <2>1
  <2> HIDE DEF data
  <2> QED BY <2>1, <2>2 DEF Proper
<1> HIDE DEF n, data
<1>8. TableRight(dashboards)
  <2>1. DOMAIN dashboards = DashIds
    BY <1>5
  <2>2. ASSUME NEW d \in DashIds, dashboards[d] # NoRow
        PROVE  d <= lastDash /\ RowRight(dashboards[d])
    <3>1. d <= lastDash /\ dashboards[d] = row(first, d)
      BY <1>5, <2>2
    <3>2. RowRight(row(first, d))
      BY <1>6, <1>7 DEF RowRight
    <3> QED BY <3>1, <3>2
  <2> QED BY <2>1, <2>2 DEF TableRight
<1>9. HistoryRight
  <2>1. ASSUME NEW v \in history
        PROVE  \E d \in 1..lastDash, k \in 1..n : v = old(first, d, k)
    BY <1>5
  <2>2. 1..lastDash \subseteq DashIds
    <3>1. MaxDash \in Nat
      BY DashboardsAssumption
    <3> QED BY <1>4, <3>1 DEF DashIds
  <2>3. ASSUME NEW v \in history
        PROVE  /\ DOMAIN v = {"dash", "version", "parent", "data"}
               /\ v.dash \in DashIds /\ dashboards[v.dash] # NoRow
               /\ v.version \in Nat \ {0} /\ Proper(v.data)
    <3>1. PICK d \in 1..lastDash, k \in 1..n : v = old(first, d, k)
      BY <2>1
    <3>2. d \in DashIds /\ d <= lastDash /\ k \in Nat \ {0}
      BY <1>4, <1>6, <2>2
    <3>3. dashboards[d].version = n
      BY <1>5, <3>2
    <3>4. dashboards[d] # NoRow
      BY <1>6, <3>3 DEF NoRow
    <3> QED BY <1>7, <3>1, <3>2, <3>4
  <2>4. ASSUME NEW v \in history, NEW w \in history, v.dash = w.dash, v.version = w.version
        PROVE  v = w
    <3>1. PICK d \in 1..lastDash, k \in 1..n : v = old(first, d, k)
      BY <2>1
    <3>2. PICK e \in 1..lastDash, m \in 1..n : w = old(first, e, m)
      BY <2>1
    <3> QED BY <2>4, <3>1, <3>2
  <2>5. IsFiniteSet(history)
    <3> DEFINE of(d) == {old(first, d, v) : v \in 1..n}
               f(d) == [v \in 1..n |-> old(first, d, v)]
    <3>1. IsFiniteSet(1..n) /\ IsFiniteSet(1..lastDash)
      BY <1>4, <1>6, FS_Interval
    <3>2. ASSUME NEW d \in 1..lastDash PROVE IsFiniteSet(of(d))
      <4>1. f(d) \in Surjection(1..n, of(d))
        BY DEF Surjection
      <4> QED BY <3>1, <4>1, FS_Surjection
    <3> DEFINE all == {of(d) : d \in 1..lastDash}
               g == [d \in 1..lastDash |-> of(d)]
    <3>3. g \in Surjection(1..lastDash, all)
      BY DEF Surjection
    <3>4. IsFiniteSet(all)
      BY <3>1, <3>3, FS_Surjection
    <3>5. \A T \in all : IsFiniteSet(T)
      BY <3>2
    <3>6. history = UNION all
      BY <1>5
    <3> HIDE DEF all
    <3> QED BY <3>4, <3>5, <3>6, FS_UNION
  <2> QED BY <2>3, <2>4, <2>5 DEF HistoryRight
<1> QED BY <1>1, <1>2, <1>3, <1>4, <1>8, <1>9 DEF BasicInv

-----------------------------------------------------------------------------
(* What each action does to its thread *)

LEMMA SaveReadStep ==
  ASSUME ListsRight, NEW p \in Threads, SaveRead(p)
  PROVE  \/ QuietStep(p) /\ todo'[p] = <<>>
         \/ BeginStep(p, dashboards) /\ Refusal(Args(p), dashboards) = ""
<1>1. todo[p] # <<>>
  BY DEF SaveRead, Waits, At
<1>2. CASE Fail(p)
  BY <1>2, AfterFail DEF QuietStep
<1>3. CASE Sees(p, dashboards) /\ Refusal(Args(p), dashboards) = ""
  BY <1>1, <1>3, AfterSees
<1> QED BY <1>2, <1>3 DEF SaveRead

LEMMA DeleteReadStep ==
  ASSUME ListsRight, NEW p \in Threads, DeleteRead(p)
  PROVE  (QuietStep(p) /\ todo'[p] = <<>>) \/ BeginStep(p, WithSlug(dashboards, Args(p).slug))
<1>1. todo[p] # <<>>
  BY DEF DeleteRead, Waits, At
<1> QED BY <1>1, AfterFail, AfterSees DEF QuietStep, DeleteRead

LEMMA ExpireReadStep ==
  ASSUME ListsRight, NEW p \in Threads, ExpireRead(p)
  PROVE  BeginStep(p, getVersionIDsToDelete(Excess(history)))
<1>1. todo[p] # <<>>
  BY DEF ExpireRead, Waits, At
<1> QED BY <1>1, AfterSees DEF ExpireRead

LEMMA AlertsReadStep ==
  ASSUME ListsRight, NEW p \in Threads, AlertsRead(p)
  PROVE  \/ QuietStep(p) /\ todo'[p] = <<>> /\ disturbed' = disturbed \cup {Args(p).dash}
         \/ BeginStep(p, AlertsOf(Args(p).dash)) /\ disturbed' = disturbed
<1>1. todo[p] # <<>>
  BY DEF AlertsRead, Waits, At
<1> QED BY <1>1, AfterFail, AfterSees DEF QuietStep, AlertsRead, Disturb

LEMMA StateReadStep ==
  ASSUME ListsRight, NEW p \in Threads, StateRead(p)
  PROVE  \/ QuietStep(p) /\ todo'[p] = <<>>
         \/ BeginStep(p, {a \in alerts : a.id = Args(p).id})
<1>1. todo[p] # <<>>
  BY DEF StateRead, Waits, At
<1> QED BY <1>1, AfterFail, AfterSees DEF QuietStep, StateRead

\* A list that has nothing but commands of a sync, none of which has begun.
Leftover(l) == Fresh(l) /\ \A i \in 1..Len(l) : SyncCmd(l[i])

LEMMA DoneLeaves ==
  ASSUME ListsRight, NEW p \in Threads, todo[p] # <<>>, Then(p, <<>>)
  PROVE  QuietStep(p) /\ todo'[p] = Tail(todo[p]) /\ Leftover(todo'[p])
<1>1. PICK S : todo[p] \in Seq(S)
  BY ListFacts
<1>2. Shape(todo[p])
  BY DEF ListsRight
<1> DEFINE t == Tail(todo[p])
<1>3. /\ Fresh(t) /\ Len(t) = Len(todo[p]) - 1
      /\ \A i \in 1..Len(t) : t[i] = todo[p][i + 1]
  BY <1>1, <1>2, TailFresh
<1>4. Len(todo[p]) \in Nat \ {0}
  BY ListFacts
<1>5. QuietStep(p) /\ todo'[p] = t
  BY AfterDone DEF QuietStep
<1> HIDE DEF t
<1>6. ASSUME NEW i \in 1..Len(t) PROVE SyncCmd(t[i])
  <2>1. Len(todo[p]) > 1 /\ i + 1 \in 1..Len(todo[p])
    BY <1>3, <1>4
  <2>2. SyncCmd(todo[p][i + 1])
    BY <1>2, <2>1, Zenon DEF Shape
  <2> QED BY <1>3, <2>2
<1> QED BY <1>3, <1>5, <1>6 DEF Leftover, t

LEMMA NothingLeft == Leftover(<<>>)
BY Nothing DEF Leftover

LEMMA GoodLeaves == ASSUME NEW l, AllGood(l) PROVE Leftover(l)
BY GoodFresh DEF Leftover, AllGood, Good

SaveAlertsCmd(d, data) == Cmd("SaveAlerts", [dash |-> d, data |-> data])

LEMMA AlertsCmdFresh ==
  ASSUME NEW d \in DashIds, NEW data, Proper(data)
  PROVE  Fresh(<<SaveAlertsCmd(d, data)>>)
<1> DEFINE c == SaveAlertsCmd(d, data)
<1>1. CmdRight(c) /\ c.seen = <<>>
  BY DEF SaveAlertsCmd, Cmd, CmdRight
<1> HIDE DEF c
<1>2. Fresh(<<c>>)
  BY <1>1, OneCmd
<1> QED BY <1>2 DEF c

\* Steps after which only commands of a sync are left to the thread.
LEMMA SyncStep ==
  ASSUME BasicInv, NEW p \in Threads, syncPluginDashboards(p) \/ removePluginDashboards(p)
  PROVE  QuietStep(p) /\ Leftover(todo'[p])
<1>1. ListsRight /\ todo[p] # <<>> /\ ~ SyncCmd(Head(todo[p]))
  BY DEF BasicInv, syncPluginDashboards, removePluginDashboards, At, SyncCmd
<1>2. OfPlugin(dashboards) \in SUBSET DashIds
  BY DEF OfPlugin, Saved
<1>3. CASE removePluginDashboards(p)
  <2> DEFINE W == {dashboards[d].data.slug : d \in OfPlugin(dashboards)}
             l == [i \in DOMAIN SetToSeq(W) |-> Delete(SetToSeq(W)[i])]
  <2>1. AllGood(l)
    BY <1>2, SlugsFinite, DeletesGood
  <2>2. Then(p, l)
    BY <1>3 DEF removePluginDashboards, SlugsOf
  <2> HIDE DEF l
  <2>3. Fresh(l) /\ Leftover(l)
    BY <2>1, GoodFresh, GoodLeaves
  <2> QED BY <1>1, <2>2, <2>3, AfterThen DEF QuietStep
<1>4. CASE syncPluginDashboards(p)
  <2> DEFINE mine == OfPlugin(dashboards)
             current(f) == \E d \in mine : dashboards[d].data.slug = f.slug /\ dashboards[d].data.rev = f.rev
             F == {f \in Files[disk] : ~ current(f)}
             D == {d \in mine : \A f \in Files[disk] : f.slug # dashboards[d].data.slug}
             W == {dashboards[d].data.slug : d \in D}
             l == [i \in DOMAIN SetToSeq(F) |-> Import(SetToSeq(F)[i])]
             k == [i \in DOMAIN SetToSeq(W) |-> Delete(SetToSeq(W)[i])]
             m == <<Cmd("UpdatePluginSettingVersion", [plugin |-> TRUE])>>
  <2>1. Then(p, MarksLast(l, k))
    BY <1>4 DEF syncPluginDashboards, SlugsOf
  <2>2. Then(p, (l \o k) \o m) \/ Then(p, l \o (k \o m))
    BY <2>1 DEF MarksLast
  <2>3. D \in SUBSET DashIds /\ F \in SUBSET Files[disk] /\ disk \in DOMAIN Files
    BY <1>2 DEF BasicInv
  <2> HIDE DEF D, F
  <2>4. AllGood(l)
    BY <2>3, FilesFinite, ImportsGood
  <2>5. AllGood(k)
    BY <2>3, SlugsFinite, DeletesGood
  <2>6. AllGood(m)
    <3> DEFINE c == Cmd("UpdatePluginSettingVersion", [plugin |-> TRUE])
    <3>1. Good(c)
      BY GoodMark
    <3> HIDE DEF c
    <3> DEFINE one == <<c>>
    <3>2. one \in Seq({c}) /\ Len(one) = 1 /\ one[1] = c
      OBVIOUS
    <3> HIDE DEF one
    <3>3. AllGood(one)
      BY <3>1, <3>2 DEF AllGood
    <3> QED BY <3>3 DEF c, one
  <2> HIDE DEF l, k, m
  <2>7. AllGood((l \o k) \o m) /\ AllGood(l \o (k \o m))
    BY <2>4, <2>5, <2>6, GoodConcat
  <2> QED BY <1>1, <2>2, <2>7, GoodFresh, GoodLeaves, AfterThen DEF QuietStep
<1> QED BY <1>3, <1>4

\* The thread of a save writes the alerts next, unless a sync saves.
LEMMA SaveWriteStep ==
  ASSUME BasicInv, NEW p \in Threads, SaveWrite(p)
  PROVE  /\ QuietStep(p)
         /\ LET c == Args(p)
                t == Target(c, Seen(p))
                parent == Parent(c, Seen(p))
                d == IF t = 0 THEN lastDash + 1 ELSE t
            IN \/ /\ ~ Writable(t, c, parent)
                  /\ todo'[p] = <<>> /\ UNCHANGED <<rows, disturbed, meddled>>
               \/ /\ Writable(t, c, parent) /\ d \in DashIds
                  /\ lastDash' = (IF t = 0 THEN d ELSE lastDash)
                  /\ dashboards' = [dashboards EXCEPT ![d] =
                       [version |-> parent + 1, data |-> c.data,
                        plugin |-> c.plugin \/ (t # 0 /\ dashboards[t].plugin)]]
                  /\ history' = history \cup
                       {[dash |-> d, version |-> parent + 1, parent |-> parent, data |-> c.data]}
                  /\ IF c.plugin THEN Leftover(todo'[p]) /\ todo'[p] = Tail(todo[p])
                                 ELSE todo'[p] = <<SaveAlertsCmd(d, c.data)>>
                  /\ disturbed' = disturbed \cup (IF c.plugin \/ Saving(d) # {} THEN {d} ELSE {})
                  /\ meddled' = (meddled \/ (~ c.plugin /\ t # 0 /\ dashboards[t].plugin))
                  /\ UNCHANGED <<alerts, lastAlert, plugin>>
<1> DEFINE c == Args(p)
           t == Target(c, Seen(p))
           parent == Parent(c, Seen(p))
           d == IF t = 0 THEN lastDash + 1 ELSE t
<1>1. ListsRight /\ todo[p] # <<>> /\ Head(todo[p]).op = "SaveDashboard" /\ Head(todo[p]).args = c
  BY DEF BasicInv, SaveWrite, Writes, At, Args
<1>2. Proper(c.data) /\ c.plugin \in BOOLEAN
  BY <1>1, ListFacts DEF CmdRight
<1>3. CASE ~ Writable(t, c, parent)
  <2>1. Fail(p) /\ UNCHANGED <<rows, disturbed, meddled>>
    BY <1>3 DEF SaveWrite
  <2>2. QuietStep(p) /\ todo'[p] = <<>>
    BY <1>1, <2>1, AfterFail DEF QuietStep
  <2> QED BY <1>3, <2>1, <2>2
<1>4. CASE Writable(t, c, parent)
  <2>1. /\ d \in DashIds
        /\ lastDash' = (IF t = 0 THEN d ELSE lastDash)
        /\ dashboards' = [dashboards EXCEPT ![d] =
             [version |-> parent + 1, data |-> c.data,
              plugin |-> c.plugin \/ (t # 0 /\ dashboards[t].plugin)]]
        /\ history' = history \cup
             {[dash |-> d, version |-> parent + 1, parent |-> parent, data |-> c.data]}
        /\ Then(p, IF c.plugin THEN <<>> ELSE <<SaveAlertsCmd(d, c.data)>>)
        /\ disturbed' = disturbed \cup (IF c.plugin \/ Saving(d) # {} THEN {d} ELSE {})
        /\ meddled' = (meddled \/ (~ c.plugin /\ t # 0 /\ dashboards[t].plugin))
        /\ UNCHANGED <<alerts, lastAlert, plugin>>
    BY <1>4 DEF SaveWrite, SaveAlertsCmd, Disturb
  <2> HIDE DEF c, t, parent, d
  <2>2. CASE c.plugin
    <3>1. Then(p, <<>>)
      BY <2>1, <2>2
    <3>2. QuietStep(p) /\ Leftover(todo'[p]) /\ todo'[p] = Tail(todo[p])
      BY <1>1, <3>1, DoneLeaves
    <3> QED BY <1>4, <2>1, <2>2, <3>2 DEF c, t, parent, d
  <2>3. CASE ~ c.plugin
    <3> DEFINE l == <<SaveAlertsCmd(d, c.data)>>
    <3>1. Then(p, l)
      BY <2>1, <2>3
    <3>2. Fresh(l)
      BY <1>2, <2>1, AlertsCmdFresh
    <3>3. ~ SyncCmd(Head(todo[p]))
      BY <1>1, <2>3 DEF SyncCmd
    <3> HIDE DEF l
    <3>4. QuietStep(p) /\ todo'[p] = l
      BY <1>1, <3>1, <3>2, <3>3, AfterThen DEF QuietStep
    <3> QED BY <1>4, <2>1, <2>3, <3>4 DEF c, t, parent, d, l
  <2> QED BY <2>2, <2>3
<1> QED BY <1>3, <1>4

\* What a save writes to is in the table that it has read, or new.
LEMMA TargetRight ==
  ASSUME NEW c, NEW t, TableRight(t), lastDash \in Nat,
         c.id \in {0} \cup DashIds, c.id # 0 => t[c.id] # NoRow
  PROVE  \/ Target(c, t) = 0 /\ Parent(c, t) = 0 /\ WithSlug(t, c.data.slug) = {}
         \/ /\ Target(c, t) \in DashIds /\ t[Target(c, t)] # NoRow /\ Target(c, t) <= lastDash
            /\ Parent(c, t) = t[Target(c, t)].version /\ Parent(c, t) \in Nat \ {0}
            /\ \A d \in WithSlug(t, c.data.slug) \ {c.id} : Target(c, t) \in WithSlug(t, c.data.slug)
<1> DEFINE other == WithSlug(t, c.data.slug) \ {c.id}
<1>1. 0 \notin DashIds
  BY DEF DashIds
<1>2. other \subseteq DashIds /\ \A d \in other : t[d] # NoRow
  BY DEF WithSlug, Saved
<1>3. Target(c, t) = IF other # {} THEN CHOOSE d \in other : TRUE ELSE c.id
  BY DEF Target
<1>4. other # {} => Target(c, t) \in other
  BY <1>3
<1>5. other = {} => Target(c, t) = c.id
  BY <1>3
<1>6. CASE Target(c, t) = 0
  <2>1. other = {} /\ c.id = 0
    BY <1>1, <1>2, <1>4, <1>5, <1>6
  <2>2. WithSlug(t, c.data.slug) = {}
    BY <1>1, <2>1 DEF WithSlug, Saved
  <2> QED BY <1>6, <2>2 DEF Parent
<1>7. CASE Target(c, t) # 0
  <2> DEFINE d == Target(c, t)
  <2>1. d \in DashIds /\ t[d] # NoRow
    BY <1>2, <1>4, <1>5, <1>7
  <2>2. d <= lastDash /\ t[d].version \in Nat \ {0}
    BY <2>1 DEF TableRight, RowRight
  <2>3. Parent(c, t) = t[d].version
    BY <1>7 DEF Parent
  <2>4. \A e \in other : d \in WithSlug(t, c.data.slug)
    BY <1>4
  <2> QED BY <2>1, <2>2, <2>3, <2>4
<1> QED BY <1>6, <1>7

LEMMA BasicSaveWrite ==
  ASSUME BasicInv, NEW p \in Threads, SaveWrite(p)
  PROVE  BasicInv'
<1> DEFINE c == Args(p)
           t == Target(c, Seen(p))
           parent == Parent(c, Seen(p))
           d == IF t = 0 THEN lastDash + 1 ELSE t
           row == [version |-> parent + 1, data |-> c.data,
                   plugin |-> c.plugin \/ (t # 0 /\ dashboards[t].plugin)]
           v == [dash |-> d, version |-> parent + 1, parent |-> parent, data |-> c.data]
<1>1. /\ ListsRight /\ todo[p] # <<>> /\ lastDash \in Nat /\ TableRight(dashboards) /\ HistoryRight
      /\ c.id \in {0} \cup DashIds /\ Proper(c.data) /\ c.plugin \in BOOLEAN
  <2>1. ListsRight /\ todo[p] # <<>> /\ Head(todo[p]).op = "SaveDashboard" /\ Head(todo[p]).args = c
    BY DEF BasicInv, SaveWrite, Writes, At, Args
  <2>2. c.id \in {0} \cup DashIds /\ Proper(c.data) /\ c.plugin \in BOOLEAN
    BY <2>1, ListFacts DEF CmdRight
  <2> QED BY <2>1, <2>2 DEF BasicInv
<1>2. QuietStep(p) /\ UNCHANGED disk
  BY SaveWriteStep DEF SaveWrite
<1>3. \A q \in Threads : todo'[q] = todo[q] \/ ~ Begun(q)'
  BY <1>2 DEF QuietStep, Others
<1>4. disk' \in DOMAIN Files
  BY <1>2 DEF BasicInv
<1>5. CASE UNCHANGED rows
  BY <1>2, <1>3, <1>5, BasicSame DEF rows, QuietStep
<1>6. CASE /\ Writable(t, c, parent) /\ d \in DashIds
           /\ lastDash' = (IF t = 0 THEN d ELSE lastDash)
           /\ dashboards' = [dashboards EXCEPT ![d] = row]
           /\ history' = history \cup {v}
  <2>1. SaveRight(p)
    BY DEF BasicInv, SaveWrite, Writes
  <2>2. \/ t = 0 /\ parent = 0
        \/ t \in DashIds /\ t <= lastDash /\ parent \in Nat \ {0}
    BY <1>1, <2>1, TargetRight DEF SaveRight
  <2>3. t # 0 => dashboards[t] # NoRow
    BY <1>6 DEF Writable
  <2> HIDE DEF c, t, parent
  <2>4. lastDash' \in Nat /\ lastDash' >= lastDash /\ d <= lastDash'
    BY <1>1, <1>6, <2>2
  <2>5. (t # 0 => dashboards[t].plugin \in BOOLEAN) /\ parent + 1 \in Nat \ {0}
    BY <1>1, <2>2, <2>3 DEF TableRight, RowRight
  <2>6. row.plugin \in BOOLEAN /\ row.version \in Nat \ {0} /\ row.data = c.data
        /\ DOMAIN row = {"version", "data", "plugin"}
    BY <1>1, <2>5
  <2>7. RowRight(row)
    BY <1>1, <2>6 DEF RowRight
  <2>8. row # NoRow
    BY <2>6 DEF NoRow
  <2>9. /\ v.dash = d /\ v.version = parent + 1 /\ v.data = c.data
        /\ DOMAIN v = {"dash", "version", "parent", "data"}
    OBVIOUS
  <2>10. \A w \in history : w.dash = d => w.version # parent + 1
    <3>1. CASE t = 0
      <4>1. \A w \in history : w.dash \in DashIds /\ w.dash <= lastDash
        BY <1>1 DEF HistoryRight, TableRight
      <4> QED BY <1>1, <3>1, <4>1 DEF DashIds
    <3>2. CASE t # 0
      BY <1>6, <3>2 DEF Writable
    <3> QED BY <3>1, <3>2
  <2> HIDE DEF row, v, d
  <2>11. TableRight(dashboards)'
    <3>1. DOMAIN dashboards' = DashIds
      BY <1>1, <1>6 DEF TableRight
    <3>2. ASSUME NEW e \in DashIds, dashboards'[e] # NoRow
          PROVE  e <= lastDash' /\ RowRight(dashboards'[e])
      <4>1. CASE e = d
        BY <1>1, <1>6, <2>4, <2>7, <4>1 DEF TableRight
      <4>2. CASE e # d
        <5>1. dashboards'[e] = dashboards[e]
          BY <1>1, <1>6, <4>2 DEF TableRight
        <5>2. e <= lastDash /\ RowRight(dashboards[e])
          BY <1>1, <3>2, <5>1 DEF TableRight
        <5> QED BY <1>1, <2>4, <5>1, <5>2 DEF DashIds
      <4> QED BY <4>1, <4>2
    <3> QED BY <3>1, <3>2 DEF TableRight, RowRight, Proper
  <2>12. HistoryRight'
    <3>1. IsFiniteSet(history')
      BY <1>1, <1>6, FS_AddElement DEF HistoryRight
    <3>2. \A e \in DashIds : dashboards[e] # NoRow => dashboards'[e] # NoRow
      BY <1>1, <1>6, <2>8 DEF TableRight
    <3>3. dashboards'[d] # NoRow
      BY <1>1, <1>6, <2>8 DEF TableRight
    <3>4. ASSUME NEW w \in history'
          PROVE  /\ DOMAIN w = {"dash", "version", "parent", "data"}
                 /\ w.dash \in DashIds /\ dashboards'[w.dash] # NoRow
                 /\ w.version \in Nat \ {0} /\ Proper(w.data)
      <4>1. CASE w \in history
        BY <1>1, <3>2, <4>1 DEF HistoryRight
      <4>2. CASE w = v
        BY <1>1, <1>6, <2>5, <2>9, <3>3, <4>2
      <4> QED BY <1>6, <4>1, <4>2
    <3>5. ASSUME NEW w \in history', NEW x \in history', w.dash = x.dash, w.version = x.version
          PROVE  w = x
      <4>1. w \in history \/ w = v
        BY <1>6
      <4>2. x \in history \/ x = v
        BY <1>6
      <4> QED BY <1>1, <2>9, <2>10, <3>5, <4>1, <4>2 DEF HistoryRight
    <3> QED BY <3>1, <3>4, <3>5 DEF HistoryRight, Proper
  <2> QED BY <1>2, <1>3, <1>4, <2>4, <2>11, <2>12, BasicQuiet DEF QuietStep
<1> QED BY <1>5, <1>6, SaveWriteStep

LEMMA BasicDeleteWrite ==
  ASSUME BasicInv, NEW p \in Threads, DeleteWrite(p)
  PROVE  BasicInv' /\ QuietStep(p) /\ Leftover(todo'[p]) /\ todo'[p] = Tail(todo[p])
<1> DEFINE gone == Seen(p)
<1>1. /\ dashboards' = [d \in DashIds |-> IF d \in gone THEN NoRow ELSE dashboards[d]]
      /\ history' = {v \in history : v.dash \notin gone}
      /\ Then(p, <<>>) /\ todo[p] # <<>> /\ UNCHANGED <<lastDash, disk>>
  BY DEF DeleteWrite, Writes, At
<1> HIDE DEF gone
<1>2. QuietStep(p) /\ Leftover(todo'[p]) /\ todo'[p] = Tail(todo[p])
  BY <1>1, DoneLeaves DEF BasicInv
<1>3. \A q \in Threads : todo'[q] = todo[q] \/ ~ Begun(q)'
  BY <1>2 DEF QuietStep, Others
<1>4. lastDash' \in Nat /\ lastDash' >= lastDash /\ disk' \in DOMAIN Files
  BY <1>1 DEF BasicInv
<1>5. TableRight(dashboards)'
  <2>1. TableRight(dashboards)
    BY DEF BasicInv
  <2> QED BY <1>1, <2>1 DEF TableRight, RowRight, Proper
<1>6. HistoryRight'
  <2>1. HistoryRight
    BY DEF BasicInv
  <2>2. IsFiniteSet(history')
    BY <1>1, <2>1, FS_Subset DEF HistoryRight
  <2>3. \A v \in history' : v \in history /\ dashboards'[v.dash] = dashboards[v.dash]
    BY <1>1, <2>1 DEF HistoryRight
  <2> QED BY <2>1, <2>2, <2>3 DEF HistoryRight, Proper
<1> QED BY <1>2, <1>3, <1>4, <1>5, <1>6, BasicQuiet DEF QuietStep

LEMMA BasicExpireWrite ==
  ASSUME BasicInv, NEW p \in Threads, ExpireWrite(p)
  PROVE  BasicInv' /\ QuietStep(p) /\ Leftover(todo'[p])
<1>1. /\ history' \subseteq history /\ UNCHANGED <<dashboards, lastDash, disk>>
      /\ Then(p, <<>>) /\ todo[p] # <<>>
  BY DEF ExpireWrite, Writes, At
<1>2. QuietStep(p) /\ Leftover(todo'[p])
  BY <1>1, DoneLeaves DEF BasicInv
<1>3. \A q \in Threads : todo'[q] = todo[q] \/ ~ Begun(q)'
  BY <1>2 DEF QuietStep, Others
<1>4. (lastDash \in Nat /\ TableRight(dashboards))' /\ lastDash' >= lastDash /\ disk' \in DOMAIN Files
  BY <1>1 DEF BasicInv, TableRight, RowRight, Proper
<1>5. HistoryRight'
  <2>1. HistoryRight
    BY DEF BasicInv
  <2>2. IsFiniteSet(history')
    BY <1>1, <2>1, FS_Subset DEF HistoryRight
  <2> QED BY <1>1, <2>1, <2>2 DEF HistoryRight, Proper
<1> QED BY <1>2, <1>3, <1>4, <1>5, BasicQuiet DEF QuietStep

LEMMA BasicSaveRead ==
  ASSUME BasicInv, NEW p \in Threads, SaveRead(p)
  PROVE  BasicInv'
<1>1. ListsRight /\ UNCHANGED <<dashboards, lastDash, history, disk>>
  BY DEF SaveRead, BasicInv, rows
<1>2. CASE QuietStep(p)
  BY <1>1, <1>2, BasicSame DEF QuietStep, Others
<1>3. CASE BeginStep(p, dashboards) /\ Refusal(Args(p), dashboards) = ""
  <2>1. (lastDash \in Nat /\ TableRight(dashboards) /\ HistoryRight)' /\ disk' \in DOMAIN Files
    BY <1>1 DEF BasicInv, TableRight, HistoryRight, RowRight, Proper
  <2>2. Seen(p)' = dashboards /\ Args(p)' = Args(p)
    BY <1>3, BeginFacts
  <2>3. Args(p).id \in {0} \cup DashIds
    <3>1. todo[p] # <<>> /\ Head(todo[p]).op = "SaveDashboard"
      BY DEF SaveRead, Waits, At
    <3> QED BY <1>1, <3>1, ListFacts DEF CmdRight, Args
  <2>4. Args(p).id # 0 => dashboards[Args(p).id] # NoRow
    <3>1. ~ (Args(p).id > 0 /\ dashboards[Args(p).id] = NoRow)
      BY <1>3 DEF Refusal
    <3> QED BY <2>3, <3>1 DEF DashIds
  <2>5. SaveRight(p)'
    BY <2>1, <2>2, <2>4, <1>1 DEF SaveRight, TableRight, RowRight, Proper
  <2>6. ASSUME NEW q \in Threads \ {p}, At(q, "SaveDashboard")', Begun(q)'
        PROVE  SaveRight(q)'
    <3>1. todo'[q] = todo[q]
      BY <1>3 DEF BeginStep, Others
    <3>2. SaveRight(q)
      BY <2>6, <3>1 DEF BasicInv, At, Begun
    <3> QED BY <1>1, <3>1, <3>2 DEF SaveRight, TableRight, RowRight, Proper, Seen, Args
  <2> QED BY <1>3, <2>1, <2>5, <2>6 DEF BasicInv, BeginStep
<1> QED BY <1>1, <1>2, <1>3, SaveReadStep

LEMMA ValidateStep ==
  ASSUME ListsRight, NEW p \in Threads, validateDashboardAlerts(p)
  PROVE  /\ QuietStep(p) /\ ~ SyncCmd(Head(todo[p])) /\ todo[p] # <<>>
         /\ todo'[p] = <<>> \/ todo'[p] = <<Cmd("SaveDashboard", Args(p))>>
         /\ ~ Args(p).plugin
<1>1. todo[p] # <<>> /\ Head(todo[p]).op = "validateDashboardAlerts"
  BY DEF validateDashboardAlerts, At
<1>2. CmdRight(Head(todo[p])) /\ ~ SyncCmd(Head(todo[p]))
  BY <1>1, ListFacts DEF SyncCmd
<1> DEFINE c == Cmd("SaveDashboard", Args(p))
<1>3. CmdRight(c) /\ c.seen = <<>> /\ ~ Args(p).plugin
  BY <1>1, <1>2 DEF CmdRight, Cmd, Args
<1> HIDE DEF c
<1>4. Fresh(<<c>>)
  BY <1>3, OneCmd
<1>5. CASE Fail(p)
  BY <1>1, <1>2, <1>3, <1>5, AfterFail DEF QuietStep
<1>6. CASE Then(p, <<c>>)
  <2>1. QuietStep(p) /\ todo'[p] = <<c>>
    BY <1>1, <1>2, <1>4, <1>6, AfterThen DEF QuietStep
  <2> QED BY <1>1, <1>2, <1>3, <2>1 DEF c
<1>7. Fail(p) \/ Then(p, <<c>>)
  BY DEF validateDashboardAlerts, c
<1> QED BY <1>5, <1>6, <1>7

LEMMA SettingStep ==
  ASSUME ListsRight, NEW p \in Threads, UpdatePluginSetting(p)
  PROVE  /\ QuietStep(p)
         /\ \/ Leftover(todo'[p])
            \/ \E op \in {"syncPluginDashboards", "removePluginDashboards"} :
                 todo'[p] = <<Cmd(op, [plugin |-> TRUE])>>
<1>1. todo[p] # <<>> /\ ~ SyncCmd(Head(todo[p]))
  BY DEF UpdatePluginSetting, At, SyncCmd
<1>2. CASE Then(p, <<>>)
  BY <1>1, <1>2, DoneLeaves
<1>3. ASSUME NEW op \in {"syncPluginDashboards", "removePluginDashboards"},
             Then(p, <<Cmd(op, [plugin |-> TRUE])>>)
      PROVE  QuietStep(p) /\ todo'[p] = <<Cmd(op, [plugin |-> TRUE])>>
  <2> DEFINE c == Cmd(op, [plugin |-> TRUE])
  <2>1. CmdRight(c) /\ c.seen = <<>>
    BY DEF CmdRight, Cmd
  <2>2. Then(p, <<c>>)
    BY <1>3
  <2> HIDE DEF c
  <2>3. QuietStep(p) /\ todo'[p] = <<c>>
    BY <1>1, <2>1, <2>2, OneCmd, AfterThen DEF QuietStep
  <2> QED BY <2>3 DEF c
<1>4. \/ Then(p, <<>>)
      \/ \E op \in {"syncPluginDashboards", "removePluginDashboards"} :
           Then(p, <<Cmd(op, [plugin |-> TRUE])>>)
  BY DEF UpdatePluginSetting
<1> QED BY <1>2, <1>3, <1>4

LEMMA LockedStep ==
  ASSUME ListsRight, NEW p \in Threads, Locked(p)
  PROVE  /\ QuietStep(p) /\ todo[p] # <<>>
         /\ \/ /\ todo'[p] # <<>> /\ Head(todo'[p]) = Retried(Head(todo[p])) /\ disturbed' = disturbed
               /\ Len(todo'[p]) = Len(todo[p]) /\ \A i \in 2..Len(todo[p]) : todo'[p][i] = todo[p][i]
            \/ todo'[p] = <<>> /\ disturbed' = disturbed \cup {d \in DashIds : p \in Saving(d)}
<1>1. todo[p] # <<>>
  BY DEF Locked, Begun
<1>2. CASE todo' = [todo EXCEPT ![p][1] = Retried(@)] /\ disturbed' = disturbed
  BY <1>1, <1>2, AfterRetry
<1>3. CASE Fail(p) /\ Disturb({d \in DashIds : p \in Saving(d)})
  BY <1>1, <1>3, AfterFail DEF QuietStep, Disturb
<1> QED BY <1>2, <1>3 DEF Locked

LEMMA RestartStep ==
  ASSUME BasicInv, Restart
  PROVE  /\ ListsRight' /\ disk' \in DOMAIN Files
         /\ \A p \in Threads : ~ Begun(p)' /\
              (todo'[p] = <<>> \/ todo'[p] = <<Cmd("syncPluginDashboards", [plugin |-> TRUE])>>)
<1> DEFINE c == Cmd("syncPluginDashboards", [plugin |-> TRUE])
<1>1. disk' \in disk..Len(Files) /\ todo' = [p \in Threads |-> IF p = Boot THEN AtBoot(disk') ELSE <<>>]
  BY DEF Restart
<1>2. disk' \in DOMAIN Files
  <2>1. disk \in 1..Len(Files) /\ Len(Files) \in Nat /\ DOMAIN Files = 1..Len(Files)
    BY DashboardsAssumption DEF BasicInv
  <2> QED BY <1>1, <2>1
<1>3. CmdRight(c) /\ c.seen = <<>>
  BY DEF CmdRight, Cmd
<1>4. \A p \in Threads : todo'[p] = <<>> \/ todo'[p] = <<c>>
  BY <1>1 DEF AtBoot
<1> HIDE DEF c
<1>5. Fresh(<<c>>) /\ Fresh(<<>>)
  BY <1>3, OneCmd, Nothing
<1>6. ListsRight'
  <2>1. \A p \in Threads : Shape(todo'[p])
    BY <1>4, <1>5 DEF Fresh
  <2>2. <<>> \in Seq({c}) /\ <<c>> \in Seq({c})
    OBVIOUS
  <2>3. DOMAIN todo' = Threads
    BY <1>1
  <2>4. todo' \in [Threads -> Seq({c})]
    BY <1>1, <1>4, <2>2
  <2>5. \E S : todo' \in [Threads -> Seq(S)]
    BY <2>4
  <2> QED BY <2>1, <2>5 DEF ListsRight, Shape, CmdRight, SyncCmd, Proper
<1>7. \A p \in Threads : ~ Begun(p)'
  <2>1. Head(<<c>>) = c
    OBVIOUS
  <2> QED BY <1>3, <1>4, <2>1 DEF Begun
<1> QED BY <1>2, <1>4, <1>6, <1>7 DEF c

\* Requests bring commands that have not begun, none of which saves alerts.
LEMMA RequestStep ==
  ASSUME BasicInv, NEW p \in Slots, Request(p)
  PROVE  \E cmd : /\ CmdRight(cmd) /\ cmd.seen = <<>> /\ Arrives(p, cmd)
                  /\ cmd.op \notin {"SaveAlerts", "SaveDashboard", "UpdatePluginSettingVersion"}
                  /\ cmd.op \in {"validateDashboardAlerts", "DeleteDashboard"} => ~ cmd.args.plugin
<1> DEFINE Bringing(cmd) == /\ CmdRight(cmd) /\ cmd.seen = <<>>
                            /\ cmd.op \notin {"SaveAlerts", "SaveDashboard", "UpdatePluginSettingVersion"}
                            /\ cmd.op \in {"validateDashboardAlerts", "DeleteDashboard"} => ~ cmd.args.plugin
<1>1. ASSUME NEW d \in {0} \cup DashIds, NEW version, NEW data, Proper(data), NEW overwrite
      PROVE  Bringing(Post(d, version, data, overwrite))
  BY <1>1 DEF Post, Cmd, CmdRight
<1>2. \A data \in Datas : Proper(data)
  BY DEF Proper, Jsons
<1>3. \A v \in history : Proper(v.data) /\ v.dash \in DashIds
  BY DEF BasicInv, HistoryRight
<1>4. Saved(dashboards) \subseteq DashIds
  BY DEF Saved
<1>5. ASSUME PostDashboard(p) PROVE \E cmd : Bringing(cmd) /\ Arrives(p, cmd)
  <2>1. PICK data \in Datas, overwrite \in BOOLEAN :
          \/ Arrives(p, Post(0, 0, data, overwrite))
          \/ \E d \in Saved(dashboards) : Arrives(p, Post(d, dashboards[d].version, data, overwrite))
          \/ \E d \in Saved(dashboards) : ~ overwrite /\ Arrives(p, Post(d, dashboards[d].version - 1, data, FALSE))
    BY <1>5 DEF PostDashboard
  <2> HIDE DEF Bringing
  <2> QED BY <1>1, <1>2, <1>4, <2>1
<1>6. ASSUME RestoreDashboardVersion(p) PROVE \E cmd : Bringing(cmd) /\ Arrives(p, cmd)
  <2> HIDE DEF Bringing
  <2> QED BY <1>1, <1>3, <1>6 DEF RestoreDashboardVersion
<1>7. \A s : Bringing(Cmd("DeleteDashboard", [slug |-> s, plugin |-> FALSE]))
  BY DEF Cmd, CmdRight
<1>8. Bringing(Cmd("DeleteExpiredVersions", <<>>))
  BY DEF Cmd, CmdRight
<1>9. \A i, s : Bringing(Cmd("SetAlertState", [id |-> i, state |-> s]))
  BY DEF Cmd, CmdRight
<1>10. \A ids, s : Bringing(Cmd("PauseAlert", [ids |-> ids, state |-> s]))
  BY DEF Cmd, CmdRight
<1>11. \A b : Bringing(Cmd("UpdatePluginSetting", [enabled |-> b]))
  BY DEF Cmd, CmdRight
<1>12. \E cmd : Bringing(cmd) /\ Arrives(p, cmd)
  <2> HIDE DEF Bringing
  <2> QED BY <1>5, <1>6, <1>7, <1>8, <1>9, <1>10, <1>11 DEF Request
<1> QED BY <1>12

LEMMA ArrivesStep ==
  ASSUME ListsRight, NEW p \in Threads, NEW cmd, CmdRight(cmd), cmd.seen = <<>>, Arrives(p, cmd)
  PROVE  QuietStep(p) /\ todo'[p] = <<cmd>> /\ todo[p] = <<>>
<1>1. Fresh(<<cmd>>)
  BY OneCmd
<1> QED BY <1>1, PutList DEF Arrives, QuietStep

\* Commands that leave the dashboards and their versions alone and are then done.
LEMMA DoneStep ==
  ASSUME ListsRight, NEW p \in Threads,
         SaveAlerts(p) \/ SetAlertState(p) \/ PauseAlert(p) \/ UpdatePluginSettingVersion(p)
  PROVE  /\ QuietStep(p) /\ Leftover(todo'[p]) /\ todo'[p] = Tail(todo[p]) /\ todo[p] # <<>>
         /\ UNCHANGED <<dashboards, lastDash, history, disk, database, overtaken>>
<1>1. /\ todo[p] # <<>> /\ Then(p, <<>>)
      /\ UNCHANGED <<dashboards, lastDash, history, disk, database, overtaken>>
  BY DEF SaveAlerts, SetAlertState, PauseAlert, UpdatePluginSettingVersion, Writes, At
<1> QED BY <1>1, DoneLeaves

LEMMA BasicNext == BasicInv /\ [DashboardsNext]_dashboardsVars => BasicInv'
<1> SUFFICES ASSUME BasicInv, [DashboardsNext]_dashboardsVars PROVE BasicInv'
  OBVIOUS
<1> USE DEF rows
<1>0. ListsRight
  BY DEF BasicInv
<1>1. ASSUME NEW p \in Threads, QuietStep(p), UNCHANGED <<dashboards, lastDash, history, disk>>
      PROVE  BasicInv'
  BY <1>1, BasicSame DEF QuietStep, Others
<1>2. CASE UNCHANGED dashboardsVars
  BY <1>0, <1>2, BasicSame DEF dashboardsVars, ListsRight, Shape, CmdRight, SyncCmd, Proper
<1>3. CASE Restart
  BY <1>3, RestartStep, BasicQuiet DEF BasicInv, TableRight, HistoryRight, RowRight, Proper, Restart
<1>4. ASSUME NEW p \in Slots, Request(p) PROVE BasicInv'
  <2>1. PICK cmd : CmdRight(cmd) /\ cmd.seen = <<>> /\ Arrives(p, cmd)
    BY <1>4, RequestStep
  <2>2. QuietStep(p)
    BY <1>0, <2>1, ArrivesStep DEF Threads
  <2> QED BY <1>1, <2>1, <2>2 DEF Arrives, Threads
<1>5. ASSUME NEW p \in Threads, Handler(p) PROVE BasicInv'
  <2>1. QuietStep(p)
    BY <1>0, <1>5, ValidateStep, SyncStep DEF Handler
  <2> QED BY <1>1, <1>5, <2>1 DEF Handler, validateDashboardAlerts, syncPluginDashboards, removePluginDashboards
<1>6. ASSUME NEW p \in Threads, DeleteRead(p) \/ ExpireRead(p) \/ AlertsRead(p) \/ StateRead(p)
      PROVE  BasicInv'
  <2>1. UNCHANGED <<dashboards, lastDash, history, disk>> /\ ~ At(p, "SaveDashboard")
    BY <1>6 DEF DeleteRead, ExpireRead, AlertsRead, StateRead, Waits, At
  <2>2. QuietStep(p) \/ \E t : BeginStep(p, t)
    BY <1>0, <1>6, DeleteReadStep, ExpireReadStep, AlertsReadStep, StateReadStep
  <2> QED BY <1>1, <2>1, <2>2, BasicBegins
<1>7. ASSUME NEW p \in Threads, SaveAlerts(p) \/ SetAlertState(p) \/ PauseAlert(p) \/ UpdatePluginSettingVersion(p)
      PROVE  BasicInv'
  BY <1>0, <1>1, <1>7, DoneStep
<1>8. ASSUME NEW p \in Threads, UpdatePluginSetting(p) PROVE BasicInv'
  BY <1>0, <1>1, <1>8, SettingStep DEF UpdatePluginSetting
<1>9. ASSUME NEW p \in Threads, Locked(p) PROVE BasicInv'
  BY <1>0, <1>1, <1>9, LockedStep DEF Locked
<1> QED BY <1>2, <1>3, <1>4, <1>5, <1>6, <1>7, <1>8, <1>9, BasicSaveRead, BasicSaveWrite,
           BasicDeleteWrite, BasicExpireWrite DEF DashboardsNext, Store

-----------------------------------------------------------------------------
(* Counting versions *)

LEMMA LeastNumber ==
  ASSUME NEW T, T \subseteq Nat, T # {}
  PROVE  \E n \in T : \A k \in T : n <= k
<1>1. IsWellFoundedOn(OpToRel(<, Nat), Nat)
  BY NatLessThanWellFounded
<1>2. PICK n \in T : \A k \in T : ~ (<<k, n>> \in OpToRel(<, Nat))
  BY <1>1, WFMin
<1>3. \A k \in T : ~(k < n)
  BY <1>2 DEF OpToRel
<1> QED BY <1>3

\* The newest of finitely many versions.
LEMMA Newest ==
  ASSUME NEW T, IsFiniteSet(T), T # {}, \A v \in T : v.version \in Nat
  PROVE  \E m \in T : \A v \in T : v.version <= m.version
<1> DEFINE n == Cardinality(T)
           f == SetToSeq(T)
           Has(k) == \E i \in 1..k : \A j \in 1..k : f[j].version <= f[i].version
           Bad == {k \in 1..n : ~ Has(k)}
<1>1. /\ n \in Nat /\ f \in [1..n -> T] /\ \A v \in T : \E i \in 1..n : f[i] = v
  BY SetToSeqRight
<1> HIDE DEF n, f, Has
<1>2. n >= 1
  BY <1>1
<1>3. \A i \in 1..n : f[i].version \in Nat
  BY <1>1
<1>4. ASSUME Bad # {} PROVE FALSE
  <2>1. Bad \subseteq Nat
    BY <1>1
  <2>2. PICK k \in Bad : \A j \in Bad : k <= j
    BY <1>4, <2>1, LeastNumber
  <2>3. k \in 1..n /\ ~ Has(k)
    BY <2>2
  <2>4. CASE k = 1
    <3>1. Has(1)
      BY <1>2, <1>3 DEF Has
    <3> QED BY <2>3, <2>4, <3>1
  <2>5. CASE k # 1
    <3>1. k - 1 \in 1..n /\ k - 1 < k
      BY <1>1, <2>3, <2>5
    <3>2. Has(k - 1)
      <4>1. k - 1 \notin Bad
        BY <1>1, <2>2, <2>3, <3>1
      <4> QED BY <3>1, <4>1, Zenon
    <3>3. PICK i \in 1..(k - 1) : \A j \in 1..(k - 1) : f[j].version <= f[i].version
      BY <3>2 DEF Has
    <3>4. \A j \in 1..k : j \in 1..(k - 1) \/ j = k
      BY <1>1, <2>3
    <3>5. i \in 1..k /\ k \in 1..k /\ i \in 1..n
      BY <1>1, <2>3, <3>1
    <3>6. CASE f[k].version <= f[i].version
      BY <2>3, <3>3, <3>4, <3>5, <3>6 DEF Has
    <3>7. CASE ~ (f[k].version <= f[i].version)
      <4>1. \A j \in 1..k : j \in 1..n
        BY <1>1, <2>3
      <4>2. \A j \in 1..k : f[j].version <= f[k].version
        BY <1>3, <2>3, <3>3, <3>4, <3>5, <3>7, <4>1
      <4> QED BY <2>3, <3>5, <4>2 DEF Has
    <3> QED BY <3>6, <3>7
  <2> QED BY <2>4, <2>5
<1>5. Has(n)
  <2>1. n \in 1..n
    BY <1>1, <1>2
  <2> QED BY <1>4, <2>1, Zenon
<1>6. PICK i \in 1..n : \A j \in 1..n : f[j].version <= f[i].version
  BY <1>5 DEF Has
<1>7. f[i] \in T
  BY <1>1
<1> QED BY <1>1, <1>6, <1>7

NewerThan(v, h) == {w \in h : w.dash = v.dash /\ w.version > v.version}

LEMMA KeepBound == MaxKeep \in Nat \ {0}
BY DashboardsAssumption DEF MaxKeep

\* What is deleted are the versions that have as many newer ones as are to be kept.
LEMMA ExpiredRight ==
  ASSUME HistoryRight
  PROVE  getVersionIDsToDelete(Excess(history)) =
           {v \in history : Cardinality(NewerThan(v, history)) >= MaxKeep}
<1> DEFINE h == history
           t == Excess(h)
           upto(v, s) == {w \in s : w.dash = v.dash /\ w.version >= v.version}
           same(v) == {w \in h : w.dash = v.dash}
<1>1. IsFiniteSet(h) /\ \A v \in h : v.version \in Nat
  BY DEF HistoryRight
<1>2. ASSUME NEW v \in h
      PROVE  /\ NewerThan(v, h) = upto(v, h) \ {v} /\ v \in upto(v, h)
             /\ IsFiniteSet(upto(v, h)) /\ Cardinality(upto(v, h)) = Cardinality(NewerThan(v, h)) + 1
             /\ Cardinality(NewerThan(v, h)) \in Nat
  <2>1. \A w \in h : w.dash = v.dash /\ w.version = v.version => w = v
    BY <1>2 DEF HistoryRight
  <2>2. NewerThan(v, h) = upto(v, h) \ {v} /\ v \in upto(v, h)
    BY <1>1, <1>2, <2>1 DEF NewerThan
  <2>3. IsFiniteSet(upto(v, h)) /\ IsFiniteSet(NewerThan(v, h))
    BY <1>1, FS_Subset DEF NewerThan
  <2>4. Cardinality(upto(v, h)) \in Nat /\ Cardinality(NewerThan(v, h)) \in Nat
    BY <2>3, FS_CardinalityType
  <2> HIDE DEF upto
  <2>5. Cardinality(NewerThan(v, h)) = Cardinality(upto(v, h)) - 1
    BY <2>2, <2>3, FS_RemoveElement
  <2> QED BY <2>2, <2>3, <2>4, <2>5
<1>3. ASSUME NEW v \in h, Cardinality(upto(v, h)) > MaxKeep
      PROVE  v \in t
  <2>1. upto(v, h) \subseteq same(v) /\ IsFiniteSet(same(v))
    BY <1>1, FS_Subset
  <2>2. Cardinality(upto(v, h)) <= Cardinality(same(v)) /\ Cardinality(same(v)) \in Nat
    <3> HIDE DEF upto, same
    <3> QED BY <2>1, FS_Subset, FS_CardinalityType
  <2>3. CountOf(v.dash, h) = Cardinality(same(v))
    BY DEF CountOf
  <2>4. Cardinality(upto(v, h)) \in Nat
    <3> HIDE DEF upto
    <3> QED BY <1>2
  <2>5. CountOf(v.dash, h) > MaxKeep
    <3> HIDE DEF upto, same
    <3> QED BY <1>3, <2>2, <2>3, <2>4, KeepBound
  <2> QED BY <2>5 DEF Excess
<1>4. ASSUME NEW v \in t PROVE upto(v, t) = upto(v, h)
  BY DEF Excess
<1>5. t \subseteq h
  BY DEF Excess
<1>6. \A v \in h : v \in getVersionIDsToDelete(t) <=> Cardinality(upto(v, h)) > MaxKeep
  <2> SUFFICES ASSUME NEW v \in h
               PROVE  v \in getVersionIDsToDelete(t) <=> Cardinality(upto(v, h)) > MaxKeep
    OBVIOUS
  <2>1. v \in getVersionIDsToDelete(t) <=> v \in t /\ Cardinality(upto(v, t)) > MaxKeep
    BY DEF getVersionIDsToDelete
  <2> HIDE DEF upto, t
  <2> QED BY <1>3, <1>4, <2>1
<1>7. \A v \in h : Cardinality(upto(v, h)) > MaxKeep <=> Cardinality(NewerThan(v, h)) >= MaxKeep
  <2> HIDE DEF upto
  <2> QED BY <1>2, KeepBound
<1>8. getVersionIDsToDelete(t) \subseteq h
  BY <1>5 DEF getVersionIDsToDelete
<1>9. ASSUME NEW v \in getVersionIDsToDelete(t)
      PROVE  v \in h /\ Cardinality(NewerThan(v, h)) >= MaxKeep
  <2> HIDE DEF upto, t
  <2> QED BY <1>6, <1>7, <1>8, <1>9
<1>10. ASSUME NEW v \in h, Cardinality(NewerThan(v, h)) >= MaxKeep
       PROVE  v \in getVersionIDsToDelete(t)
  <2> HIDE DEF upto, t
  <2> QED BY <1>6, <1>7, <1>10
<1> QED BY <1>9, <1>10

-----------------------------------------------------------------------------
(* The history of a dashboard *)

\* The versions of a dashboard go without a gap up to the one it has.
ChainRight(d) ==
  LET top == dashboards[d].version IN
    /\ \E v \in history : v.dash = d /\ v.version = top /\ v.data = dashboards[d].data
    /\ \A v \in history : v.dash = d =>
         /\ v.version <= top /\ v.parent = v.version - 1
         /\ \A k \in v.version..top : \E w \in history : w.dash = d /\ w.version = k

\* A save that others have overtaken finds the version it wants to write taken.
SaveCurrent(p) ==
  LET d == Target(Args(p), Seen(p))
      parent == Parent(Args(p), Seen(p))
  IN d # 0 /\ d \notin overtaken /\ dashboards[d] # NoRow =>
       /\ parent <= dashboards[d].version
       /\ parent < dashboards[d].version =>
            \E v \in history : v.dash = d /\ v.version = parent + 1

\* What an expiry deletes has newer versions enough, and what is older goes too.
ExpireCurrent(p) ==
  /\ \A v \in Seen(p) :
       /\ v.dash \in DashIds /\ v.dash <= lastDash /\ v.version \in Nat
       /\ dashboards[v.dash] # NoRow => Cardinality(NewerThan(v, history)) >= MaxKeep
       /\ v.dash \notin overtaken =>
            \A w \in history : w.dash = v.dash /\ w.version <= v.version => w \in Seen(p)
  /\ database = "sqlite" => Seen(p) = getVersionIDsToDelete(Excess(history))

HistoryInv ==
  /\ \A d \in DashIds \ overtaken : dashboards[d] # NoRow => ChainRight(d)
  /\ \A p \in Threads : At(p, "SaveDashboard") /\ Begun(p) => SaveCurrent(p)
  /\ \A p \in Threads : At(p, "DeleteExpiredVersions") /\ Begun(p) => ExpireCurrent(p)

HistoryVars == <<dashboards, lastDash, history, overtaken, database>>

LEMMA HistorySame ==
  ASSUME HistoryInv, UNCHANGED HistoryVars,
         \A p \in Threads : todo'[p] = todo[p] \/ ~ Begun(p)'
  PROVE  HistoryInv'
<1>1. \A d \in DashIds \ overtaken' : dashboards'[d] # NoRow => ChainRight(d)'
  BY DEF HistoryInv, HistoryVars, ChainRight
<1>2. ASSUME NEW p \in Threads, At(p, "SaveDashboard")', Begun(p)' PROVE SaveCurrent(p)'
  <2>1. todo'[p] = todo[p]
    BY <1>2
  <2>2. SaveCurrent(p)
    BY <1>2, <2>1 DEF HistoryInv, At, Begun
  <2> QED BY <2>1, <2>2 DEF SaveCurrent, HistoryVars, Args, Seen
<1>3. ASSUME NEW p \in Threads, At(p, "DeleteExpiredVersions")', Begun(p)' PROVE ExpireCurrent(p)'
  <2>1. todo'[p] = todo[p]
    BY <1>3
  <2>2. ExpireCurrent(p)
    BY <1>3, <2>1 DEF HistoryInv, At, Begun
  <2> QED BY <2>1, <2>2 DEF ExpireCurrent, HistoryVars, Seen
<1> QED BY <1>1, <1>2, <1>3 DEF HistoryInv

\* A transaction that has begun meanwhile knows the rows as they are.
LEMMA HistoryBegins ==
  ASSUME HistoryInv, UNCHANGED HistoryVars, NEW p \in Threads, NEW t, BeginStep(p, t),
         At(p, "SaveDashboard") => SaveCurrent(p)',
         At(p, "DeleteExpiredVersions") => ExpireCurrent(p)'
  PROVE  HistoryInv'
<1>1. \A d \in DashIds \ overtaken' : dashboards'[d] # NoRow => ChainRight(d)'
  BY DEF HistoryInv, HistoryVars, ChainRight
<1>2. ASSUME NEW q \in Threads, At(q, "SaveDashboard")', Begun(q)' PROVE SaveCurrent(q)'
  <2>1. CASE q = p
    BY <1>2, <2>1, BeginFacts
  <2>2. CASE q # p
    <3>1. todo'[q] = todo[q]
      BY <2>2 DEF BeginStep, Others
    <3>2. SaveCurrent(q)
      BY <1>2, <3>1 DEF HistoryInv, At, Begun
    <3> QED BY <3>1, <3>2 DEF SaveCurrent, HistoryVars, Args, Seen
  <2> QED BY <2>1, <2>2
<1>3. ASSUME NEW q \in Threads, At(q, "DeleteExpiredVersions")', Begun(q)' PROVE ExpireCurrent(q)'
  <2>1. CASE q = p
    BY <1>3, <2>1, BeginFacts
  <2>2. CASE q # p
    <3>1. todo'[q] = todo[q]
      BY <2>2 DEF BeginStep, Others
    <3>2. ExpireCurrent(q)
      BY <1>3, <3>1 DEF HistoryInv, At, Begun
    <3> QED BY <3>1, <3>2 DEF ExpireCurrent, HistoryVars, Seen
  <2> QED BY <2>1, <2>2
<1> QED BY <1>1, <1>2, <1>3 DEF HistoryInv

LEMMA HistorySaveRead ==
  ASSUME BasicInv, HistoryInv, NEW p \in Threads, SaveRead(p)
  PROVE  HistoryInv'
<1>1. ListsRight /\ UNCHANGED HistoryVars
  BY DEF SaveRead, BasicInv, rows, HistoryVars
<1>2. CASE QuietStep(p)
  BY <1>1, <1>2, HistorySame DEF QuietStep, Others
<1>3. CASE BeginStep(p, dashboards)
  <2>1. BasicInv'
    BY BasicSaveRead
  <2>2. Seen(p)' = dashboards /\ Args(p)' = Args(p) /\ Begun(p)' /\ At(p, "SaveDashboard")'
    BY <1>3, BeginFacts DEF SaveRead, Waits
  <2>3. SaveCurrent(p)'
    <3> DEFINE c == Args(p)
    <3>1. SaveRight(p)'
      BY <2>1, <2>2 DEF BasicInv
    <3>2. TableRight(dashboards) /\ lastDash \in Nat
      BY DEF BasicInv
    <3>3. c.id \in {0} \cup DashIds
      <4>1. todo[p] # <<>> /\ Head(todo[p]).op = "SaveDashboard"
        BY DEF SaveRead, Waits, At
      <4> QED BY <1>1, <4>1, ListFacts DEF CmdRight, Args
    <3>4. c.id # 0 => dashboards[c.id] # NoRow
      BY <2>2, <3>1 DEF SaveRight
    <3>5. \/ Target(c, dashboards) = 0
          \/ Parent(c, dashboards) = dashboards[Target(c, dashboards)].version /\ Parent(c, dashboards) \in Nat
      BY <3>2, <3>3, <3>4, TargetRight
    <3> QED BY <1>1, <2>2, <3>5 DEF SaveCurrent, HistoryVars
  <2>4. ~ At(p, "DeleteExpiredVersions")
    BY DEF SaveRead, Waits, At
  <2> QED BY <1>1, <1>3, <2>3, <2>4, HistoryBegins
<1> QED BY <1>1, <1>2, <1>3, SaveReadStep

LEMMA HistoryExpireRead ==
  ASSUME BasicInv, HistoryInv, NEW p \in Threads, ExpireRead(p)
  PROVE  HistoryInv'
<1> DEFINE gone == getVersionIDsToDelete(Excess(history))
<1>1. ListsRight /\ UNCHANGED HistoryVars /\ HistoryRight /\ lastDash \in Nat /\ TableRight(dashboards)
  BY DEF ExpireRead, BasicInv, rows, HistoryVars
<1>2. BeginStep(p, gone)
  BY <1>1, ExpireReadStep
<1>3. Seen(p)' = gone
  BY <1>2, BeginFacts
<1>4. gone = {v \in history : Cardinality(NewerThan(v, history)) >= MaxKeep}
  BY <1>1, ExpiredRight
<1>5. \A v \in history : v.dash \in DashIds /\ v.dash <= lastDash /\ v.version \in Nat
  BY <1>1 DEF HistoryRight, TableRight
<1>6. ASSUME NEW v \in gone, NEW w \in history, w.dash = v.dash, w.version <= v.version
      PROVE  w \in gone
  <2>1. NewerThan(v, history) \subseteq NewerThan(w, history)
    BY <1>4, <1>5, <1>6 DEF NewerThan
  <2>2. IsFiniteSet(NewerThan(w, history))
    BY <1>1, FS_Subset DEF NewerThan, HistoryRight
  <2>3. Cardinality(NewerThan(v, history)) <= Cardinality(NewerThan(w, history))
    BY <2>1, <2>2, FS_Subset
  <2>4. IsFiniteSet(NewerThan(v, history))
    BY <2>1, <2>2, FS_Subset
  <2>5. Cardinality(NewerThan(v, history)) \in Nat /\ Cardinality(NewerThan(w, history)) \in Nat
    BY <2>2, <2>4, FS_CardinalityType
  <2>6. Cardinality(NewerThan(v, history)) >= MaxKeep
    BY <1>4
  <2>7. Cardinality(NewerThan(w, history)) >= MaxKeep
    BY <2>3, <2>5, <2>6, KeepBound
  <2> QED BY <1>4, <2>7
<1> HIDE DEF gone
<1>7. ExpireCurrent(p)'
  <2>1. \A v \in gone : v \in history /\ Cardinality(NewerThan(v, history)) >= MaxKeep
    BY <1>4
  <2>2. \A v \in gone : v.dash \in DashIds /\ v.dash <= lastDash /\ v.version \in Nat
    BY <1>5, <2>1
  <2>3. Seen(p)' = getVersionIDsToDelete(Excess(history))'
    BY <1>1, <1>3 DEF gone, HistoryVars, getVersionIDsToDelete, Excess, CountOf
  <2> QED BY <1>1, <1>3, <1>6, <2>1, <2>2, <2>3 DEF ExpireCurrent, HistoryVars, NewerThan
<1>8. ~ At(p, "SaveDashboard")
  BY DEF ExpireRead, Waits, At
<1> QED BY <1>1, <1>2, <1>7, <1>8, HistoryBegins

LEMMA ChainKept ==
  ASSUME NEW d, ChainRight(d), dashboards'[d] = dashboards[d],
         {v \in history' : v.dash = d} = {v \in history : v.dash = d}
  PROVE  ChainRight(d)'
<1>1. \A v \in history' : v.dash = d => v \in history
  OBVIOUS
<1>2. \A v \in history : v.dash = d => v \in history'
  OBVIOUS
<1> QED BY <1>1, <1>2 DEF ChainRight

\* A save that is not refused by the index has read the row as it is.
LEMMA SaveIsCurrent ==
  ASSUME BasicInv, HistoryInv, NEW p \in Threads, At(p, "SaveDashboard"), Begun(p),
         NEW d \in DashIds \ overtaken, d = Target(Args(p), Seen(p)),
         Writable(d, Args(p), Parent(Args(p), Seen(p)))
  PROVE  dashboards[d] # NoRow /\ dashboards[d].version = Parent(Args(p), Seen(p)) /\ ChainRight(d)
<1> DEFINE parent == Parent(Args(p), Seen(p))
<1>1. d # 0 /\ dashboards[d] # NoRow
  BY DEF Writable, DashIds
<1>2. SaveCurrent(p) /\ ChainRight(d)
  BY <1>1 DEF HistoryInv
<1>3. dashboards[d].version \in Nat
  BY <1>1 DEF BasicInv, TableRight, RowRight
<1>4. parent \in Nat
  <2>1. SaveRight(p) /\ lastDash \in Nat /\ ListsRight
    BY DEF BasicInv
  <2>2. Args(p).id \in {0} \cup DashIds
    BY <2>1, ListFacts DEF At, Args, CmdRight
  <2>3. parent = 0 \/ parent \in Nat \ {0}
    BY <2>1, <2>2, TargetRight DEF SaveRight
  <2> QED BY <2>3
<1>5. ~ \E v \in history : v.dash = d /\ v.version = parent + 1
  BY DEF Writable
<1>6. parent <= dashboards[d].version /\ ~ (parent < dashboards[d].version)
  BY <1>1, <1>2, <1>5 DEF SaveCurrent
<1> HIDE DEF parent
<1>7. dashboards[d].version = parent
  BY <1>3, <1>4, <1>6
<1> QED BY <1>1, <1>2, <1>7 DEF parent

\* The history after a save.
LEMMA ChainSaved ==
  ASSUME NEW d \in DashIds, DOMAIN dashboards = DashIds, NEW row, NEW v,
         dashboards' = [dashboards EXCEPT ![d] = row], history' = history \cup {v},
         NEW k \in Nat, v.dash = d, v.version = k + 1, v.parent = k, v.data = row.data, row.version = k + 1,
         \A w \in history : w.version \in Nat,
         \/ k = 0 /\ \A w \in history : w.dash # d
         \/ ChainRight(d) /\ dashboards[d].version = k
  PROVE  ChainRight(d)'
<1>1. dashboards'[d] = row
  OBVIOUS
<1>2. v \in history' /\ \A w \in history' : w \in history \/ w = v
  OBVIOUS
<1>3. \A w \in history : w.dash = d => w.version <= k /\ w.parent = w.version - 1
  BY DEF ChainRight
<1>4. ASSUME NEW w \in history', w.dash = d, NEW j \in w.version..(k + 1)
      PROVE  \E x \in history' : x.dash = d /\ x.version = j
  <2>1. CASE j = k + 1
    BY <1>2, <2>1
  <2>2. CASE j # k + 1
    <3>1. w # v
      <4> SUFFICES ASSUME w = v PROVE FALSE
        OBVIOUS
      <4> QED BY <1>4, <2>2
    <3>2. w \in history
      BY <1>2, <3>1
    <3>3. j \in w.version..k
      BY <1>4, <2>2, <3>2
    <3> QED BY <1>4, <3>2, <3>3 DEF ChainRight
  <2> QED BY <2>1, <2>2
<1>5. ASSUME NEW w \in history', w.dash = d
      PROVE  w.version <= k + 1 /\ w.parent = w.version - 1
  <2>1. CASE w \in history
    BY <1>3, <1>5, <2>1
  <2>2. CASE w = v
    BY <2>2
  <2> QED BY <1>2, <2>1, <2>2
<1> QED BY <1>1, <1>2, <1>4, <1>5 DEF ChainRight

LEMMA HistorySaveWrite ==
  ASSUME BasicInv, HistoryInv, NEW p \in Threads, SaveWrite(p)
  PROVE  HistoryInv'
<1> DEFINE c == Args(p)
           t == Target(c, Seen(p))
           parent == Parent(c, Seen(p))
           d == IF t = 0 THEN lastDash + 1 ELSE t
           row == [version |-> parent + 1, data |-> c.data,
                   plugin |-> c.plugin \/ (t # 0 /\ dashboards[t].plugin)]
           v == [dash |-> d, version |-> parent + 1, parent |-> parent, data |-> c.data]
<1>1. QuietStep(p) /\ UNCHANGED <<overtaken, database>>
  BY SaveWriteStep DEF SaveWrite
<1>2. \A q \in Threads : todo'[q] = todo[q] \/ ~ Begun(q)'
  BY <1>1 DEF QuietStep, Others
<1>3. CASE UNCHANGED rows
  BY <1>1, <1>2, <1>3, HistorySame DEF rows, HistoryVars
<1>4. CASE /\ Writable(t, c, parent) /\ d \in DashIds
           /\ lastDash' = (IF t = 0 THEN d ELSE lastDash)
           /\ dashboards' = [dashboards EXCEPT ![d] = row]
           /\ history' = history \cup {v}
  <2>1. /\ BasicInv' /\ lastDash \in Nat /\ TableRight(dashboards) /\ HistoryRight /\ SaveRight(p)
        /\ At(p, "SaveDashboard") /\ Begun(p) /\ ListsRight
    BY BasicSaveWrite DEF BasicInv, SaveWrite, Writes
  <2>2. \/ t = 0 /\ parent = 0
        \/ t \in DashIds /\ t <= lastDash /\ parent \in Nat \ {0}
    <3>1. c.id \in {0} \cup DashIds
      BY <2>1, ListFacts DEF At, Args, CmdRight
    <3> QED BY <2>1, <3>1, TargetRight DEF SaveRight
  <2>3. t \in DashIds \ overtaken => dashboards[t].version = parent /\ ChainRight(t)
    BY <1>4, <2>1, SaveIsCurrent
  <2>4. v.dash = d /\ v.version = parent + 1 /\ v.parent = parent /\ v.data = row.data /\ row.version = parent + 1
    OBVIOUS
  <2>5. parent \in Nat /\ d \in DashIds /\ DOMAIN dashboards = DashIds
    BY <1>4, <2>1, <2>2 DEF TableRight
  <2>6. \A w \in history : w.version \in Nat /\ w.dash \in DashIds /\ w.dash <= lastDash
    BY <2>1 DEF HistoryRight, TableRight
  <2>7. t = 0 => (\A w \in history : w.dash # d) /\ d = lastDash + 1
    BY <2>1, <2>6 DEF DashIds
  <2>8. t # 0 => t \in DashIds /\ d = t
    BY <2>2
  <2> HIDE DEF c, t, parent, row, v, d
  <2>9. ASSUME NEW e \in DashIds \ overtaken, dashboards'[e] # NoRow PROVE ChainRight(e)'
    <3>1. CASE e = d
      <4>1. \/ parent = 0 /\ \A w \in history : w.dash # d
            \/ ChainRight(d) /\ dashboards[d].version = parent
        <5>1. CASE t = 0
          BY <2>2, <2>7, <5>1 DEF DashIds
        <5>2. CASE t # 0
          <6>1. t = d /\ t \in DashIds \ overtaken
            BY <1>1, <2>8, <2>9, <3>1, <5>2
          <6> QED BY <2>3, <6>1
        <5> QED BY <5>1, <5>2
      <4> QED BY <1>4, <2>4, <2>5, <2>6, <3>1, <4>1, ChainSaved
    <3>2. CASE e # d
      <4>1. dashboards'[e] = dashboards[e]
        BY <1>4, <2>5, <3>2
      <4>2. {w \in history' : w.dash = e} = {w \in history : w.dash = e}
        BY <1>4, <2>4, <3>2
      <4>3. ChainRight(e)
        BY <2>9, <4>1 DEF HistoryInv
      <4> QED BY <4>1, <4>2, <4>3, ChainKept
    <3> QED BY <3>1, <3>2
  <2>10. ASSUME NEW q \in Threads, At(q, "SaveDashboard")', Begun(q)' PROVE SaveCurrent(q)'
    <3> DEFINE e == Target(Args(q), Seen(q))
               f == Parent(Args(q), Seen(q))
    <3>1. todo'[q] = todo[q]
      BY <1>2, <2>10
    <3>2. At(q, "SaveDashboard") /\ Begun(q) /\ SaveCurrent(q) /\ SaveRight(q)
      BY <2>10, <3>1 DEF HistoryInv, BasicInv, At, Begun
    <3>3. e' = e /\ f' = f
      BY <3>1 DEF Args, Seen
    <3>4. Args(q).id \in {0} \cup DashIds
      BY <2>1, <3>2, ListFacts DEF At, Args, CmdRight
    <3>5. e = 0 \/ (e <= lastDash /\ e \in DashIds /\ f \in Nat)
      BY <2>1, <3>2, <3>4, TargetRight DEF SaveRight
    <3> SUFFICES ASSUME e # 0, e \notin overtaken, dashboards'[e] # NoRow
                 PROVE  /\ f <= dashboards'[e].version
                        /\ f < dashboards'[e].version => \E w \in history' : w.dash = e /\ w.version = f + 1
      BY <1>1, <3>3 DEF SaveCurrent
    <3>6. SaveCurrent(q) => (dashboards[e] # NoRow =>
                        /\ f <= dashboards[e].version
                        /\ f < dashboards[e].version => \E w \in history : w.dash = e /\ w.version = f + 1)
      BY DEF SaveCurrent
    <3> HIDE DEF e, f
    <3>7. CASE e # d
      <4>1. dashboards'[e] = dashboards[e]
        BY <1>4, <2>5, <3>7
      <4> QED BY <1>4, <3>2, <3>6, <4>1
    <3>8. CASE e = d
      <4>1. t # 0 /\ d = t
        BY <2>1, <2>7, <2>8, <3>5, <3>8
      <4>2. dashboards[e].version = parent /\ dashboards[e] # NoRow
        BY <1>4, <2>3, <2>8, <3>8, <4>1 DEF Writable
      <4>3. dashboards'[e].version = parent + 1
        BY <1>4, <2>4, <2>5, <3>8
      <4>4. v \in history' /\ v.dash = e /\ v.version = parent + 1
        BY <1>4, <2>4, <3>8
      <4>5. f <= parent /\ (f < parent => \E w \in history' : w.dash = e /\ w.version = f + 1)
        BY <1>4, <3>2, <3>6, <4>2
      <4>6. f \in Nat
        BY <3>5
      <4> QED BY <2>5, <4>3, <4>4, <4>5, <4>6
    <3> QED BY <3>7, <3>8
  <2>11. ASSUME NEW q \in Threads, At(q, "DeleteExpiredVersions")', Begun(q)' PROVE ExpireCurrent(q)'
    <3>1. todo'[q] = todo[q]
      BY <1>2, <2>11
    <3>2. At(q, "DeleteExpiredVersions") /\ Begun(q) /\ ExpireCurrent(q)
      BY <2>11, <3>1 DEF HistoryInv, At, Begun
    <3>3. Seen(q)' = Seen(q)
      BY <3>1 DEF Seen
    <3>4. database # "sqlite"
      <4>1. q # p
        BY <2>1, <3>2 DEF At
      <4> QED BY <3>2, <4>1 DEF SaveWrite, Writes, Alone
    <3>5. ASSUME NEW w \in Seen(q)
          PROVE  /\ w.dash \in DashIds /\ w.dash <= lastDash' /\ w.version \in Nat
                 /\ dashboards'[w.dash] # NoRow => Cardinality(NewerThan(w, history')) >= MaxKeep
                 /\ w.dash \notin overtaken =>
                      \A x \in history' : x.dash = w.dash /\ x.version <= w.version => x \in Seen(q)
      <4>1. /\ w.dash \in DashIds /\ w.dash <= lastDash /\ w.version \in Nat
            /\ dashboards[w.dash] # NoRow => Cardinality(NewerThan(w, history)) >= MaxKeep
            /\ w.dash \notin overtaken =>
                 \A x \in history : x.dash = w.dash /\ x.version <= w.version => x \in Seen(q)
        BY <3>2 DEF ExpireCurrent
      <4>2. w.dash = d => t # 0 /\ d = t
        BY <2>1, <2>7, <2>8, <4>1
      <4>3. w.dash <= lastDash'
        BY <1>4, <2>1, <2>7, <4>1 DEF DashIds
      <4>4. dashboards'[w.dash] # NoRow => dashboards[w.dash] # NoRow
        BY <1>4, <2>5, <4>1, <4>2 DEF Writable
      <4>5. IsFiniteSet(history') /\ IsFiniteSet(history)
        BY <2>1 DEF BasicInv, HistoryRight
      <4>6. Cardinality(NewerThan(w, history)) >= MaxKeep => Cardinality(NewerThan(w, history')) >= MaxKeep
        <5>1. NewerThan(w, history) \subseteq NewerThan(w, history') /\ IsFiniteSet(NewerThan(w, history'))
          BY <1>4, <4>5, FS_Subset DEF NewerThan
        <5>2. /\ Cardinality(NewerThan(w, history)) <= Cardinality(NewerThan(w, history'))
              /\ IsFiniteSet(NewerThan(w, history))
          BY <5>1, FS_Subset
        <5>3. Cardinality(NewerThan(w, history)) \in Nat /\ Cardinality(NewerThan(w, history')) \in Nat
          BY <5>1, <5>2, FS_CardinalityType
        <5> QED BY <5>2, <5>3, KeepBound
      <4>7. ASSUME w.dash \notin overtaken, NEW x \in history', x.dash = w.dash, x.version <= w.version
            PROVE  x \in Seen(q)
        <5>1. CASE x \in history
          BY <4>1, <4>7, <5>1
        <5>2. CASE x = v
          <6>1. t # 0 /\ d = t /\ t \in DashIds \ overtaken
            BY <2>4, <2>8, <4>2, <4>7, <5>2
          <6>2. dashboards[d] # NoRow /\ dashboards[d].version = parent /\ ChainRight(d)
            BY <1>4, <2>3, <6>1 DEF Writable
          <6>3. Cardinality(NewerThan(w, history)) >= MaxKeep
            BY <2>4, <4>1, <4>7, <5>2, <6>2
          <6>4. NewerThan(w, history) # {}
            <7> SUFFICES ASSUME NewerThan(w, history) = {} PROVE FALSE
              OBVIOUS
            <7>1. Cardinality(NewerThan(w, history)) = 0
              BY FS_EmptySet
            <7> QED BY <6>3, <7>1, KeepBound
          <6>5. PICK y \in history : y.dash = d /\ y.version > w.version
            BY <2>4, <4>7, <5>2, <6>4 DEF NewerThan
          <6>6. y.version <= parent
            BY <6>2, <6>5 DEF ChainRight
          <6>7. v.version <= w.version
            BY <4>7, <5>2
          <6>8. y.version \in Nat /\ w.version \in Nat
            BY <2>6, <4>1
          <6> QED BY <2>4, <2>5, <6>5, <6>6, <6>7, <6>8
        <5> QED BY <1>4, <5>1, <5>2
      <4> QED BY <4>1, <4>3, <4>4, <4>6, <4>7
    <3> QED BY <1>1, <3>3, <3>4, <3>5 DEF ExpireCurrent, NewerThan
  <2> QED BY <1>1, <2>9, <2>10, <2>11 DEF HistoryInv
<1>5. UNCHANGED rows \/ (/\ Writable(t, c, parent) /\ d \in DashIds
                         /\ lastDash' = (IF t = 0 THEN d ELSE lastDash)
                         /\ dashboards' = [dashboards EXCEPT ![d] = row]
                         /\ history' = history \cup {v})
  BY SaveWriteStep
<1> QED BY <1>3, <1>4, <1>5

LEMMA HistoryDeleteWrite ==
  ASSUME BasicInv, HistoryInv, NEW p \in Threads, DeleteWrite(p)
  PROVE  HistoryInv'
<1> DEFINE gone == Seen(p)
<1>1. /\ dashboards' = [d \in DashIds |-> IF d \in gone THEN NoRow ELSE dashboards[d]]
      /\ history' = {v \in history : v.dash \notin gone}
      /\ UNCHANGED <<lastDash, overtaken, database>> /\ At(p, "DeleteDashboard")
  BY DEF DeleteWrite, Writes
<1> HIDE DEF gone
<1>2. \A q \in Threads : todo'[q] = todo[q] \/ ~ Begun(q)'
  BY BasicDeleteWrite DEF QuietStep, Others
<1>3. \A d \in DashIds : dashboards'[d] # NoRow => d \notin gone /\ dashboards'[d] = dashboards[d]
  BY <1>1
<1>4. ASSUME NEW d \in DashIds \ overtaken', dashboards'[d] # NoRow PROVE ChainRight(d)'
  <2>1. {v \in history' : v.dash = d} = {v \in history : v.dash = d}
    BY <1>1, <1>3, <1>4
  <2>2. ChainRight(d) /\ dashboards'[d] = dashboards[d]
    BY <1>1, <1>3, <1>4 DEF HistoryInv
  <2> QED BY <2>1, <2>2, ChainKept
<1>5. ASSUME NEW q \in Threads, At(q, "SaveDashboard")', Begun(q)' PROVE SaveCurrent(q)'
  <2> DEFINE e == Target(Args(q), Seen(q))
             f == Parent(Args(q), Seen(q))
  <2>1. todo'[q] = todo[q]
    BY <1>2, <1>5
  <2>2. At(q, "SaveDashboard") /\ Begun(q) /\ SaveCurrent(q) /\ SaveRight(q) /\ ListsRight
        /\ lastDash \in Nat
    BY <1>5, <2>1 DEF HistoryInv, BasicInv, At, Begun
  <2>3. e' = e /\ f' = f
    BY <2>1 DEF Args, Seen
  <2>4. Args(q).id \in {0} \cup DashIds
    BY <2>2, ListFacts DEF At, Args, CmdRight
  <2>5. e = 0 \/ e \in DashIds
    BY <2>2, <2>4, TargetRight DEF SaveRight
  <2> SUFFICES ASSUME e # 0, e \notin overtaken, dashboards'[e] # NoRow
               PROVE  /\ f <= dashboards'[e].version
                      /\ f < dashboards'[e].version => \E w \in history' : w.dash = e /\ w.version = f + 1
    BY <1>1, <2>3 DEF SaveCurrent
  <2>6. SaveCurrent(q) => (dashboards[e] # NoRow =>
                      /\ f <= dashboards[e].version
                      /\ f < dashboards[e].version => \E w \in history : w.dash = e /\ w.version = f + 1)
    BY DEF SaveCurrent
  <2> HIDE DEF e, f
  <2>7. e \notin gone /\ dashboards'[e] = dashboards[e]
    BY <1>3, <2>5
  <2> QED BY <1>1, <2>2, <2>6, <2>7
<1>6. ASSUME NEW q \in Threads, At(q, "DeleteExpiredVersions")', Begun(q)' PROVE ExpireCurrent(q)'
  <2>1. todo'[q] = todo[q]
    BY <1>2, <1>6
  <2>2. At(q, "DeleteExpiredVersions") /\ Begun(q) /\ ExpireCurrent(q)
    BY <1>6, <2>1 DEF HistoryInv, At, Begun
  <2>3. Seen(q)' = Seen(q)
    BY <2>1 DEF Seen
  <2>4. database # "sqlite"
    <3>1. q # p
      BY <1>1, <2>2 DEF At
    <3> QED BY <2>2, <3>1 DEF DeleteWrite, Writes, Alone
  <2>5. ASSUME NEW w \in Seen(q)
        PROVE  /\ w.dash \in DashIds /\ w.dash <= lastDash' /\ w.version \in Nat
               /\ dashboards'[w.dash] # NoRow => Cardinality(NewerThan(w, history')) >= MaxKeep
               /\ w.dash \notin overtaken =>
                    \A x \in history' : x.dash = w.dash /\ x.version <= w.version => x \in Seen(q)
    <3>1. /\ w.dash \in DashIds /\ w.dash <= lastDash /\ w.version \in Nat
          /\ dashboards[w.dash] # NoRow => Cardinality(NewerThan(w, history)) >= MaxKeep
          /\ w.dash \notin overtaken =>
               \A x \in history : x.dash = w.dash /\ x.version <= w.version => x \in Seen(q)
      BY <2>2 DEF ExpireCurrent
    <3>2. ASSUME dashboards'[w.dash] # NoRow PROVE Cardinality(NewerThan(w, history')) >= MaxKeep
      <4>1. NewerThan(w, history') = NewerThan(w, history)
        BY <1>1, <1>3, <3>1, <3>2 DEF NewerThan
      <4> QED BY <1>3, <3>1, <3>2, <4>1
    <3> QED BY <1>1, <3>1, <3>2
  <2> QED BY <1>1, <2>3, <2>4, <2>5 DEF ExpireCurrent, NewerThan
<1> QED BY <1>4, <1>5, <1>6 DEF HistoryInv

\* The newest version that is removed leaves those that are newer.
LEMMA NewestKept ==
  ASSUME HistoryRight, NEW R, NEW d,
         \A v \in R : v.dash = d => Cardinality(NewerThan(v, history)) >= MaxKeep,
         NEW T \in SUBSET history, \A v \in T : v.dash = d, T \cap R # {},
         \A v \in T, w \in history : w.dash = d /\ w.version > v.version => w \in T
  PROVE  IsFiniteSet(T \ R) /\ Cardinality(T \ R) >= MaxKeep
<1>1. IsFiniteSet(history) /\ \A v \in history : v.version \in Nat
  BY DEF HistoryRight
<1>2. IsFiniteSet(T \cap R) /\ IsFiniteSet(T \ R)
  BY <1>1, FS_Subset
<1>3. PICK m \in T \cap R : \A v \in T \cap R : v.version <= m.version
  BY <1>1, <1>2, Newest
<1>4. NewerThan(m, history) \subseteq T \ R
  <2> SUFFICES ASSUME NEW w \in NewerThan(m, history) PROVE w \in T /\ w \notin R
    OBVIOUS
  <2>1. w \in history /\ w.dash = d /\ w.version > m.version
    BY <1>3 DEF NewerThan
  <2>2. w \in T
    BY <1>3, <2>1
  <2>3. ~ (w.version <= m.version)
    BY <1>1, <1>3, <2>1
  <2> QED BY <1>3, <2>2, <2>3
<1>5. Cardinality(NewerThan(m, history)) >= MaxKeep
  BY <1>3
<1>6. /\ IsFiniteSet(NewerThan(m, history))
      /\ Cardinality(NewerThan(m, history)) <= Cardinality(T \ R)
  BY <1>2, <1>4, FS_Subset
<1>7. Cardinality(NewerThan(m, history)) \in Nat /\ Cardinality(T \ R) \in Nat
  BY <1>2, <1>6, FS_CardinalityType
<1> QED BY <1>2, <1>5, <1>6, <1>7, KeepBound

LEMMA HistoryExpireWrite ==
  ASSUME BasicInv, HistoryInv, NEW p \in Threads, ExpireWrite(p)
  PROVE  HistoryInv'
<1> DEFINE R == Seen(p)
           lost == {d \in DashIds : \E q \in Threads, v \in R : v.dash = d /\ IsWriting(q, d, v.version)}
<1>1. /\ history' = history \ R /\ overtaken' = overtaken \cup lost
      /\ UNCHANGED <<dashboards, lastDash, database>> /\ At(p, "DeleteExpiredVersions") /\ Begun(p)
  BY DEF ExpireWrite, Writes
<1>2. \A q \in Threads : todo'[q] = todo[q] \/ ~ Begun(q)'
  BY BasicExpireWrite DEF QuietStep, Others
<1>3. HistoryRight /\ TableRight(dashboards) /\ ListsRight /\ lastDash \in Nat
  BY DEF BasicInv
<1>4. \A v \in R : /\ v.dash \in DashIds
                   /\ dashboards[v.dash] # NoRow => Cardinality(NewerThan(v, history)) >= MaxKeep
                   /\ v.dash \notin overtaken =>
                        \A w \in history : w.dash = v.dash /\ w.version <= v.version => w \in R
  BY <1>1 DEF HistoryInv, ExpireCurrent
<1> HIDE DEF R, lost
<1>5. ASSUME NEW d \in DashIds \ overtaken', dashboards'[d] # NoRow PROVE ChainRight(d)'
  <2> DEFINE top == dashboards[d].version
  <2>1. ChainRight(d) /\ dashboards[d] # NoRow /\ d \notin overtaken
    BY <1>1, <1>5 DEF HistoryInv
  <2>2. PICK x \in history : x.dash = d /\ x.version = top /\ x.data = dashboards[d].data
    BY <2>1 DEF ChainRight
  <2>3. x \in history'
    <3> SUFFICES ASSUME x \in R PROVE FALSE
      BY <1>1
    <3>1. NewerThan(x, history) = {}
      BY <1>3, <2>1, <2>2 DEF ChainRight, NewerThan, HistoryRight, TableRight, RowRight
    <3>2. Cardinality(NewerThan(x, history)) = 0
      BY <3>1, FS_EmptySet
    <3>3. Cardinality(NewerThan(x, history)) >= MaxKeep
      BY <1>4, <2>1, <2>2
    <3> QED BY <3>2, <3>3, KeepBound
  <2>4. ASSUME NEW v \in history', v.dash = d
        PROVE  /\ v.version <= top /\ v.parent = v.version - 1
               /\ \A k \in v.version..top : \E w \in history' : w.dash = d /\ w.version = k
    <3>1. v \in history /\ v \notin R
      BY <1>1
    <3>2. /\ v.version <= top /\ v.parent = v.version - 1
          /\ \A k \in v.version..top : \E w \in history : w.dash = d /\ w.version = k
      BY <2>1, <2>4, <3>1 DEF ChainRight
    <3>3. ASSUME NEW k \in v.version..top PROVE \E w \in history' : w.dash = d /\ w.version = k
      <4>1. PICK w \in history : w.dash = d /\ w.version = k
        BY <3>2
      <4>2. v.version <= w.version
        BY <4>1
      <4>3. w \notin R
        BY <1>4, <2>1, <2>4, <3>1, <4>1, <4>2
      <4> QED BY <1>1, <4>1, <4>3
    <3> QED BY <3>2, <3>3
  <2> QED BY <1>1, <2>2, <2>3, <2>4 DEF ChainRight
<1>6. ASSUME NEW q \in Threads, At(q, "SaveDashboard")', Begun(q)' PROVE SaveCurrent(q)'
  <2> DEFINE e == Target(Args(q), Seen(q))
             f == Parent(Args(q), Seen(q))
  <2>1. todo'[q] = todo[q]
    BY <1>2, <1>6
  <2>2. At(q, "SaveDashboard") /\ Begun(q) /\ SaveCurrent(q) /\ SaveRight(q)
    BY <1>6, <2>1 DEF HistoryInv, BasicInv, At, Begun
  <2>3. e' = e /\ f' = f
    BY <2>1 DEF Args, Seen
  <2>4. Args(q).id \in {0} \cup DashIds
    BY <1>3, <2>2, ListFacts DEF At, Args, CmdRight
  <2>5. e = 0 \/ e \in DashIds
    BY <1>3, <2>2, <2>4, TargetRight DEF SaveRight
  <2>6. \A v \in R : e \in DashIds /\ v.dash = e /\ v.version = f + 1 => e \in lost
    BY <2>2 DEF lost, IsWriting
  <2> SUFFICES ASSUME e # 0, e \notin overtaken', dashboards[e] # NoRow
               PROVE  /\ f <= dashboards[e].version
                      /\ f < dashboards[e].version => \E w \in history' : w.dash = e /\ w.version = f + 1
    BY <1>1, <2>3 DEF SaveCurrent
  <2>7. SaveCurrent(q) => (e \notin overtaken =>
                      /\ f <= dashboards[e].version
                      /\ f < dashboards[e].version => \E w \in history : w.dash = e /\ w.version = f + 1)
    BY DEF SaveCurrent
  <2> HIDE DEF e, f
  <2> QED BY <1>1, <2>2, <2>5, <2>6, <2>7
<1>7. ASSUME NEW q \in Threads, At(q, "DeleteExpiredVersions")', Begun(q)' PROVE ExpireCurrent(q)'
  <2>1. todo'[q] = todo[q]
    BY <1>2, <1>7
  <2>2. At(q, "DeleteExpiredVersions") /\ Begun(q) /\ ExpireCurrent(q)
    BY <1>7, <2>1 DEF HistoryInv, At, Begun
  <2>3. Seen(q)' = Seen(q)
    BY <2>1 DEF Seen
  <2>4. database # "sqlite"
    <3>1. q # p
      BY <1>7, BasicExpireWrite DEF QuietStep
    <3> QED BY <2>2, <3>1 DEF ExpireWrite, Writes, Alone
  <2>5. ASSUME NEW w \in Seen(q)
        PROVE  /\ w.dash \in DashIds /\ w.dash <= lastDash' /\ w.version \in Nat
               /\ dashboards'[w.dash] # NoRow => Cardinality(NewerThan(w, history')) >= MaxKeep
               /\ w.dash \notin overtaken' =>
                    \A x \in history' : x.dash = w.dash /\ x.version <= w.version => x \in Seen(q)
    <3>1. /\ w.dash \in DashIds /\ w.dash <= lastDash /\ w.version \in Nat
          /\ dashboards[w.dash] # NoRow => Cardinality(NewerThan(w, history)) >= MaxKeep
          /\ w.dash \notin overtaken =>
               \A x \in history : x.dash = w.dash /\ x.version <= w.version => x \in Seen(q)
      BY <2>2 DEF ExpireCurrent
    <3>2. ASSUME dashboards[w.dash] # NoRow PROVE Cardinality(NewerThan(w, history')) >= MaxKeep
      <4> DEFINE T == NewerThan(w, history)
      <4>1. T \in SUBSET history /\ (\A v \in T : v.dash = w.dash) /\ NewerThan(w, history') = T \ R
        BY <1>1 DEF NewerThan
      <4>2. \A v \in T, x \in history : x.dash = w.dash /\ x.version > v.version => x \in T
        BY <1>3, <3>1 DEF NewerThan, HistoryRight
      <4>3. \A v \in R : v.dash = w.dash => Cardinality(NewerThan(v, history)) >= MaxKeep
        BY <1>4, <3>2
      <4> HIDE DEF T
      <4>4. CASE T \cap R = {}
        <5>1. T \ R = T
          BY <4>4
        <5> QED BY <3>1, <3>2, <4>1, <5>1 DEF T
      <4>5. CASE T \cap R # {}
        BY <1>3, <4>1, <4>2, <4>3, <4>5, NewestKept
      <4> QED BY <4>4, <4>5
    <3> QED BY <1>1, <3>1, <3>2
  <2> QED BY <1>1, <2>3, <2>4, <2>5 DEF ExpireCurrent, NewerThan
<1> QED BY <1>5, <1>6, <1>7 DEF HistoryInv

LEMMA HistoryNext ==
  BasicInv /\ HistoryInv /\ [DashboardsNext]_dashboardsVars => HistoryInv'
<1> SUFFICES ASSUME BasicInv, HistoryInv, [DashboardsNext]_dashboardsVars PROVE HistoryInv'
  OBVIOUS
<1> USE DEF rows, HistoryVars
<1>0. ListsRight
  BY DEF BasicInv
<1>1. ASSUME NEW p \in Threads, QuietStep(p), UNCHANGED HistoryVars PROVE HistoryInv'
  BY <1>1, HistorySame DEF QuietStep, Others
<1>2. CASE UNCHANGED dashboardsVars
  BY <1>2, HistorySame DEF dashboardsVars
<1>3. CASE Restart
  BY <1>3, RestartStep, HistorySame DEF Restart
<1>4. ASSUME NEW p \in Slots, Request(p) PROVE HistoryInv'
  <2>1. PICK cmd : CmdRight(cmd) /\ cmd.seen = <<>> /\ Arrives(p, cmd)
    BY <1>4, RequestStep
  <2>2. QuietStep(p)
    BY <1>0, <2>1, ArrivesStep DEF Threads
  <2> QED BY <1>1, <2>1, <2>2 DEF Arrives, Threads
<1>5. ASSUME NEW p \in Threads, Handler(p) PROVE HistoryInv'
  <2>1. QuietStep(p)
    BY <1>0, <1>5, ValidateStep, SyncStep DEF Handler
  <2> QED BY <1>1, <1>5, <2>1 DEF Handler, validateDashboardAlerts, syncPluginDashboards, removePluginDashboards
<1>6. ASSUME NEW p \in Threads, DeleteRead(p) \/ AlertsRead(p) \/ StateRead(p) PROVE HistoryInv'
  <2>1. /\ UNCHANGED HistoryVars
        /\ ~ At(p, "SaveDashboard") /\ ~ At(p, "DeleteExpiredVersions")
    BY <1>6 DEF DeleteRead, AlertsRead, StateRead, Waits, At
  <2>2. QuietStep(p) \/ \E t : BeginStep(p, t)
    BY <1>0, <1>6, DeleteReadStep, AlertsReadStep, StateReadStep
  <2> QED BY <1>1, <2>1, <2>2, HistoryBegins
<1>7. ASSUME NEW p \in Threads, SaveAlerts(p) \/ SetAlertState(p) \/ PauseAlert(p) \/ UpdatePluginSettingVersion(p)
      PROVE  HistoryInv'
  BY <1>0, <1>1, <1>7, DoneStep
<1>8. ASSUME NEW p \in Threads, UpdatePluginSetting(p) PROVE HistoryInv'
  BY <1>0, <1>1, <1>8, SettingStep DEF UpdatePluginSetting
<1>9. ASSUME NEW p \in Threads, Locked(p) PROVE HistoryInv'
  BY <1>0, <1>1, <1>9, LockedStep DEF Locked
<1> QED BY <1>2, <1>3, <1>4, <1>5, <1>6, <1>7, <1>8, <1>9, HistorySaveRead, HistoryExpireRead,
           HistorySaveWrite, HistoryDeleteWrite, HistoryExpireWrite DEF DashboardsNext, Store

LEMMA HistoryStart == DashboardsInit => HistoryInv
<1> SUFFICES ASSUME DashboardsInit PROVE HistoryInv
  OBVIOUS
<1> DEFINE n == IF lastDash = 1 THEN 1 ELSE MaxKeep + 1
           data(first, d) == IF d = 1 THEN first ELSE [first EXCEPT !.slug = "b"]
           row(first, d) == [version |-> n, data |-> data(first, d), plugin |-> FALSE]
           old(first, d, v) == [dash |-> d, version |-> v, parent |-> v - 1, data |-> data(first, d)]
<1>1. PICK first \in Datas :
        /\ dashboards = [d \in DashIds |-> IF d <= lastDash THEN row(first, d) ELSE NoRow]
        /\ history = UNION {{old(first, d, v) : v \in 1..n} : d \in 1..lastDash}
  BY DEF DashboardsInit
<1>2. n \in Nat \ {0}
  BY KeepBound
<1>3. \A p \in Threads : ~ Begun(p)
  BY DEF DashboardsInit, Begun
<1>4. lastDash \in {1, 2}
  BY DEF DashboardsInit
<1> HIDE DEF n, data
<1>5. ASSUME NEW d \in DashIds, dashboards[d] # NoRow PROVE ChainRight(d)
  <2>1. dashboards[d] = row(first, d) /\ d \in 1..lastDash
    BY <1>1, <1>4, <1>5 DEF DashIds
  <2>2. \A k \in 1..n : old(first, d, k) \in history
    BY <1>1, <2>1
  <2>3. ASSUME NEW v \in history, v.dash = d PROVE \E k \in 1..n : v = old(first, d, k)
    BY <1>1, <2>3
  <2>4. \E v \in history : v.dash = d /\ v.version = n /\ v.data = dashboards[d].data
    <3>1. n \in 1..n
      BY <1>2
    <3> DEFINE v == old(first, d, n)
    <3>2. v \in history
      BY <2>2, <3>1
    <3>3. v.dash = d /\ v.version = n /\ v.data = data(first, d)
      OBVIOUS
    <3>4. dashboards[d].data = data(first, d)
      BY <2>1
    <3> HIDE DEF v
    <3> QED BY <3>2, <3>3, <3>4
  <2>5. ASSUME NEW v \in history, v.dash = d
        PROVE  /\ v.version <= n /\ v.parent = v.version - 1
               /\ \A k \in v.version..n : \E w \in history : w.dash = d /\ w.version = k
    <3>1. PICK j \in 1..n : v = old(first, d, j)
      BY <2>3, <2>5
    <3>2. ASSUME NEW k \in v.version..n PROVE \E w \in history : w.dash = d /\ w.version = k
      <4>1. k \in 1..n
        BY <1>2, <3>1
      <4> QED BY <2>2, <4>1
    <3> QED BY <1>2, <3>1, <3>2
  <2>6. dashboards[d].version = n
    BY <2>1
  <2> QED BY <2>4, <2>5, <2>6 DEF ChainRight
<1> QED BY <1>3, <1>5 DEF HistoryInv

LEMMA ChainMatches ==
  ASSUME HistoryRight, NEW d, ChainRight(d), dashboards[d].version \in Nat
  PROVE  LET mine == {v \in history : v.dash = d}
             top == dashboards[d].version
         IN {v.version : v \in mine} = (top - Cardinality(mine) + 1)..top
<1> DEFINE mine == {v \in history : v.dash = d}
           top == dashboards[d].version
           versions == {v.version : v \in mine}
<1>1. /\ \A v \in mine : v.version \in Nat /\ v.version <= top
      /\ \A v \in mine : \A k \in v.version..top : k \in versions
      /\ top \in versions
  BY DEF ChainRight, HistoryRight
<1>2. versions \subseteq Nat /\ versions # {}
  BY <1>1
<1>3. PICK low \in versions : \A k \in versions : low <= k
  BY <1>2, LeastNumber
<1>4. versions = low..top
  BY <1>1, <1>2, <1>3
<1>5. IsFiniteSet(mine)
  BY FS_Subset DEF HistoryRight
<1>6. [v \in mine |-> v.version] \in Bijection(mine, versions)
  <2> DEFINE f == [v \in mine |-> v.version]
  <2>1. f \in [mine -> versions]
    OBVIOUS
  <2>2. \A v, w \in mine : f[v] = f[w] => v = w
    BY DEF HistoryRight
  <2>3. \A k \in versions : \E v \in mine : f[v] = k
    OBVIOUS
  <2> HIDE DEF f, versions
  <2>4. f \in Injection(mine, versions) /\ f \in Surjection(mine, versions)
    BY <2>1, <2>2, <2>3 DEF Injection, IsInjective, Surjection
  <2> QED BY <2>4 DEF Bijection, f
<1> HIDE DEF mine, top, versions
<1>7. Cardinality(mine) = Cardinality(versions)
  BY <1>5, <1>6, FS_Bijection DEF ExistsBijection
<1>8. low \in Nat /\ top \in Nat /\ low <= top
  BY <1>1, <1>2, <1>3 DEF top
<1>9. Cardinality(versions) = top - low + 1
  <2>1. Cardinality(low..top) = IF low > top THEN 0 ELSE top - low + 1
    BY <1>8, FS_Interval
  <2> QED BY <1>4, <1>8, <2>1
<1>10. low = top - Cardinality(mine) + 1
  BY <1>7, <1>8, <1>9
<1>11. versions = (top - Cardinality(mine) + 1)..top
  BY <1>4, <1>10
<1> QED BY <1>11 DEF mine, top, versions

LEMMA MatchesFollows == BasicInv /\ HistoryInv => HistoryMatches
<1> SUFFICES ASSUME BasicInv, HistoryInv, NEW d \in DashIds \ overtaken
             PROVE  LET mine == {v \in history : v.dash = d}
                        top == dashboards[d].version
                    IN /\ dashboards[d] = NoRow <=> mine = {}
                       /\ mine # {} =>
                            /\ {v.version : v \in mine} = (top - Cardinality(mine) + 1)..top
                            /\ \A v \in mine : v.parent = v.version - 1
                            /\ \A v \in mine : v.version = top => v.data = dashboards[d].data
  BY DEF HistoryMatches
<1>1. HistoryRight /\ TableRight(dashboards)
  BY DEF BasicInv
<1>2. CASE dashboards[d] = NoRow
  <2>1. {v \in history : v.dash = d} = {}
    BY <1>1, <1>2 DEF HistoryRight
  <2> QED BY <1>2, <2>1
<1>3. CASE dashboards[d] # NoRow
  <2>1. ChainRight(d) /\ dashboards[d].version \in Nat
    BY <1>1, <1>3 DEF HistoryInv, TableRight, RowRight
  <2> DEFINE mine == {v \in history : v.dash = d}
             top == dashboards[d].version
  <2>2. {v.version : v \in mine} = (top - Cardinality(mine) + 1)..top
    BY <1>1, <2>1, ChainMatches
  <2>3. mine # {} /\ \A v \in mine : v.parent = v.version - 1
    BY <2>1 DEF ChainRight
  <2>4. \A v \in mine : v.version = top => v.data = dashboards[d].data
    BY <1>1, <2>1 DEF ChainRight, HistoryRight
  <2> QED BY <1>3, <2>2, <2>3, <2>4
<1> QED BY <1>2, <1>3

LEMMA DashboardsInv == DashboardsSpec => [](BasicInv /\ HistoryInv)
<1>1. DashboardsInit => BasicInv /\ HistoryInv
  BY BasicStart, HistoryStart
<1>2. (BasicInv /\ HistoryInv) /\ [DashboardsNext]_dashboardsVars => (BasicInv /\ HistoryInv)'
  BY BasicNext, HistoryNext
<1> QED BY <1>1, <1>2, PTL DEF DashboardsSpec

\* HistoryMatches: whatever saves, deletions and expiries overlap, on any
\* database, the versions of a dashboard end at its row and have no gap.
THEOREM HistoryIsKept == DashboardsSpec => []HistoryMatches
BY DashboardsInv, MatchesFollows, PTL

-----------------------------------------------------------------------------
(* The versions that are kept *)

\* On SQLite what is deleted is what was to be deleted; elsewhere at least
\* the newest versions stay.
LEMMA ExpiryKeeps ==
  ASSUME BasicInv, HistoryInv, NEW p \in Threads, ExpireWrite(p), NEW d \in DashIds
  PROVE  LET n == CountOf(d, history)
             left == IF n > MaxKeep THEN MaxKeep ELSE n
         IN IF database = "sqlite" THEN CountOf(d, history') = left ELSE CountOf(d, history') >= left
<1> DEFINE R == Seen(p)
           T == {v \in history : v.dash = d}
           n == Cardinality(T)
           k == Cardinality(T \ R)
<1>1. history' = history \ R /\ At(p, "DeleteExpiredVersions") /\ Begun(p)
  BY DEF ExpireWrite, Writes
<1>2. HistoryRight /\ ExpireCurrent(p)
  BY <1>1 DEF BasicInv, HistoryInv
<1>3. \A v \in history : v.version \in Nat /\ dashboards[v.dash] # NoRow
  BY <1>2 DEF HistoryRight
<1>4. database = "sqlite" => R = {v \in history : Cardinality(NewerThan(v, history)) >= MaxKeep}
  BY <1>2, ExpiredRight DEF ExpireCurrent
<1>5. \A v \in R : dashboards[v.dash] # NoRow => Cardinality(NewerThan(v, history)) >= MaxKeep
  BY <1>2 DEF ExpireCurrent
<1>6. IsFiniteSet(T) /\ IsFiniteSet(T \ R) /\ n \in Nat /\ k \in Nat /\ k <= n
  <2>1. IsFiniteSet(T)
    BY <1>2, FS_Subset DEF HistoryRight
  <2> HIDE DEF T
  <2>2. IsFiniteSet(T \ R) /\ k <= n
    BY <2>1, FS_Subset
  <2> QED BY <2>1, <2>2, FS_CardinalityType
<1> HIDE DEF R
<1>7. CountOf(d, history) = n /\ CountOf(d, history') = k
  <2>1. {v \in history' : v.dash = d} = T \ R
    BY <1>1
  <2> QED BY <2>1 DEF CountOf
<1>8. k = n \/ k >= MaxKeep
  <2>1. CASE T \cap R = {}
    <3>1. T \ R = T
      BY <2>1
    <3> QED BY <3>1
  <2>2. CASE T \cap R # {}
    <3>1. dashboards[d] # NoRow
      BY <1>3, <2>2
    <3>2. \A v \in R : v.dash = d => Cardinality(NewerThan(v, history)) >= MaxKeep
      BY <1>5, <3>1
    <3>3. T \in SUBSET history /\ (\A v \in T : v.dash = d)
          /\ \A v \in T, w \in history : w.dash = d /\ w.version > v.version => w \in T
      OBVIOUS
    <3> HIDE DEF T
    <3> QED BY <1>2, <2>2, <3>2, <3>3, NewestKept
  <2> QED BY <2>1, <2>2
<1>9. ASSUME database = "sqlite", k > MaxKeep PROVE FALSE
  <2>1. T \ R # {}
    <3> SUFFICES ASSUME T \ R = {} PROVE FALSE
      OBVIOUS
    <3>1. k = 0
      BY FS_EmptySet
    <3> QED BY <1>9, <3>1, KeepBound
  <2> DEFINE W == {v.version : v \in T \ R}
  <2>2. W \subseteq Nat /\ W # {}
    BY <1>3, <2>1
  <2>3. PICK low \in W : \A j \in W : low <= j
    BY <2>2, LeastNumber
  <2>4. PICK v \in T \ R : v.version = low
    OBVIOUS
  <2>5. \A w \in T \ R : v.version <= w.version
    BY <2>3, <2>4
  <2>6. (T \ R) \ {v} \subseteq NewerThan(v, history)
    <3> SUFFICES ASSUME NEW w \in T \ R, w # v PROVE w \in NewerThan(v, history)
      OBVIOUS
    <3>1. w.version # v.version
      BY <1>2, <2>4 DEF HistoryRight
    <3>2. w.version > v.version
      BY <1>3, <2>4, <2>5, <3>1
    <3> QED BY <2>4, <3>2 DEF NewerThan
  <2>7. IsFiniteSet(NewerThan(v, history))
    BY <1>2, FS_Subset DEF NewerThan, HistoryRight
  <2>8. v \in history /\ v \notin R
    BY <2>4
  <2> HIDE DEF T, W
  <2> DEFINE U == (T \ R) \ {v}
  <2>9. Cardinality(U) = k - 1
    BY <1>6, <2>4, FS_RemoveElement
  <2> HIDE DEF U
  <2>10. Cardinality(U) <= Cardinality(NewerThan(v, history)) /\ Cardinality(NewerThan(v, history)) \in Nat
    BY <2>6, <2>7, FS_Subset, FS_CardinalityType DEF U
  <2>11. Cardinality(NewerThan(v, history)) >= MaxKeep
    BY <1>6, <1>9, <2>9, <2>10, KeepBound
  <2> QED BY <1>4, <1>9, <2>8, <2>11
<1>10. ASSUME database = "sqlite", n <= MaxKeep PROVE k = n
  <2> SUFFICES ASSUME T \cap R # {} PROVE FALSE
    <3>1. T \cap R = {} => T \ R = T
      OBVIOUS
    <3> QED BY <3>1
  <2>1. PICK v \in T : v \in R
    OBVIOUS
  <2>2. NewerThan(v, history) \subseteq T \ {v}
    BY <1>3, <2>1 DEF NewerThan
  <2>3. Cardinality(NewerThan(v, history)) >= MaxKeep
    BY <1>4, <1>10, <2>1
  <2> HIDE DEF T
  <2> DEFINE U == T \ {v}
  <2>4. IsFiniteSet(U) /\ Cardinality(U) = n - 1
    BY <1>6, <2>1, FS_RemoveElement
  <2> HIDE DEF U
  <2>5. IsFiniteSet(NewerThan(v, history)) /\ Cardinality(NewerThan(v, history)) <= Cardinality(U)
    BY <2>2, <2>4, FS_Subset DEF U
  <2>6. Cardinality(NewerThan(v, history)) \in Nat
    BY <2>5, FS_CardinalityType
  <2> QED BY <1>6, <1>10, <2>3, <2>4, <2>5, <2>6, KeepBound
<1> HIDE DEF n, k
<1>11. LET left == IF n > MaxKeep THEN MaxKeep ELSE n
       IN IF database = "sqlite" THEN k = left ELSE k >= left
  BY <1>6, <1>8, <1>9, <1>10, KeepBound
<1> QED BY <1>7, <1>11

\* KeepsVersions: an expiry leaves every dashboard its newest versions, as
\* many as are configured, whatever is saved between its read and its write.
THEOREM VersionsAreKept == DashboardsSpec => KeepsVersions
<1> DEFINE Right == \A p \in Threads : ExpireWrite(p) => \A d \in DashIds :
             LET n == CountOf(d, history)
                 left == IF n > MaxKeep THEN MaxKeep ELSE n
             IN IF database = "sqlite" THEN CountOf(d, history') = left ELSE CountOf(d, history') >= left
<1>1. BasicInv /\ HistoryInv => Right
  BY ExpiryKeeps
<1>2. BasicInv /\ HistoryInv => [Right]_dashboardsVars
  BY <1>1
<1>3. DashboardsSpec => [][Right]_dashboardsVars
  BY <1>2, DashboardsInv, PTL
<1> QED BY <1>3 DEF KeepsVersions

-----------------------------------------------------------------------------
(* Alerts and those who save them *)

Tri(as) == {<<a.id, a.panel, a.def>> : a \in as}
Pairs(as) == {<<a.panel, a.def>> : a \in as}
Wanted(d) == IF dashboards[d] = NoRow THEN {} ELSE GetAlerts(d, dashboards[d].data.alerts)

AlertsRight ==
  /\ lastAlert \in Nat
  /\ \A a \in alerts : DOMAIN a = {"id", "dash", "panel", "def", "state"} /\ a.id \in 1..lastAlert
  /\ \A a, b \in alerts : a.id = b.id => a = b

\* Rows that were read: what is still there is of the same dashboard and panel.
Known(old) ==
  /\ \A b \in old : /\ DOMAIN b = {"id", "dash", "panel", "def", "state"} /\ b.id \in 1..lastAlert
                    /\ \A a \in alerts : a.id = b.id => a.dash = b.dash /\ a.panel = b.panel
  /\ \A b, c \in old : b.id = c.id => b = c

AlertsSeen(q) ==
  /\ Known(Seen(q)) /\ \A b \in Seen(q) : b.dash = Args(q).dash
  /\ database = "sqlite" => Seen(q) \subseteq alerts

StateSeen(q) == Known(Seen(q)) /\ Seen(q) # {} /\ \A b \in Seen(q) : b.id = Args(q).id

\* Where nobody else interfered the alerts are those of the dashboard, or
\* one thread is about to save them and knows which there are.
FollowRight(d) ==
  /\ \A a, b \in AlertsOf(d) : a.panel = b.panel => a = b
  /\ Saving(d) = {} => Pairs(AlertsOf(d)) = Pairs(Wanted(d))
  /\ \A q \in Saving(d) :
       /\ Saving(d) = {q} /\ dashboards[d] # NoRow
       /\ Args(q).data.alerts = dashboards[d].data.alerts
       /\ Begun(q) => Tri(Seen(q)) = Tri(AlertsOf(d))

AlertsInv ==
  /\ AlertsRight
  /\ \A d \in DashIds \ disturbed : FollowRight(d)
  /\ \A q \in Threads : At(q, "SaveAlerts") /\ Begun(q) => AlertsSeen(q)
  /\ \A q \in Threads : At(q, "SetAlertState") /\ Begun(q) => StateSeen(q)

\* A command that saves alerts is the only one of its thread.
LEMMA AloneSaving ==
  ASSUME NEW S, NEW l \in Seq(S), Shape(l), NEW d
  PROVE  (\E i \in DOMAIN l : l[i].op = "SaveAlerts" /\ l[i].args.dash = d)
           <=> l # <<>> /\ Head(l).op = "SaveAlerts" /\ Head(l).args.dash = d
<1>1. Len(l) \in Nat /\ (l # <<>> => Len(l) # 0) /\ DOMAIN l = 1..Len(l) /\ Head(l) = l[1]
  BY EmptySeq
<1>2. l # <<>> => 1 \in DOMAIN l
  BY <1>1
<1>3. ASSUME NEW i \in DOMAIN l, l[i].op = "SaveAlerts" PROVE i = 1 /\ l # <<>>
  <2>1. i \in 1..Len(l) /\ l # <<>>
    BY <1>1
  <2>2. ~ SyncCmd(l[i])
    BY <1>3 DEF SyncCmd
  <2>3. ~ (Len(l) > 1)
    BY <2>1, <2>2, Zenon DEF Shape
  <2> QED BY <1>1, <2>1, <2>3
<1> QED BY <1>1, <1>2, <1>3

LEMMA SavingIs ==
  ASSUME ListsRight, NEW d
  PROVE  Saving(d) = {q \in Threads : At(q, "SaveAlerts") /\ Args(q).dash = d}
<1> SUFFICES ASSUME NEW q \in Threads
             PROVE  (\E i \in DOMAIN todo[q] : todo[q][i].op = "SaveAlerts" /\ todo[q][i].args.dash = d)
                      <=> At(q, "SaveAlerts") /\ Args(q).dash = d
  BY DEF Saving
<1>1. Shape(todo[q]) /\ \E S : todo[q] \in Seq(S)
  BY ListFacts DEF ListsRight
<1> QED BY <1>1, AloneSaving DEF At, Args

LEMMA SavingThen ==
  ASSUME ListsRight', NEW d
  PROVE  Saving(d)' = {q \in Threads : At(q, "SaveAlerts")' /\ Args(q)'.dash = d}
<1> SUFFICES ASSUME NEW q \in Threads
             PROVE  (\E i \in DOMAIN todo'[q] : todo'[q][i].op = "SaveAlerts" /\ todo'[q][i].args.dash = d)
                      <=> At(q, "SaveAlerts")' /\ Args(q)'.dash = d
  BY DEF Saving
<1>1. Shape(todo'[q]) /\ \E S : todo'[q] \in Seq(S)
  BY DEF ListsRight, Shape, CmdRight, SyncCmd, Proper
<1> QED BY <1>1, AloneSaving DEF At, Args

LEMMA TriSame ==
  ASSUME NEW A, NEW B, Tri(B) = Tri(A), NEW a \in B
  PROVE  \E x \in A : x.id = a.id /\ x.panel = a.panel /\ x.def = a.def
<1>1. <<a.id, a.panel, a.def>> \in Tri(A)
  BY DEF Tri
<1>2. PICK x \in A : <<a.id, a.panel, a.def>> = <<x.id, x.panel, x.def>>
  BY <1>1 DEF Tri
<1> QED BY <1>2

\* The alerts of a dashboard stay what they are, but for their states.
LEMMA FollowKept ==
  ASSUME ListsRight, ListsRight', NEW d, FollowRight(d), AlertsRight',
         dashboards'[d] = dashboards[d], Tri(AlertsOf(d))' = Tri(AlertsOf(d)),
         \A q \in Threads :
           \/ todo'[q] = todo[q]
           \/ q \notin Saving(d) /\ q \notin Saving(d)'
           \/ /\ q \in Saving(d) /\ q \in Saving(d)' /\ Args(q)' = Args(q)
              /\ Begun(q)' => Tri(Seen(q)') = Tri(AlertsOf(d))
  PROVE  FollowRight(d)'
<1> DEFINE A == AlertsOf(d)
           B == AlertsOf(d)'
<1>1. Saving(d) = {q \in Threads : At(q, "SaveAlerts") /\ Args(q).dash = d}
  BY SavingIs
<1>2. Saving(d)' = Saving(d)
  <2>1. \A q \in Threads : todo'[q] = todo[q] => (q \in Saving(d)' <=> q \in Saving(d))
    BY DEF Saving
  <2>2. Saving(d) \subseteq Threads /\ Saving(d)' \subseteq Threads
    BY DEF Saving
  <2> QED BY <2>1, <2>2
<1>3. Tri(B) = Tri(A)
  BY DEF Tri
<1> HIDE DEF A, B
<1>4. \A a \in B : \E x \in A : x.id = a.id /\ x.panel = a.panel /\ x.def = a.def
  BY <1>3, TriSame
<1>5. \A x \in A : \E a \in B : x.id = a.id /\ x.panel = a.panel /\ x.def = a.def
  BY <1>3, TriSame
<1>6. B \subseteq alerts'
  BY DEF B, AlertsOf
<1>7. \A a, b \in B : a.panel = b.panel => a = b
  <2>1. \A a, b \in B : a.panel = b.panel => a.id = b.id
    BY <1>4 DEF FollowRight, A
  <2>2. \A a, b \in B : a.id = b.id => a = b
    BY <1>6 DEF AlertsRight
  <2> QED BY <2>1, <2>2
<1>8. Pairs(B) = Pairs(A)
  BY <1>4, <1>5 DEF Pairs
<1>9. Wanted(d)' = Wanted(d)
  BY DEF Wanted
<1>10. ASSUME NEW q \in Saving(d)
       PROVE  /\ Saving(d) = {q} /\ dashboards'[d] # NoRow
              /\ Args(q)'.data.alerts = dashboards'[d].data.alerts
              /\ Begun(q)' => Tri(Seen(q)') = Tri(B)
  <2>1. q \in Threads
    BY DEF Saving
  <2>2. /\ Saving(d) = {q} /\ dashboards[d] # NoRow
        /\ Args(q).data.alerts = dashboards[d].data.alerts
        /\ Begun(q) => Tri(Seen(q)) = Tri(A)
    BY DEF FollowRight, A
  <2>3. CASE todo'[q] = todo[q]
    <3>1. Args(q)' = Args(q) /\ Seen(q)' = Seen(q) /\ (Begun(q)' <=> Begun(q))
      BY <2>3 DEF Args, Seen, Begun
    <3> QED BY <1>3, <2>2, <3>1
  <2>4. CASE Args(q)' = Args(q) /\ (Begun(q)' => Tri(Seen(q)') = Tri(A))
    BY <1>3, <2>2, <2>4
  <2> QED BY <2>1, <2>3, <2>4, <1>2 DEF A
<1>11. Saving(d) = {} => Pairs(B) = Pairs(Wanted(d))
  BY <1>8 DEF FollowRight, A
<1>12. \A a, b \in AlertsOf(d)' : a.panel = b.panel => a = b
  BY <1>7 DEF B
<1>13. Saving(d)' = {} => Pairs(AlertsOf(d)') = Pairs(Wanted(d)')
  BY <1>2, <1>9, <1>11 DEF B
<1> QED BY <1>2, <1>10, <1>12, <1>13, Zenon DEF FollowRight, B, Tri, Pairs

\* New alerts have new ids, and no alert moves to another dashboard or panel.
Grows ==
  /\ lastAlert' \in Nat /\ lastAlert' >= lastAlert
  /\ \A a \in alerts' :
       /\ DOMAIN a = {"id", "dash", "panel", "def", "state"} /\ a.id \in 1..lastAlert'
       /\ \/ a.id > lastAlert
          \/ \E b \in alerts : b.id = a.id /\ b.dash = a.dash /\ b.panel = a.panel
  /\ \A a, b \in alerts' : a.id = b.id => a = b

LEMMA KnownKept ==
  ASSUME AlertsRight, Grows, NEW old, Known(old)
  PROVE  Known(old)'
<1>1. ASSUME NEW b \in old
      PROVE  /\ DOMAIN b = {"id", "dash", "panel", "def", "state"} /\ b.id \in 1..lastAlert'
             /\ \A a \in alerts' : a.id = b.id => a.dash = b.dash /\ a.panel = b.panel
  <2>1. b.id \in 1..lastAlert /\ lastAlert \in Nat /\ lastAlert' \in Nat /\ lastAlert' >= lastAlert
    BY DEF Known, AlertsRight, Grows
  <2>2. \A a \in alerts : a.id = b.id => a.dash = b.dash /\ a.panel = b.panel
    BY DEF Known
  <2>3. ASSUME NEW a \in alerts', a.id = b.id PROVE a.dash = b.dash /\ a.panel = b.panel
    <3>1. ~ (a.id > lastAlert)
      BY <2>1, <2>3
    <3>2. \E c \in alerts : c.id = a.id /\ c.dash = a.dash /\ c.panel = a.panel
      BY <3>1 DEF Grows
    <3> QED BY <2>2, <2>3, <3>2
  <2>4. DOMAIN b = {"id", "dash", "panel", "def", "state"}
    BY DEF Known
  <2> QED BY <2>1, <2>3, <2>4
<1>2. \A b, c \in old : b.id = c.id => b = c
  BY DEF Known
<1> QED BY <1>1, <1>2 DEF Known

\* What the other transactions have read.
LEMMA SeensKept ==
  ASSUME AlertsInv, Grows, database' = database,
         database = "sqlite" => alerts' = alerts \/ \A q \in Threads : ~ Begun(q)',
         NEW q \in Threads, todo'[q] = todo[q] \/ ~ Begun(q)', Begun(q)'
  PROVE  /\ At(q, "SaveAlerts")' => AlertsSeen(q)'
         /\ At(q, "SetAlertState")' => StateSeen(q)'
<1>1. todo'[q] = todo[q]
  OBVIOUS
<1>2. Seen(q)' = Seen(q) /\ Args(q)' = Args(q) /\ Begun(q) /\ AlertsRight
  BY <1>1 DEF Seen, Args, Begun, AlertsInv
<1> DEFINE old == Seen(q)
<1>3. Known(old) => Known(old)'
  <2> SUFFICES ASSUME Known(old) PROVE Known(old)'
    OBVIOUS
  <2>1. Seen(q)' = old
    BY <1>2
  <2> HIDE DEF old
  <2>2. old' = old
    BY <2>1 DEF old
  <2>3. \E S : S = old
    OBVIOUS
  <2>4. PICK S : S = old
    BY <2>3
  <2>5. Known(S)'
    BY <1>2, <2>4, KnownKept
  <2> QED BY <2>2, <2>4, <2>5 DEF Known
<1>4. ASSUME At(q, "SaveAlerts")' PROVE AlertsSeen(q)'
  <2>1. AlertsSeen(q)
    BY <1>1, <1>2, <1>4 DEF AlertsInv, At
  <2>2. Known(old)' /\ \A b \in old : b.dash = Args(q).dash
    BY <1>3, <2>1 DEF AlertsSeen
  <2>3. database' = "sqlite" => old \subseteq alerts'
    BY <2>1 DEF AlertsSeen
  <2> QED BY <1>2, <2>2, <2>3 DEF AlertsSeen, Known
<1>5. ASSUME At(q, "SetAlertState")' PROVE StateSeen(q)'
  <2>1. StateSeen(q)
    BY <1>1, <1>2, <1>5 DEF AlertsInv, At
  <2>2. Known(old)' /\ old # {} /\ \A b \in old : b.id = Args(q).id
    BY <1>3, <2>1 DEF StateSeen
  <2> QED BY <1>2, <2>2 DEF StateSeen, Known
<1> QED BY <1>4, <1>5

LEMMA GrowsSame == AlertsRight /\ UNCHANGED <<alerts, lastAlert>> => Grows
BY DEF AlertsRight, Grows

LEMMA AlertsThen == Grows => AlertsRight'
BY DEF AlertsRight, Grows

LEMMA FollowElsewhere ==
  ASSUME AlertsInv, ListsRight, ListsRight', Grows, disturbed \subseteq disturbed',
         NEW p \in Threads, Others(p), NEW d \in DashIds \ disturbed',
         dashboards'[d] = dashboards[d], Tri(AlertsOf(d))' = Tri(AlertsOf(d)),
         \/ ~ At(p, "SaveAlerts") /\ ~ At(p, "SaveAlerts")'
         \/ p \notin Saving(d) /\ todo'[p] = <<>>
         \/ /\ At(p, "SaveAlerts") /\ At(p, "SaveAlerts")' /\ Args(p)' = Args(p)
            /\ Begun(p)' => Tri(Seen(p)') = Tri(AlertsOf(Args(p).dash))
  PROVE  FollowRight(d)'
<1>1. FollowRight(d) /\ AlertsRight'
  BY AlertsThen DEF AlertsInv
<1>2. Saving(d) = {q \in Threads : At(q, "SaveAlerts") /\ Args(q).dash = d}
  BY SavingIs
<1>3. Saving(d)' = {q \in Threads : At(q, "SaveAlerts")' /\ Args(q)'.dash = d}
  BY SavingThen
<1>4. \A q \in Threads \ {p} : todo'[q] = todo[q]
  BY DEF Others
<1>5. \/ p \notin Saving(d) /\ p \notin Saving(d)'
      \/ /\ p \in Saving(d) /\ p \in Saving(d)' /\ Args(p)' = Args(p)
         /\ Begun(p)' => Tri(Seen(p)') = Tri(AlertsOf(d))
  <2>1. CASE ~ At(p, "SaveAlerts") /\ ~ At(p, "SaveAlerts")'
    BY <1>2, <1>3, <2>1
  <2>2. CASE p \notin Saving(d) /\ todo'[p] = <<>>
    BY <1>3, <2>2 DEF At
  <2>3. CASE /\ At(p, "SaveAlerts") /\ At(p, "SaveAlerts")' /\ Args(p)' = Args(p)
             /\ Begun(p)' => Tri(Seen(p)') = Tri(AlertsOf(Args(p).dash))
    <3>1. CASE Args(p).dash = d
      BY <1>2, <1>3, <2>3, <3>1
    <3>2. CASE Args(p).dash # d
      BY <1>2, <1>3, <2>3, <3>2
    <3> QED BY <3>1, <3>2
  <2> QED BY <2>1, <2>2, <2>3
<1> QED BY <1>1, <1>4, <1>5, FollowKept

\* A step that leaves the dashboards and their alerts alone.
LEMMA AlertsElsewhere ==
  ASSUME AlertsInv, ListsRight, NEW p \in Threads, QuietStep(p),
         UNCHANGED <<alerts, lastAlert, dashboards, database>>, disturbed \subseteq disturbed',
         \/ ~ At(p, "SaveAlerts") /\ ~ At(p, "SaveAlerts")'
         \/ todo'[p] = <<>> /\ \A d \in DashIds \ disturbed' : p \notin Saving(d)
         \/ At(p, "SaveAlerts") /\ At(p, "SaveAlerts")' /\ Args(p)' = Args(p)
  PROVE  AlertsInv'
<1>1. ListsRight' /\ Others(p) /\ ~ Begun(p)'
  BY DEF QuietStep
<1>2. Grows
  BY GrowsSame DEF AlertsInv
<1>3. \A q \in Threads : todo'[q] = todo[q] \/ ~ Begun(q)'
  BY <1>1 DEF Others
<1>4. ASSUME NEW d \in DashIds \ disturbed' PROVE FollowRight(d)'
  <2>1. Tri(AlertsOf(d))' = Tri(AlertsOf(d))
    BY DEF Tri, AlertsOf
  <2> QED BY <1>1, <1>2, <2>1, FollowElsewhere
<1>5. \A q \in Threads : Begun(q)' =>
        /\ At(q, "SaveAlerts")' => AlertsSeen(q)'
        /\ At(q, "SetAlertState")' => StateSeen(q)'
  BY <1>2, <1>3, SeensKept
<1> QED BY <1>2, <1>4, <1>5, AlertsThen DEF AlertsInv

\* A transaction begins, and knows the rows it has read.
LEMMA AlertsBegin ==
  ASSUME AlertsInv, ListsRight, NEW p \in Threads, NEW t, BeginStep(p, t),
         UNCHANGED <<alerts, lastAlert, dashboards, database>>, disturbed' = disturbed,
         At(p, "SaveAlerts") => t = AlertsOf(Args(p).dash),
         At(p, "SetAlertState") => t # {} /\ t = {a \in alerts : a.id = Args(p).id}
  PROVE  AlertsInv'
<1>1. /\ Seen(p)' = t /\ Args(p)' = Args(p) /\ Begun(p)' /\ ListsRight' /\ Others(p)
      /\ \A op : At(p, op)' <=> At(p, op)
  BY BeginFacts
<1>2. AlertsRight /\ Grows
  BY GrowsSame DEF AlertsInv
<1>3. ASSUME NEW d \in DashIds \ disturbed' PROVE FollowRight(d)'
  <2>1. Tri(AlertsOf(d))' = Tri(AlertsOf(d))
    BY DEF Tri, AlertsOf
  <2>2. At(p, "SaveAlerts") => Tri(Seen(p)') = Tri(AlertsOf(Args(p).dash))
    BY <1>1
  <2> QED BY <1>1, <1>2, <2>1, <2>2, FollowElsewhere
<1>4. ASSUME t \subseteq alerts PROVE Known(t)'
  BY <1>2, <1>4 DEF Known, AlertsRight
<1>5. At(p, "SaveAlerts")' => AlertsSeen(p)'
  <2> SUFFICES ASSUME At(p, "SaveAlerts") PROVE AlertsSeen(p)'
    BY <1>1
  <2>1. t \subseteq alerts' /\ \A b \in t : b.dash = Args(p).dash
    BY DEF AlertsOf
  <2> QED BY <1>1, <1>4, <2>1 DEF AlertsSeen, Known
<1>6. At(p, "SetAlertState")' => StateSeen(p)'
  <2> SUFFICES ASSUME At(p, "SetAlertState") PROVE StateSeen(p)'
    BY <1>1
  <2>1. t \subseteq alerts /\ t # {} /\ \A b \in t : b.id = Args(p).id
    OBVIOUS
  <2> QED BY <1>1, <1>4, <2>1 DEF StateSeen, Known
<1>7. ASSUME NEW q \in Threads \ {p}, Begun(q)'
      PROVE  /\ At(q, "SaveAlerts")' => AlertsSeen(q)'
             /\ At(q, "SetAlertState")' => StateSeen(q)'
  <2>1. todo'[q] = todo[q]
    BY <1>1 DEF Others
  <2> QED BY <1>2, <1>7, <2>1, SeensKept
<1> QED BY <1>2, <1>3, <1>5, <1>6, <1>7, AlertsThen DEF AlertsInv

\* What is left of a list does not begin with a command that saves alerts.
LEMMA LeftoverSaves ==
  ASSUME NEW l, Leftover(l), l # <<>>
  PROVE  Head(l).op # "SaveAlerts" /\ Head(l).op # "SetAlertState"
<1>1. PICK S : l \in Seq(S)
  BY DEF Leftover, Fresh
<1>2. Head(l) = l[1] /\ 1 \in 1..Len(l)
  BY <1>1, EmptySeq
<1> QED BY <1>2 DEF Leftover, SyncCmd

LEMMA TriEqual ==
  ASSUME NEW A, NEW B,
         \A b \in B : \E a \in A : a.id = b.id /\ a.panel = b.panel /\ a.def = b.def,
         \A a \in A : \E b \in B : a.id = b.id /\ a.panel = b.panel /\ a.def = b.def
  PROVE  Tri(B) = Tri(A)
BY DEF Tri

\* A step that writes alerts; on SQLite no other transaction has begun.
LEMMA AlertsWritten ==
  ASSUME AlertsInv, NEW p \in Threads, QuietStep(p), Grows, Alone(p), database' = database,
         \A d \in DashIds \ disturbed' : FollowRight(d)'
  PROVE  AlertsInv'
<1>1. \A q \in Threads : todo'[q] = todo[q] \/ ~ Begun(q)'
  BY DEF QuietStep, Others
<1>2. ASSUME database = "sqlite", NEW q \in Threads PROVE ~ Begun(q)'
  <2>1. CASE q = p
    BY <2>1 DEF QuietStep
  <2>2. CASE q # p
    BY <1>2, <2>2 DEF QuietStep, Others, Alone, Begun
  <2> QED BY <2>1, <2>2
<1>3. \A q \in Threads : Begun(q)' =>
        /\ At(q, "SaveAlerts")' => AlertsSeen(q)'
        /\ At(q, "SetAlertState")' => StateSeen(q)'
  BY <1>1, <1>2, SeensKept
<1> QED BY <1>3, AlertsThen DEF AlertsInv

\* Rows are written that were there, with their ids, dashboards and panels.
LEMMA Rewritten ==
  ASSUME AlertsRight, lastAlert' = lastAlert,
         \A b \in alerts' : /\ DOMAIN b = {"id", "dash", "panel", "def", "state"}
                            /\ \E a \in alerts : a.id = b.id /\ a.dash = b.dash /\ a.panel = b.panel,
         \A b, c \in alerts' : b.id = c.id => b = c
  PROVE  Grows
<1>1. lastAlert \in Nat /\ \A a \in alerts : a.id \in 1..lastAlert
  BY DEF AlertsRight
<1> QED BY <1>1 DEF Grows

LEMMA AlertsPause ==
  ASSUME AlertsInv, BasicInv, NEW p \in Threads, PauseAlert(p)
  PROVE  AlertsInv'
<1> DEFINE set(a) == IF a.id \in Args(p).ids THEN [a EXCEPT !.state = Args(p).state] ELSE a
<1>1. /\ ListsRight /\ AlertsRight /\ alerts' = {set(a) : a \in alerts} /\ Alone(p)
      /\ UNCHANGED <<dashboards, lastAlert, database, disturbed>> /\ At(p, "PauseAlert")
  BY DEF BasicInv, AlertsInv, PauseAlert
<1>2. QuietStep(p) /\ todo'[p] = Tail(todo[p]) /\ Leftover(todo'[p])
  BY <1>1, DoneStep
<1>3. \A a \in alerts : /\ set(a).id = a.id /\ set(a).dash = a.dash /\ set(a).panel = a.panel
                        /\ set(a).def = a.def /\ DOMAIN set(a) = {"id", "dash", "panel", "def", "state"}
  BY <1>1 DEF AlertsRight
<1> HIDE DEF set
<1>4. Grows
  <2>1. \A b, c \in alerts' : b.id = c.id => b = c
    BY <1>1, <1>3 DEF AlertsRight
  <2>2. \A b \in alerts' : /\ DOMAIN b = {"id", "dash", "panel", "def", "state"}
                           /\ \E a \in alerts : a.id = b.id /\ a.dash = b.dash /\ a.panel = b.panel
    BY <1>1, <1>3
  <2> QED BY <1>1, <2>1, <2>2, Rewritten
<1>5. ASSUME NEW d \in DashIds \ disturbed' PROVE FollowRight(d)'
  <2> DEFINE A == AlertsOf(d)
             B == {a \in alerts' : a.dash = d}
  <2>1. \A b \in B : \E a \in A : a.id = b.id /\ a.panel = b.panel /\ a.def = b.def
    BY <1>1, <1>3 DEF AlertsOf
  <2>2. \A a \in A : \E b \in B : a.id = b.id /\ a.panel = b.panel /\ a.def = b.def
    BY <1>1, <1>3 DEF AlertsOf
  <2>3. Tri(B) = Tri(A)
    BY <2>1, <2>2, TriEqual
  <2>4. Tri(AlertsOf(d))' = Tri(AlertsOf(d))
    BY <2>3 DEF Tri, AlertsOf
  <2>5. ~ At(p, "SaveAlerts") /\ ~ At(p, "SaveAlerts")'
    BY <1>1, <1>2, LeftoverSaves DEF At
  <2> QED BY <1>1, <1>2, <1>4, <2>4, <2>5, FollowElsewhere DEF QuietStep
<1> QED BY <1>1, <1>2, <1>4, <1>5, AlertsWritten

LEMMA AlertsSetState ==
  ASSUME AlertsInv, BasicInv, NEW p \in Threads, SetAlertState(p)
  PROVE  AlertsInv'
<1> DEFINE old == Seen(p)
           i == Args(p).id
           new == {[a EXCEPT !.state = Args(p).state] : a \in old}
           over == {a \in alerts : a.id = i}
<1>1. /\ ListsRight /\ AlertsRight /\ Alone(p) /\ StateSeen(p) /\ At(p, "SetAlertState")
      /\ UNCHANGED <<dashboards, lastAlert, database>>
      /\ alerts' = IF over = {} THEN alerts ELSE (alerts \ over) \cup new
      /\ disturbed' = disturbed \cup {a.dash : a \in {b \in over : \A n \in new : n.def # b.def}}
  BY DEF BasicInv, AlertsInv, SetAlertState, Writes, Disturb
<1>2. QuietStep(p) /\ todo'[p] = Tail(todo[p]) /\ Leftover(todo'[p])
  BY <1>1, DoneStep
<1>3. \E n : /\ new = {n} /\ n.id = i /\ DOMAIN n = {"id", "dash", "panel", "def", "state"}
             /\ \A o \in over : n.dash = o.dash /\ n.panel = o.panel
  <2>1. PICK s \in old : old = {s}
    BY <1>1 DEF StateSeen, Known
  <2>2. /\ s.id = i /\ DOMAIN s = {"id", "dash", "panel", "def", "state"}
        /\ \A o \in over : s.dash = o.dash /\ s.panel = o.panel
    BY <1>1 DEF StateSeen, Known
  <2> DEFINE n == [s EXCEPT !.state = Args(p).state]
  <2>3. new = {n}
    BY <2>1
  <2>4. n.id = s.id /\ n.dash = s.dash /\ n.panel = s.panel /\ DOMAIN n = DOMAIN s
    BY <2>2
  <2> HIDE DEF n, new, over
  <2> QED BY <2>2, <2>3, <2>4
<1> HIDE DEF old, new
<1>4. PICK n : /\ new = {n} /\ n.id = i /\ DOMAIN n = {"id", "dash", "panel", "def", "state"}
               /\ \A o \in over : n.dash = o.dash /\ n.panel = o.panel
  BY <1>3
<1>5. \A a \in alerts : DOMAIN a = {"id", "dash", "panel", "def", "state"}
  BY <1>1 DEF AlertsRight
<1>6. \A a, b \in alerts : a.id = b.id => a = b
  BY <1>1 DEF AlertsRight
<1>7. \A b \in alerts' : (b \in alerts /\ b \notin over) \/ (b = n /\ over # {}) \/ (b \in alerts /\ over = {})
  BY <1>1, <1>4
<1>8. Grows
  <2>1. \A b, c \in alerts' : b.id = c.id => b = c
    BY <1>4, <1>6, <1>7
  <2>2. \A b \in alerts' : /\ DOMAIN b = {"id", "dash", "panel", "def", "state"}
                           /\ \E a \in alerts : a.id = b.id /\ a.dash = b.dash /\ a.panel = b.panel
    <3>1. over # {} => \E a \in alerts : a.id = n.id /\ a.dash = n.dash /\ a.panel = n.panel
      BY <1>4
    <3> QED BY <1>4, <1>5, <1>7, <3>1
  <2> QED BY <1>1, <2>1, <2>2, Rewritten
<1>9. ASSUME NEW d \in DashIds \ disturbed' PROVE FollowRight(d)'
  <2> DEFINE A == AlertsOf(d)
             B == {a \in alerts' : a.dash = d}
  <2>1. \A o \in over : o.dash = d => n.def = o.def
    BY <1>1, <1>4, <1>9
  <2>2. ASSUME NEW b \in B PROVE \E a \in A : a.id = b.id /\ a.panel = b.panel /\ a.def = b.def
    <3>1. CASE b \in alerts
      BY <3>1 DEF AlertsOf
    <3>2. CASE b = n /\ over # {}
      <4>1. PICK o \in over : TRUE
        BY <3>2
      <4>2. o \in A /\ o.id = n.id /\ o.panel = n.panel /\ o.def = n.def
        BY <1>4, <2>1, <3>2, <4>1 DEF AlertsOf
      <4> QED BY <3>2, <4>2
    <3> QED BY <1>7, <3>1, <3>2
  <2>3. ASSUME NEW a \in A PROVE \E b \in B : a.id = b.id /\ a.panel = b.panel /\ a.def = b.def
    <3>1. a \in alerts /\ a.dash = d
      BY DEF AlertsOf
    <3>2. CASE a \in over
      <4>1. n \in B /\ n.id = a.id /\ n.panel = a.panel /\ n.def = a.def
        BY <1>1, <1>4, <2>1, <3>1, <3>2
      <4> QED BY <4>1
    <3>3. CASE a \notin over
      <4>1. a \in B
        BY <1>1, <3>1, <3>3
      <4> QED BY <4>1
    <3> QED BY <3>2, <3>3
  <2>4. Tri(B) = Tri(A)
    BY <2>2, <2>3, TriEqual
  <2>5. Tri(AlertsOf(d))' = Tri(AlertsOf(d))
    BY <2>4 DEF Tri, AlertsOf
  <2>6. ~ At(p, "SaveAlerts") /\ ~ At(p, "SaveAlerts")'
    BY <1>1, <1>2, LeftoverSaves DEF At
  <2> QED BY <1>1, <1>2, <1>8, <2>5, <2>6, FollowElsewhere DEF QuietStep
<1> QED BY <1>1, <1>2, <1>8, <1>9, AlertsWritten

LEMMA AlertsDeleteWrite ==
  ASSUME AlertsInv, BasicInv, NEW p \in Threads, DeleteWrite(p)
  PROVE  AlertsInv'
<1> DEFINE gone == Seen(p)
<1>1. /\ ListsRight /\ AlertsRight /\ Alone(p) /\ At(p, "DeleteDashboard")
      /\ dashboards' = [d \in DashIds |-> IF d \in gone THEN NoRow ELSE dashboards[d]]
      /\ alerts' = {a \in alerts : a.dash \notin gone}
      /\ disturbed' = disturbed \cup {d \in gone : Saving(d) # {}}
      /\ UNCHANGED <<lastAlert, database>>
  BY DEF BasicInv, AlertsInv, DeleteWrite, Writes, Disturb
<1>2. QuietStep(p) /\ Leftover(todo'[p])
  BY BasicDeleteWrite
<1>3. ~ At(p, "SaveAlerts") /\ ~ At(p, "SaveAlerts")'
  BY <1>1, <1>2, LeftoverSaves DEF At
<1> HIDE DEF gone
<1>4. Grows
  BY <1>1, Rewritten DEF AlertsRight
<1>5. ASSUME NEW d \in DashIds \ disturbed' PROVE FollowRight(d)'
  <2>1. CASE d \in gone
    <3>1. Saving(d) = {}
      BY <1>1, <1>5, <2>1
    <3>2. Saving(d)' = {}
      <4>1. Saving(d) = {q \in Threads : At(q, "SaveAlerts") /\ Args(q).dash = d}
        BY <1>1, SavingIs
      <4>2. Saving(d)' = {q \in Threads : At(q, "SaveAlerts")' /\ Args(q)'.dash = d}
        BY <1>2, SavingThen DEF QuietStep
      <4>3. \A q \in Threads : q # p => todo'[q] = todo[q]
        BY <1>2 DEF QuietStep, Others
      <4> QED BY <1>3, <3>1, <4>1, <4>2, <4>3 DEF At, Args
    <3>3. AlertsOf(d)' = {} /\ Wanted(d)' = {}
      BY <1>1, <2>1 DEF AlertsOf, Wanted
    <3> QED BY <3>2, <3>3 DEF FollowRight, Pairs
  <2>2. CASE d \notin gone
    <3>1. AlertsOf(d)' = AlertsOf(d) /\ dashboards'[d] = dashboards[d]
      BY <1>1, <2>2 DEF AlertsOf
    <3>2. Tri(AlertsOf(d))' = Tri(AlertsOf(d))
      BY <3>1 DEF Tri
    <3> QED BY <1>1, <1>2, <1>3, <1>4, <3>1, <3>2, FollowElsewhere DEF QuietStep
  <2> QED BY <2>1, <2>2
<1> QED BY <1>1, <1>2, <1>4, <1>5, AlertsWritten

LEMMA AlertsSaveWrite ==
  ASSUME AlertsInv, BasicInv, NEW p \in Threads, SaveWrite(p)
  PROVE  AlertsInv'
<1> DEFINE c == Args(p)
           t == Target(c, Seen(p))
           parent == Parent(c, Seen(p))
           d == IF t = 0 THEN lastDash + 1 ELSE t
           row == [version |-> parent + 1, data |-> c.data,
                   plugin |-> c.plugin \/ (t # 0 /\ dashboards[t].plugin)]
<1>1. ListsRight /\ AlertsRight /\ Alone(p) /\ At(p, "SaveDashboard") /\ database' = database
      /\ DOMAIN dashboards = DashIds
  BY DEF BasicInv, AlertsInv, SaveWrite, Writes, TableRight
<1>2. QuietStep(p)
  BY SaveWriteStep
<1>3. \A q \in Threads : q # p => todo'[q] = todo[q]
  BY <1>2 DEF QuietStep, Others
<1>4. CASE todo'[p] = <<>> /\ UNCHANGED <<rows, disturbed>>
  <2>1. ~ At(p, "SaveAlerts") /\ ~ At(p, "SaveAlerts")'
    BY <1>1, <1>4 DEF At
  <2> QED BY <1>1, <1>2, <1>4, <2>1, AlertsElsewhere DEF rows
<1>5. CASE /\ d \in DashIds /\ dashboards' = [dashboards EXCEPT ![d] = row]
           /\ IF c.plugin THEN Leftover(todo'[p]) ELSE todo'[p] = <<SaveAlertsCmd(d, c.data)>>
           /\ disturbed' = disturbed \cup (IF c.plugin \/ Saving(d) # {} THEN {d} ELSE {})
           /\ UNCHANGED <<alerts, lastAlert>>
  <2> HIDE DEF c, t, parent, d
  <2>1. Grows
    BY <1>1, <1>5, GrowsSame
  <2>2. ~ c.plugin => /\ At(p, "SaveAlerts")' /\ Args(p)'.dash = d /\ Args(p)'.data = c.data /\ ~ Begun(p)'
    <3> DEFINE x == SaveAlertsCmd(d, c.data)
    <3>1. x.op = "SaveAlerts" /\ x.args.dash = d /\ x.args.data = c.data /\ x.seen = <<>>
      BY DEF SaveAlertsCmd, Cmd
    <3> HIDE DEF x
    <3>2. Head(<<x>>) = x /\ <<x>> # <<>>
      OBVIOUS
    <3>3. ~ c.plugin => todo'[p] = <<x>>
      BY <1>5 DEF x
    <3> QED BY <3>1, <3>2, <3>3 DEF At, Args, Begun
  <2>3. c.plugin => ~ At(p, "SaveAlerts")'
    BY <1>5, LeftoverSaves DEF At
  <2>4. ~ At(p, "SaveAlerts")
    BY <1>1 DEF At
  <2>5. ASSUME NEW e \in DashIds \ disturbed' PROVE FollowRight(e)'
    <3>1. FollowRight(e) /\ AlertsRight' /\ ListsRight'
      BY <1>2, <1>5, <2>1, <2>5, AlertsThen DEF AlertsInv, QuietStep
    <3>2. Saving(e) = {q \in Threads : At(q, "SaveAlerts") /\ Args(q).dash = e}
      BY <1>1, SavingIs
    <3>3. Saving(e)' = {q \in Threads : At(q, "SaveAlerts")' /\ Args(q)'.dash = e}
      BY <3>1, SavingThen
    <3>4. Tri(AlertsOf(e))' = Tri(AlertsOf(e))
      BY <1>5 DEF Tri, AlertsOf
    <3>5. CASE e # d
      <4>1. dashboards'[e] = dashboards[e]
        BY <1>1, <1>5, <3>5
      <4>2. p \notin Saving(e) /\ p \notin Saving(e)'
        BY <2>2, <2>3, <2>4, <3>2, <3>3, <3>5
      <4> QED BY <1>1, <1>3, <3>1, <3>4, <4>1, <4>2, FollowKept
    <3>6. CASE e = d
      <4>1. ~ c.plugin /\ Saving(d) = {}
        BY <1>5, <2>5, <3>6
      <4>2. Saving(e)' = {p}
        <5>1. p \in Saving(e)'
          BY <2>2, <3>3, <3>6, <4>1
        <5>2. \A q \in Threads : q # p => q \notin Saving(e)'
          BY <1>3, <3>2, <3>3, <3>6, <4>1 DEF At, Args
        <5> QED BY <3>3, <5>1, <5>2
      <4>3. dashboards'[e] = row
        BY <1>1, <1>5, <3>6
      <4>4. row # NoRow /\ row.data = c.data
        <5>1. DOMAIN row = {"version", "data", "plugin"} /\ DOMAIN NoRow = {"version"} /\ row.data = c.data
          BY DEF NoRow
        <5> QED BY <5>1
      <4>5. \A a, b \in AlertsOf(e)' : a.panel = b.panel => a = b
        BY <1>5, <3>1 DEF FollowRight, AlertsOf
      <4> HIDE DEF row
      <4>6. ~ Begun(p)' /\ Args(p)'.data.alerts = dashboards'[e].data.alerts /\ dashboards'[e] # NoRow
        BY <2>2, <4>1, <4>3, <4>4
      <4> QED BY <4>2, <4>5, <4>6 DEF FollowRight
    <3> QED BY <3>5, <3>6
  <2> QED BY <1>1, <1>2, <2>1, <2>5, AlertsWritten
<1>6. \/ todo'[p] = <<>> /\ UNCHANGED <<rows, disturbed>>
      \/ /\ d \in DashIds /\ dashboards' = [dashboards EXCEPT ![d] = row]
         /\ IF c.plugin THEN Leftover(todo'[p]) ELSE todo'[p] = <<SaveAlertsCmd(d, c.data)>>
         /\ disturbed' = disturbed \cup (IF c.plugin \/ Saving(d) # {} THEN {d} ELSE {})
         /\ UNCHANGED <<alerts, lastAlert>>
  BY SaveWriteStep
<1> QED BY <1>4, <1>5, <1>6

-----------------------------------------------------------------------------
(* Saving the alerts of a dashboard *)

LEMMA WantedRight ==
  ASSUME NEW data, Proper(data), NEW d
  PROVE  /\ IsFiniteSet(GetAlerts(d, data.alerts))
         /\ \A x, y \in GetAlerts(d, data.alerts) : x.panel = y.panel => x = y
<1>1. PICK j \in Jsons : data.alerts = j.alerts
  BY DEF Proper
<1> DEFINE as == data.alerts
           W == {as[i] : i \in DOMAIN as}
<1>2. IsFiniteSet(DOMAIN as) /\ \A i, k \in DOMAIN as : as[i].panel = as[k].panel => i = k
  BY <1>1, DashboardsAssumption, PanelsAssumption
<1>3. GetAlerts(d, as) = W \/ GetAlerts(d, as) = {}
  BY DEF GetAlerts, ToSet
<1> HIDE DEF as
<1>4. [i \in DOMAIN as |-> as[i]] \in Surjection(DOMAIN as, W)
  BY DEF Surjection
<1>5. IsFiniteSet(W)
  BY <1>2, <1>4, FS_Surjection
<1>6. \A x, y \in W : x.panel = y.panel => x = y
  BY <1>2
<1>7. IsFiniteSet({})
  BY FS_EmptySet
<1> QED BY <1>3, <1>5, <1>6, <1>7 DEF as

LEMMA OnPanelRight ==
  ASSUME NEW k, NEW as, NEW b \in as, b.panel = k, b.id \in Int, \A c \in as : c.panel = k => c = b
  PROVE  OnPanel(k, as) = {b}
<1> DEFINE same == {a \in as : a.panel = k}
<1>1. same = {b}
  OBVIOUS
<1>2. b.id <= b.id
  OBVIOUS
<1> HIDE DEF same
<1>3. {a \in same : \A c \in same : a.id <= c.id} = {b}
  BY <1>1, <1>2
<1> QED BY <1>3 DEF OnPanel, same

\* An update leaves an alert its id, dashboard and panel; its state is its
\* own or the one that was read.
LEMMA UpsertedRight ==
  ASSUME NEW a, NEW wanted, NEW old, DOMAIN a = {"id", "dash", "panel", "def", "state"}
  PROVE  LET u == Upserted(a, wanted, old) IN
         /\ DOMAIN u = {"id", "dash", "panel", "def", "state"}
         /\ u.id = a.id /\ u.dash = a.dash /\ u.panel = a.panel
         /\ u # a => \E b \in old : b.id = a.id /\ u.state = b.state
<1> DEFINE w == {x \in wanted : x.panel = a.panel /\ a.id \in {b.id : b \in OnPanel(x.panel, old)}}
           x == CHOOSE x \in w : TRUE
           was == CHOOSE b \in old : b.id = a.id
           u == Upserted(a, wanted, old)
           v == [a EXCEPT !.def = x.def, !.state = was.state]
<1>1. u = IF w = {} THEN a ELSE IF x.def = was.def THEN a ELSE v
  BY DEF Upserted
<1>2. w # {} => was \in old /\ was.id = a.id
  <2>1. \A y : OnPanel(y, old) \subseteq old
    BY DEF OnPanel
  <2>2. w # {} => \E b \in old : b.id = a.id
    BY <2>1
  <2> QED BY <2>2
<1> HIDE DEF w, x, was, u
<1>3. v.id = a.id /\ v.dash = a.dash /\ v.panel = a.panel /\ v.state = was.state /\ DOMAIN v = DOMAIN a
  OBVIOUS
<1> HIDE DEF v
<1>4. /\ DOMAIN u = {"id", "dash", "panel", "def", "state"}
      /\ u.id = a.id /\ u.dash = a.dash /\ u.panel = a.panel
      /\ u # a => \E b \in old : b.id = a.id /\ u.state = b.state
  BY <1>1, <1>2, <1>3
<1> QED BY <1>4 DEF u

LEMMA UpsertedElse ==
  ASSUME NEW a, NEW wanted, NEW old, \A b \in old : b.id # a.id
  PROVE  Upserted(a, wanted, old) = a
<1>1. \A y : OnPanel(y, old) \subseteq old
  BY DEF OnPanel
<1>2. {x \in wanted : x.panel = a.panel /\ a.id \in {b.id : b \in OnPanel(x.panel, old)}} = {}
  BY <1>1
<1> QED BY <1>2 DEF Upserted

LEMMA UpsertedFollows ==
  ASSUME NEW wanted, NEW old, NEW a, DOMAIN a = {"id", "dash", "panel", "def", "state"},
         NEW b \in old, a.id = b.id, a.panel = b.panel, a.def = b.def, b.id \in Int,
         \A c \in old : c.panel = b.panel \/ c.id = b.id => c = b,
         NEW x \in wanted, x.panel = a.panel, \A y \in wanted : y.panel = x.panel => y = x
  PROVE  Upserted(a, wanted, old).def = x.def
<1>1. OnPanel(a.panel, old) = {b}
  <2>1. b.panel = a.panel /\ \A c \in old : c.panel = a.panel => c = b
    OBVIOUS
  <2>2. \A k : b.panel = k /\ (\A c \in old : c.panel = k => c = b) => OnPanel(k, old) = {b}
    BY OnPanelRight
  <2> QED BY <2>1, <2>2
<1> DEFINE w == {y \in wanted : y.panel = a.panel /\ a.id \in {c.id : c \in OnPanel(y.panel, old)}}
<1>2. w = {x}
  BY <1>1
<1>3. (CHOOSE y \in w : TRUE) = x
  BY <1>2
<1>4. (CHOOSE c \in old : c.id = a.id) = b
  OBVIOUS
<1>5. w # {}
  BY <1>2
<1> HIDE DEF w
<1>6. Upserted(a, wanted, old) =
        IF x.def = b.def THEN a ELSE [a EXCEPT !.def = x.def, !.state = b.state]
  BY <1>3, <1>4, <1>5 DEF Upserted, w
<1> QED BY <1>6

\* The rows of new alerts.
Inserted(S, base, d, s) ==
  LET new == SetToSeq(S)
  IN {[id |-> base + i, dash |-> d, panel |-> new[i].panel, def |-> new[i].def,
       state |-> s] : i \in DOMAIN new}

InsertedAre(S, base, d, inserted) ==
  /\ Len(SetToSeq(S)) \in Nat
  /\ \A r \in inserted :
       /\ DOMAIN r = {"id", "dash", "panel", "def", "state"} /\ r.dash = d
       /\ r.id \in (base + 1)..(base + Len(SetToSeq(S)))
       /\ \E x \in S : r.panel = x.panel /\ r.def = x.def
  /\ \A r, t \in inserted : r.id = t.id \/ r.panel = t.panel => r = t
  /\ \A x \in S : \E r \in inserted : r.panel = x.panel /\ r.def = x.def

LEMMA InsertedRight ==
  ASSUME NEW S, IsFiniteSet(S), \A x, y \in S : x.panel = y.panel => x = y, NEW base \in Nat, NEW d, NEW state
  PROVE  InsertedAre(S, base, d, Inserted(S, base, d, state))
<1> DEFINE new == SetToSeq(S)
           n == Cardinality(S)
           row(i) == [id |-> base + i, dash |-> d, panel |-> new[i].panel,
                      def |-> new[i].def, state |-> state]
           inserted == {row(i) : i \in DOMAIN new}
<1>1. /\ new \in [1..n -> S] /\ n \in Nat /\ Len(new) = n
      /\ \A i, j \in DOMAIN new : new[i] = new[j] => i = j
      /\ \A x \in S : \E i \in DOMAIN new : new[i] = x
  BY SetToSeqRight
<1>2. DOMAIN new = 1..n /\ \A i \in 1..n : new[i] \in S
  BY <1>1
<1> HIDE DEF new, n
<1>3. \A i \in 1..n : /\ DOMAIN row(i) = {"id", "dash", "panel", "def", "state"}
                      /\ row(i).id = base + i /\ row(i).dash = d
                      /\ row(i).panel = new[i].panel /\ row(i).def = new[i].def
  OBVIOUS
<1> HIDE DEF row
<1>4. \A r \in inserted : \E i \in 1..n : r = row(i)
  BY <1>2
<1>5. ASSUME NEW r \in inserted
      PROVE  /\ DOMAIN r = {"id", "dash", "panel", "def", "state"} /\ r.dash = d
             /\ r.id \in (base + 1)..(base + Len(new))
             /\ \E x \in S : r.panel = x.panel /\ r.def = x.def
  <2>1. PICK i \in 1..n : r = row(i)
    BY <1>4
  <2>2. base + i \in (base + 1)..(base + n)
    BY <1>1
  <2> QED BY <1>1, <1>2, <1>3, <2>1, <2>2
<1>6. ASSUME NEW r \in inserted, NEW s \in inserted, r.id = s.id \/ r.panel = s.panel PROVE r = s
  <2>1. PICK i \in 1..n : r = row(i)
    BY <1>4
  <2>2. PICK j \in 1..n : s = row(j)
    BY <1>4
  <2>3. CASE r.id = s.id
    <3>1. base + i = base + j
      BY <1>3, <2>1, <2>2, <2>3
    <3>2. i = j
      BY <1>1, <3>1
    <3> QED BY <2>1, <2>2, <3>2
  <2>4. CASE r.panel = s.panel
    <3>1. new[i].panel = new[j].panel
      BY <1>3, <2>1, <2>2, <2>4
    <3>2. new[i] = new[j]
      BY <1>2, <3>1
    <3> QED BY <1>1, <1>2, <2>1, <2>2, <3>2
  <2> QED BY <1>6, <2>3, <2>4
<1>7. ASSUME NEW x \in S PROVE \E r \in inserted : r.panel = x.panel /\ r.def = x.def
  <2>1. PICK i \in DOMAIN new : new[i] = x
    BY <1>1
  <2>2. row(i) \in inserted
    OBVIOUS
  <2> QED BY <1>2, <1>3, <2>1, <2>2
<1>8. Len(new) \in Nat
  BY <1>1
<1>9. inserted = Inserted(S, base, d, state)
  BY DEF Inserted, new, row
<1> HIDE DEF inserted
<1>10. InsertedAre(S, base, d, inserted)
  BY <1>5, <1>6, <1>7, <1>8 DEF new, InsertedAre
<1> QED BY <1>9, <1>10

\* What SaveAlerts makes of the alerts cur of a dashboard, of which it has
\* read old, when those are the same but for their states.
Saves(cur, old, wanted, inserted, kept) ==
  /\ Tri(old) = Tri(cur) /\ \A a, b \in cur : a.panel = b.panel => a = b
  /\ \A a \in cur : DOMAIN a = {"id", "dash", "panel", "def", "state"}
  /\ \A b, c \in old : b.id = c.id => b = c
  /\ \A b \in old : b.id \in Int
  /\ \A x, y \in wanted : x.panel = y.panel => x = y
  /\ kept = {Upserted(a, wanted, old) : a \in {b \in cur : b.id \notin Missing(old, wanted)}}
  /\ \A r \in inserted : \E x \in wanted : OnPanel(x.panel, old) = {} /\ r.panel = x.panel /\ r.def = x.def
  /\ \A r, s \in inserted : r.panel = s.panel => r = s
  /\ \A x \in wanted : OnPanel(x.panel, old) = {} => \E r \in inserted : r.panel = x.panel /\ r.def = x.def

LEMMA SavedFollows ==
  ASSUME NEW cur, NEW old, NEW wanted, NEW inserted, NEW kept, Saves(cur, old, wanted, inserted, kept)
  PROVE  /\ Pairs(inserted \cup kept) = Pairs(wanted)
         /\ \A r, s \in inserted \cup kept : r.panel = s.panel => r = s
<1>0. /\ Tri(old) = Tri(cur) /\ \A a, b \in cur : a.panel = b.panel => a = b
      /\ \A a \in cur : DOMAIN a = {"id", "dash", "panel", "def", "state"}
      /\ \A b, c \in old : b.id = c.id => b = c
      /\ \A b \in old : b.id \in Int
      /\ \A x, y \in wanted : x.panel = y.panel => x = y
      /\ kept = {Upserted(a, wanted, old) : a \in {b \in cur : b.id \notin Missing(old, wanted)}}
      /\ \A r \in inserted : \E x \in wanted : OnPanel(x.panel, old) = {} /\ r.panel = x.panel /\ r.def = x.def
      /\ \A r, s \in inserted : r.panel = s.panel => r = s
      /\ \A x \in wanted : OnPanel(x.panel, old) = {} => \E r \in inserted : r.panel = x.panel /\ r.def = x.def
  BY DEF Saves
<1>1. \A a \in cur : \E b \in old : b.id = a.id /\ b.panel = a.panel /\ b.def = a.def
  BY <1>0, TriSame
<1>2. \A b \in old : \E a \in cur : b.id = a.id /\ b.panel = a.panel /\ b.def = a.def
  BY <1>0, TriSame
<1>3. \A b, c \in old : b.panel = c.panel => b = c
  <2>1. \A b, c \in old : b.panel = c.panel => b.id = c.id
    BY <1>0, <1>2
  <2> QED BY <1>0, <2>1
<1>4. \A b \in old : OnPanel(b.panel, old) = {b}
  <2> SUFFICES ASSUME NEW b \in old PROVE OnPanel(b.panel, old) = {b}
    OBVIOUS
  <2>1. \A c \in old : c.panel = b.panel => c = b
    BY <1>3
  <2>2. b.id \in Int
    BY <1>0
  <2>3. \A k : b.panel = k /\ (\A c \in old : c.panel = k => c = b) => OnPanel(k, old) = {b}
    BY <2>2, OnPanelRight
  <2> QED BY <2>1, <2>3
<1>5. ASSUME NEW a \in cur, a.id \notin Missing(old, wanted)
      PROVE  \E x \in wanted : x.panel = a.panel /\ Upserted(a, wanted, old).def = x.def
  <2>1. PICK b \in old : b.id = a.id /\ b.panel = a.panel /\ b.def = a.def
    BY <1>1
  <2>2. PICK x \in wanted : x.panel = b.panel
    BY <1>5, <2>1 DEF Missing
  <2>3. \A c \in old : c.panel = b.panel \/ c.id = b.id => c = b
    BY <1>0, <1>3
  <2>4. x.panel = a.panel /\ \A y \in wanted : y.panel = x.panel => y = x
    BY <1>0, <2>1, <2>2
  <2>5. Upserted(a, wanted, old).def = x.def
    BY <1>0, <2>1, <2>3, <2>4, UpsertedFollows
  <2> QED BY <2>4, <2>5
<1>6. \A a \in cur : Upserted(a, wanted, old).panel = a.panel
  BY <1>0, UpsertedRight
<1>7. \A s \in kept : \E a \in cur : a.id \notin Missing(old, wanted) /\ s = Upserted(a, wanted, old)
  BY <1>0
<1>8. ASSUME NEW x \in wanted PROVE \E r \in inserted \cup kept : r.panel = x.panel /\ r.def = x.def
  <2>1. CASE OnPanel(x.panel, old) = {}
    BY <1>0, <2>1
  <2>2. CASE OnPanel(x.panel, old) # {}
    <3>1. PICK b \in old : b.panel = x.panel
      BY <2>2 DEF OnPanel
    <3>2. PICK a \in cur : b.id = a.id /\ b.panel = a.panel /\ b.def = a.def
      BY <1>2
    <3>3. a.id \notin Missing(old, wanted)
      <4> SUFFICES ASSUME NEW c \in old, \A z \in wanted : z.panel # c.panel, c.id = a.id PROVE FALSE
        BY DEF Missing
      <4>1. c = b
        BY <1>0, <3>2
      <4> QED BY <3>1, <4>1
    <3>4. PICK y \in wanted : y.panel = a.panel /\ Upserted(a, wanted, old).def = y.def
      BY <1>5, <3>3
    <3>5. y = x
      <4>1. y.panel = x.panel
        BY <3>1, <3>2, <3>4
      <4> QED BY <1>0, <4>1
    <3>6. Upserted(a, wanted, old) \in kept
      BY <1>0, <3>3
    <3> QED BY <1>6, <3>1, <3>2, <3>4, <3>5, <3>6
  <2> QED BY <2>1, <2>2
<1>9. ASSUME NEW r \in inserted \cup kept PROVE \E x \in wanted : r.panel = x.panel /\ r.def = x.def
  <2>1. CASE r \in inserted
    BY <1>0, <2>1
  <2>2. CASE r \in kept
    BY <1>5, <1>6, <1>7, <2>2
  <2> QED BY <1>9, <2>1, <2>2
<1>10. ASSUME NEW r \in inserted, NEW s \in kept PROVE r.panel # s.panel
  <2>1. PICK x \in wanted : OnPanel(x.panel, old) = {} /\ r.panel = x.panel
    BY <1>0
  <2>2. PICK a \in cur : s = Upserted(a, wanted, old)
    BY <1>7
  <2>3. PICK b \in old : b.panel = a.panel
    BY <1>1
  <2>4. OnPanel(b.panel, old) # {}
    BY <1>4
  <2> QED BY <1>6, <2>1, <2>2, <2>3, <2>4
<1>11. ASSUME NEW r \in kept, NEW s \in kept, r.panel = s.panel PROVE r = s
  <2>1. PICK a \in cur : r = Upserted(a, wanted, old)
    BY <1>7
  <2>2. PICK b \in cur : s = Upserted(b, wanted, old)
    BY <1>7
  <2>3. a.panel = b.panel
    BY <1>6, <1>11, <2>1, <2>2
  <2>4. a = b
    BY <1>0, <2>3
  <2> QED BY <2>1, <2>2, <2>4
<1>12. Pairs(inserted \cup kept) = Pairs(wanted)
  BY <1>8, <1>9 DEF Pairs
<1> QED BY <1>0, <1>10, <1>11, <1>12

LEMMA AlertsSave ==
  ASSUME AlertsInv, BasicInv, NEW p \in Threads, SaveAlerts(p)
  PROVE  AlertsInv' /\ Grows
<1> DEFINE d == Args(p).dash
           old == Seen(p)
           wanted == GetAlerts(d, Args(p).data.alerts)
           S == {x \in wanted : OnPanel(x.panel, old) = {}}
           new == SetToSeq(S)
           inserted == Inserted(S, lastAlert, d, "pending")
           left == {b \in alerts : b.id \notin Missing(old, wanted)}
           up(a) == Upserted(a, wanted, old)
<1>1. /\ ListsRight /\ AlertsRight /\ Alone(p) /\ At(p, "SaveAlerts") /\ AlertsSeen(p) /\ Begun(p)
      /\ alerts' = inserted \cup {up(a) : a \in left}
      /\ lastAlert' = lastAlert + Len(new)
      /\ UNCHANGED <<dashboards, database, disturbed>>
  BY DEF BasicInv, AlertsInv, SaveAlerts, Writes, Inserted
<1>2. QuietStep(p) /\ todo'[p] = Tail(todo[p]) /\ Leftover(todo'[p])
  BY <1>1, DoneStep
<1>3. Proper(Args(p).data) /\ d \in DashIds
  BY <1>1, ListFacts DEF At, Args, CmdRight
<1>4. IsFiniteSet(wanted) /\ \A x, y \in wanted : x.panel = y.panel => x = y
  BY <1>3, WantedRight
<1>5. /\ lastAlert \in Nat
      /\ \A a \in alerts : DOMAIN a = {"id", "dash", "panel", "def", "state"} /\ a.id \in 1..lastAlert
      /\ \A a, b \in alerts : a.id = b.id => a = b
  BY <1>1 DEF AlertsRight
<1>6. /\ \A b \in old : b.id \in 1..lastAlert /\ b.dash = d
      /\ \A b \in old, a \in alerts : a.id = b.id => a.dash = d
      /\ \A b, c \in old : b.id = c.id => b = c
  BY <1>1 DEF AlertsSeen, Known
<1> HIDE DEF d, old, wanted
<1>7. IsFiniteSet(S) /\ \A x, y \in S : x.panel = y.panel => x = y
  BY <1>4, FS_Subset
<1> HIDE DEF S
<1>8. /\ Len(new) \in Nat
      /\ \A r \in inserted : /\ DOMAIN r = {"id", "dash", "panel", "def", "state"} /\ r.dash = d
                             /\ r.id \in (lastAlert + 1)..(lastAlert + Len(new))
                             /\ \E x \in S : r.panel = x.panel /\ r.def = x.def
      /\ \A r, s \in inserted : r.id = s.id \/ r.panel = s.panel => r = s
      /\ \A x \in S : \E r \in inserted : r.panel = x.panel /\ r.def = x.def
  <2>1. InsertedAre(S, lastAlert, d, inserted)
    BY <1>5, <1>7, InsertedRight
  <2> HIDE DEF inserted
  <2> QED BY <2>1 DEF InsertedAre, new
<1>9. \A a \in alerts : /\ DOMAIN up(a) = {"id", "dash", "panel", "def", "state"}
                        /\ up(a).id = a.id /\ up(a).dash = a.dash /\ up(a).panel = a.panel
  BY <1>5, UpsertedRight
<1>10. ASSUME NEW a \in alerts, a.dash # d PROVE a \in left /\ up(a) = a
  <2>1. \A b \in old : b.id # a.id
    BY <1>6, <1>10
  <2>2. a \in left
    BY <2>1 DEF Missing
  <2> QED BY <2>1, <2>2, UpsertedElse
<1> HIDE DEF inserted, new, up
<1>11. \A b \in alerts' : b \in inserted \/ \E a \in alerts : b = up(a)
  BY <1>1
<1>12. Grows
  <2>1. lastAlert' \in Nat /\ lastAlert' >= lastAlert
    BY <1>1, <1>5, <1>8
  <2>2. ASSUME NEW b \in alerts'
        PROVE  /\ DOMAIN b = {"id", "dash", "panel", "def", "state"} /\ b.id \in 1..lastAlert'
               /\ \/ b.id > lastAlert
                  \/ \E a \in alerts : a.id = b.id /\ a.dash = b.dash /\ a.panel = b.panel
    <3>1. CASE b \in inserted
      BY <1>1, <1>5, <1>8, <3>1
    <3>2. CASE b \notin inserted
      <4>1. PICK a \in alerts : b = up(a)
        BY <1>11, <3>2
      <4>2. b.id = a.id /\ a.id \in 1..lastAlert
        BY <1>5, <1>9, <4>1
      <4>3. b.id \in 1..lastAlert'
        BY <1>5, <2>1, <4>2
      <4> QED BY <1>9, <4>1, <4>3
    <3> QED BY <3>1, <3>2
  <2>3. ASSUME NEW b \in alerts', NEW c \in alerts', b.id = c.id PROVE b = c
    <3>1. \A x \in inserted : \A a \in alerts : x.id # up(a).id
      BY <1>5, <1>8, <1>9
    <3>2. \A x, y \in alerts : up(x).id = up(y).id => up(x) = up(y)
      BY <1>5, <1>9
    <3> QED BY <1>8, <1>11, <2>3, <3>1, <3>2
  <2> QED BY <2>1, <2>2, <2>3 DEF Grows
<1>13. ~ At(p, "SaveAlerts")'
  BY <1>2, LeftoverSaves DEF At
<1>14. ASSUME NEW e \in DashIds \ disturbed' PROVE FollowRight(e)'
  <2>1. FollowRight(e) /\ AlertsRight' /\ ListsRight'
    BY <1>1, <1>2, <1>12, <1>14, AlertsThen DEF AlertsInv, QuietStep
  <2>2. Saving(e) = {q \in Threads : At(q, "SaveAlerts") /\ Args(q).dash = e}
    BY <1>1, SavingIs
  <2>3. Saving(e)' = {q \in Threads : At(q, "SaveAlerts")' /\ Args(q)'.dash = e}
    BY <2>1, SavingThen
  <2>4. \A q \in Threads : q # p => todo'[q] = todo[q]
    BY <1>2 DEF QuietStep, Others
  <2>5. CASE e # d
    <3>1. AlertsOf(e)' = AlertsOf(e)
      <4>1. ASSUME NEW b \in alerts', b.dash = e PROVE b \in alerts
        BY <1>8, <1>9, <1>10, <1>11, <2>5, <4>1
      <4>2. ASSUME NEW b \in alerts, b.dash = e PROVE b \in alerts'
        BY <1>1, <1>10, <2>5, <4>2
      <4> QED BY <4>1, <4>2 DEF AlertsOf
    <3>2. Tri(AlertsOf(e))' = Tri(AlertsOf(e))
      BY <3>1 DEF Tri
    <3>3. p \notin Saving(e) /\ p \notin Saving(e)'
      BY <1>13, <2>2, <2>3, <2>5 DEF d
    <3> QED BY <1>1, <2>1, <2>4, <3>2, <3>3, FollowKept
  <2>6. CASE e = d
    <3>1. p \in Saving(e)
      BY <1>1, <2>2, <2>6 DEF d
    <3>2. /\ Saving(e) = {p} /\ dashboards[e] # NoRow
          /\ Args(p).data.alerts = dashboards[e].data.alerts
          /\ Tri(old) = Tri(AlertsOf(e))
      BY <1>1, <2>1, <3>1 DEF FollowRight, old
    <3>3. Saving(e)' = {}
      BY <1>13, <2>2, <2>3, <2>4, <3>2 DEF At, Args
    <3>4. wanted = Wanted(e)'
      BY <1>1, <2>6, <3>2 DEF wanted, Wanted
    <3> DEFINE cur == AlertsOf(e)
               kept == {up(a) : a \in {b \in cur : b.id \notin Missing(old, wanted)}}
    <3>5. AlertsOf(e)' = inserted \cup kept
      <4>1. ASSUME NEW b \in alerts', b.dash = e PROVE b \in inserted \cup kept
        <5>1. CASE b \in inserted
          BY <5>1
        <5>2. CASE b \notin inserted
          <6>1. PICK a \in left : b = up(a)
            BY <1>1, <5>2
          <6>2. a \in cur
            BY <1>9, <4>1, <6>1 DEF AlertsOf
          <6> QED BY <6>1, <6>2
        <5> QED BY <5>1, <5>2
      <4>2. ASSUME NEW b \in inserted \cup kept PROVE b \in alerts' /\ b.dash = e
        <5>1. CASE b \in inserted
          BY <1>1, <1>8, <2>6, <5>1
        <5>2. CASE b \in kept
          <6>1. PICK a \in cur : a.id \notin Missing(old, wanted) /\ b = up(a)
            BY <5>2
          <6>2. a \in left /\ a.dash = e
            BY <6>1 DEF AlertsOf
          <6> QED BY <1>1, <1>9, <6>1, <6>2
        <5> QED BY <4>2, <5>1, <5>2
      <4> QED BY <4>1, <4>2 DEF AlertsOf
    <3>6. \A a \in cur : DOMAIN a = {"id", "dash", "panel", "def", "state"}
      BY <1>5 DEF AlertsOf
    <3>7. \A a, b \in cur : a.panel = b.panel => a = b
      BY <2>1 DEF FollowRight
    <3>8. \A b \in old : b.id \in Int
      BY <1>5, <1>6
    <3>9. kept = {Upserted(a, wanted, old) : a \in {b \in cur : b.id \notin Missing(old, wanted)}}
      BY DEF up
    <3>10. /\ \A r \in inserted : \E x \in wanted : OnPanel(x.panel, old) = {} /\ r.panel = x.panel /\ r.def = x.def
           /\ \A x \in wanted : OnPanel(x.panel, old) = {} => \E r \in inserted : r.panel = x.panel /\ r.def = x.def
      BY <1>8 DEF S
    <3> HIDE DEF cur, kept
    <3>11. /\ Pairs(inserted \cup kept) = Pairs(wanted)
           /\ \A r, s \in inserted \cup kept : r.panel = s.panel => r = s
      <4>1. Tri(old) = Tri(cur)
        BY <3>2 DEF cur
      <4>2. \A r, s \in inserted : r.panel = s.panel => r = s
        BY <1>8
      <4>3. Saves(cur, old, wanted, inserted, kept)
        BY <1>4, <1>6, <3>6, <3>7, <3>8, <3>9, <3>10, <4>1, <4>2 DEF Saves
      <4> QED BY <4>3, SavedFollows
    <3>12. Pairs(AlertsOf(e)') = Pairs(Wanted(e)')
      BY <3>4, <3>5, <3>11
    <3>13. \A a, b \in AlertsOf(e)' : a.panel = b.panel => a = b
      BY <3>5, <3>11
    <3> QED BY <3>3, <3>12, <3>13 DEF FollowRight, Pairs
  <2> QED BY <2>5, <2>6
<1> QED BY <1>1, <1>2, <1>12, <1>14, AlertsWritten

LEMMA SameWanted ==
  ASSUME NEW as, NEW d \in DashIds
  PROVE  GetAlerts(d, as) = GetAlerts(1, as)
<1>1. d # 0 /\ 1 # 0
  BY DEF DashIds
<1> DEFINE U(e) == {i \in 1..Len(as) : ~ as[i].ok \/ e = 0 \/ as[i].panel = 0}
<1>2. U(d) = U(1)
  BY <1>1, Zenon
<1> HIDE DEF U
<1>3. \A e : Unsaved(e, as) = IF U(e) # {} THEN Min(U(e)) ELSE 0
  BY DEF Unsaved, SelectInSeq, U
<1>4. Unsaved(d, as) = Unsaved(1, as)
  BY <1>2, <1>3
<1> QED BY <1>4 DEF GetAlerts

LEMMA AlertsStart == DashboardsInit => AlertsInv
<1> SUFFICES ASSUME DashboardsInit PROVE AlertsInv
  OBVIOUS
<1> DEFINE n == IF lastDash = 1 THEN 1 ELSE MaxKeep + 1
           data(first, d) == IF d = 1 THEN first ELSE [first EXCEPT !.slug = "b"]
           row(first, d) == [version |-> n, data |-> data(first, d), plugin |-> FALSE]
           W(first) == GetAlerts(1, first.alerts)
           found(first) == SetToSeq(W(first))
<1>1. PICK first \in Datas :
        /\ lastDash = 1 <=> found(first) # <<>>
        /\ dashboards = [d \in DashIds |-> IF d <= lastDash THEN row(first, d) ELSE NoRow]
        /\ lastAlert = Len(found(first))
        /\ alerts = {[id |-> i, dash |-> 1, panel |-> found(first)[i].panel,
                      def |-> found(first)[i].def, state |-> "alerting"] : i \in DOMAIN found(first)}
  BY DEF DashboardsInit
<1>2. first \in Jsons /\ DOMAIN first = {"slug", "alerts", "rev"}
  BY DashboardsAssumption DEF Jsons
<1>3. Proper(first) /\ \A d \in DashIds : data(first, d).alerts = first.alerts
  BY <1>2 DEF Proper
<1>4. IsFiniteSet(W(first)) /\ \A x, y \in W(first) : x.panel = y.panel => x = y
  BY <1>3, WantedRight
<1> DEFINE S == W(first)
<1>5. \A d \in DashIds : GetAlerts(d, first.alerts) = S
  BY SameWanted
<1>6. /\ SetToSeq(S) \in [1..Cardinality(S) -> S] /\ Cardinality(S) \in Nat
      /\ Len(SetToSeq(S)) = Cardinality(S)
  BY <1>4, SetToSeqRight
<1>7. alerts = Inserted(S, 0, 1, "alerting") /\ lastAlert = Len(SetToSeq(S))
      /\ (lastDash = 1 <=> SetToSeq(S) # <<>>)
  <2> DEFINE f == SetToSeq(S)
  <2>1. DOMAIN f = 1..Cardinality(S)
    BY <1>6
  <2>2. \A i \in DOMAIN f : 0 + i = i
    BY <1>6, <2>1
  <2>3. alerts = {[id |-> i, dash |-> 1, panel |-> f[i].panel,
                   def |-> f[i].def, state |-> "alerting"] : i \in DOMAIN f}
    BY <1>1
  <2> HIDE DEF f
  <2>4. alerts = {[id |-> 0 + i, dash |-> 1, panel |-> f[i].panel,
                   def |-> f[i].def, state |-> "alerting"] : i \in DOMAIN f}
    BY <2>2, <2>3
  <2> QED BY <1>1, <2>4 DEF Inserted, f
<1>8. S = {} => SetToSeq(S) = <<>>
  <2>1. S = {} => Cardinality(S) = 0
    BY FS_EmptySet
  <2> HIDE DEF S
  <2>2. SetToSeq(S) \in Seq(S)
    BY <1>6
  <2> QED BY <1>6, <2>1, <2>2, EmptySeq
<1>9. SetToSeq(S) = <<>> => S = {}
  <2> HIDE DEF S
  <2>1. SetToSeq(S) = <<>> => Cardinality(S) = 0
    BY <1>6, EmptySeq
  <2>2. IsFiniteSet(S)
    BY <1>4 DEF S
  <2> QED BY <2>1, <2>2, FS_EmptySet
<1> HIDE DEF n, found, data
<1>10. /\ \A d \in DashIds : dashboards[d] # NoRow => dashboards[d].data.alerts = first.alerts
       /\ \A d \in DashIds : dashboards[d] # NoRow => d <= lastDash
       /\ \A d \in DashIds : d <= lastDash => dashboards[d] # NoRow
       /\ lastDash \in {1, 2} /\ lastDash \in DashIds
  <2>1. \A d : row(first, d) # NoRow /\ row(first, d).data = data(first, d)
    <3> SUFFICES ASSUME NEW d PROVE row(first, d) # NoRow /\ row(first, d).data = data(first, d)
      OBVIOUS
    <3>1. DOMAIN row(first, d) = {"version", "data", "plugin"} /\ DOMAIN NoRow = {"version"}
      BY DEF NoRow
    <3> QED BY <3>1
  <2>2. lastDash \in {1, 2} /\ lastDash \in DashIds
    BY DEF DashboardsInit
  <2> QED BY <1>1, <1>3, <2>1, <2>2
<1> DEFINE s == "alerting"
<1> HIDE DEF S
<1>11. /\ Len(SetToSeq(S)) \in Nat
       /\ \A r \in alerts : /\ DOMAIN r = {"id", "dash", "panel", "def", "state"} /\ r.dash = 1
                            /\ r.id \in (0 + 1)..(0 + Len(SetToSeq(S)))
                            /\ \E x \in S : r.panel = x.panel /\ r.def = x.def
       /\ \A r, t \in alerts : r.id = t.id \/ r.panel = t.panel => r = t
       /\ \A x \in S : \E r \in alerts : r.panel = x.panel /\ r.def = x.def
  <2>1. IsFiniteSet(S) /\ \A x, y \in S : x.panel = y.panel => x = y
    BY <1>4 DEF S
  <2>2. InsertedAre(S, 0, 1, alerts)
    BY <1>7, <2>1, InsertedRight
  <2> QED BY <2>2 DEF InsertedAre
<1>12. AlertsRight
  BY <1>7, <1>11 DEF AlertsRight
<1>13. \A p \in Threads : todo[p] = <<>>
  BY DEF DashboardsInit
<1>14. ASSUME NEW d \in DashIds PROVE FollowRight(d)
  <2>1. Saving(d) = {}
    BY <1>13 DEF Saving
  <2>2. \A a, b \in AlertsOf(d) : a.panel = b.panel => a = b
    BY <1>11 DEF AlertsOf
  <2>3. Pairs(AlertsOf(d)) = Pairs(Wanted(d))
    <3>1. CASE S = {}
      <4>1. alerts = {}
        BY <1>11, <3>1
      <4>2. Wanted(d) = {}
        BY <1>5, <1>10, <3>1 DEF Wanted
      <4> QED BY <4>1, <4>2 DEF AlertsOf, Pairs
    <3>2. CASE S # {}
      <4>1. lastDash = 1
        BY <1>7, <1>9, <3>2
      <4>2. CASE d = 1
        <5>1. AlertsOf(d) = alerts /\ Wanted(d) = S
          <6>1. dashboards[d] # NoRow
            BY <1>10, <4>1, <4>2
          <6>2. Wanted(d) = S
            BY <1>5, <1>10, <6>1 DEF Wanted
          <6> QED BY <1>11, <4>2, <6>2 DEF AlertsOf
        <5> QED BY <1>11, <5>1 DEF Pairs
      <4>3. CASE d # 1
        <5>1. dashboards[d] = NoRow
          BY <1>10, <4>1, <4>3 DEF DashIds
        <5>2. AlertsOf(d) = {} /\ Wanted(d) = {}
          BY <1>11, <4>3, <5>1 DEF AlertsOf, Wanted
        <5> QED BY <5>2 DEF Pairs
      <4> QED BY <4>2, <4>3
    <3> QED BY <3>1, <3>2
  <2> QED BY <2>1, <2>2, <2>3 DEF FollowRight
<1>15. \A p \in Threads : ~ Begun(p)
  BY <1>13 DEF Begun
<1> QED BY <1>12, <1>14, <1>15 DEF AlertsInv

LEMMA AlertsSame ==
  ASSUME AlertsInv, ListsRight, UNCHANGED dashboardsVars
  PROVE  AlertsInv'
<1> USE DEF dashboardsVars, rows
<1>1. ListsRight'
  BY DEF ListsRight, Shape, CmdRight, SyncCmd, Proper
<1>2. Grows
  BY GrowsSame DEF AlertsInv
<1>3. ASSUME NEW d \in DashIds \ disturbed' PROVE FollowRight(d)'
  <2>1. Tri(AlertsOf(d))' = Tri(AlertsOf(d))
    BY DEF Tri, AlertsOf
  <2>2. FollowRight(d) /\ AlertsRight'
    BY <1>2, AlertsThen DEF AlertsInv
  <2> QED BY <1>1, <2>1, <2>2, FollowKept
<1>4. \A q \in Threads : Begun(q)' =>
        /\ At(q, "SaveAlerts")' => AlertsSeen(q)'
        /\ At(q, "SetAlertState")' => StateSeen(q)'
  BY <1>2, SeensKept
<1> QED BY <1>2, <1>3, <1>4, AlertsThen DEF AlertsInv

LEMMA AlertsRestart ==
  ASSUME AlertsInv, BasicInv, Restart
  PROVE  AlertsInv'
<1>1. /\ ListsRight /\ ListsRight' /\ UNCHANGED <<alerts, lastAlert, dashboards, database>>
      /\ disturbed' = disturbed \cup {d \in DashIds : Saving(d) # {}}
  BY RestartStep DEF BasicInv, Restart, rows, Disturb
<1>2. \A q \in Threads : ~ Begun(q)' /\ ~ At(q, "SaveAlerts")'
  <2> DEFINE c == Cmd("syncPluginDashboards", [plugin |-> TRUE])
  <2>1. c.op # "SaveAlerts"
    BY DEF Cmd
  <2>2. \A q \in Threads : ~ Begun(q)' /\ (todo'[q] = <<>> \/ todo'[q] = <<c>>)
    BY RestartStep
  <2> HIDE DEF c
  <2>3. Head(<<c>>) = c
    OBVIOUS
  <2> QED BY <2>1, <2>2, <2>3 DEF At
<1>3. Grows
  BY <1>1, GrowsSame DEF AlertsInv
<1>4. ASSUME NEW d \in DashIds \ disturbed' PROVE FollowRight(d)'
  <2>1. Tri(AlertsOf(d))' = Tri(AlertsOf(d))
    BY <1>1 DEF Tri, AlertsOf
  <2>2. FollowRight(d) /\ AlertsRight' /\ Saving(d) = {}
    BY <1>1, <1>3, <1>4, AlertsThen DEF AlertsInv
  <2>3. Saving(d)' = {}
    BY <1>1, <1>2, SavingThen
  <2> QED BY <1>1, <2>1, <2>2, <2>3, FollowKept
<1> QED BY <1>2, <1>3, <1>4, AlertsThen DEF AlertsInv

LEMMA AlertsLocked ==
  ASSUME AlertsInv, BasicInv, NEW p \in Threads, Locked(p)
  PROVE  AlertsInv'
<1>1. ListsRight /\ UNCHANGED <<alerts, lastAlert, dashboards, database>>
  BY DEF BasicInv, Locked, rows
<1>2. /\ QuietStep(p) /\ todo[p] # <<>>
      /\ \/ todo'[p] # <<>> /\ Head(todo'[p]) = Retried(Head(todo[p])) /\ disturbed' = disturbed
         \/ todo'[p] = <<>> /\ disturbed' = disturbed \cup {d \in DashIds : p \in Saving(d)}
  BY <1>1, LockedStep
<1>3. CASE todo'[p] # <<>> /\ Head(todo'[p]) = Retried(Head(todo[p])) /\ disturbed' = disturbed
  <2>1. CmdRight(Head(todo[p]))
    BY <1>1, <1>2, ListFacts
  <2>2. /\ Head(todo'[p]).op = Head(todo[p]).op
        /\ Head(todo[p]).op = "SaveAlerts" => Head(todo'[p]).args = Head(todo[p]).args
    BY <1>3, <2>1, RetriedRight
  <2>3. \/ ~ At(p, "SaveAlerts") /\ ~ At(p, "SaveAlerts")'
        \/ At(p, "SaveAlerts") /\ At(p, "SaveAlerts")' /\ Args(p)' = Args(p)
    BY <1>2, <1>3, <2>2 DEF At, Args
  <2> QED BY <1>1, <1>2, <1>3, <2>3, AlertsElsewhere
<1>4. CASE todo'[p] = <<>> /\ disturbed' = disturbed \cup {d \in DashIds : p \in Saving(d)}
  <2>1. \A d \in DashIds \ disturbed' : p \notin Saving(d)
    BY <1>4
  <2> QED BY <1>1, <1>2, <1>4, <2>1, AlertsElsewhere
<1> QED BY <1>2, <1>3, <1>4

LEMMA AlertsReadKept ==
  ASSUME AlertsInv, BasicInv, NEW p \in Threads, AlertsRead(p)
  PROVE  AlertsInv'
<1>1. /\ ListsRight /\ UNCHANGED <<alerts, lastAlert, dashboards, database>> /\ At(p, "SaveAlerts")
  BY DEF BasicInv, AlertsRead, Waits, rows
<1>2. CASE QuietStep(p) /\ todo'[p] = <<>> /\ disturbed' = disturbed \cup {Args(p).dash}
  <2>1. \A d \in DashIds \ disturbed' : p \notin Saving(d)
    BY <1>1, <1>2, SavingIs
  <2> QED BY <1>1, <1>2, <2>1, AlertsElsewhere
<1>3. CASE BeginStep(p, AlertsOf(Args(p).dash)) /\ disturbed' = disturbed
  <2>1. ~ At(p, "SetAlertState")
    BY <1>1 DEF At
  <2> QED BY <1>1, <1>3, <2>1, AlertsBegin
<1> QED BY <1>1, <1>2, <1>3, AlertsReadStep

LEMMA StateReadKept ==
  ASSUME AlertsInv, BasicInv, NEW p \in Threads, StateRead(p)
  PROVE  AlertsInv'
<1> DEFINE row == {a \in alerts : a.id = Args(p).id}
<1>1. /\ ListsRight /\ UNCHANGED <<alerts, lastAlert, dashboards, database, disturbed>>
      /\ At(p, "SetAlertState") /\ todo[p] # <<>>
      /\ Fail(p) \/ (row # {} /\ Sees(p, row))
  BY DEF BasicInv, StateRead, Waits, rows, At
<1>2. ~ At(p, "SaveAlerts")
  BY <1>1 DEF At
<1>3. CASE Fail(p)
  <2>1. QuietStep(p) /\ todo'[p] = <<>>
    BY <1>1, <1>3, AfterFail DEF QuietStep
  <2>2. ~ At(p, "SaveAlerts")'
    BY <2>1 DEF At
  <2> QED BY <1>1, <1>2, <2>1, <2>2, AlertsElsewhere
<1>4. CASE row # {} /\ Sees(p, row)
  <2>1. BeginStep(p, row)
    BY <1>1, <1>4, AfterSees
  <2> QED BY <1>1, <1>2, <1>4, <2>1, AlertsBegin
<1> QED BY <1>1, <1>3, <1>4

\* Steps that have nothing to do with alerts.
LEMMA AlertsOther ==
  ASSUME AlertsInv, BasicInv, NEW p \in Threads, QuietStep(p), ~ At(p, "SaveAlerts"),
         todo'[p] = <<>> \/ Head(todo'[p]).op # "SaveAlerts",
         UNCHANGED <<alerts, lastAlert, dashboards, database, disturbed>>
  PROVE  AlertsInv'
<1>1. ListsRight /\ ~ At(p, "SaveAlerts")'
  BY DEF At, BasicInv
<1> QED BY <1>1, AlertsElsewhere

LEMMA AlertsNext ==
  BasicInv /\ AlertsInv /\ [DashboardsNext]_dashboardsVars => AlertsInv'
<1> SUFFICES ASSUME BasicInv, AlertsInv, [DashboardsNext]_dashboardsVars PROVE AlertsInv'
  OBVIOUS
<1> USE DEF rows
<1>0. ListsRight
  BY DEF BasicInv
<1>1. CASE UNCHANGED dashboardsVars
  BY <1>0, <1>1, AlertsSame
<1>2. ASSUME NEW p \in Slots, Request(p) PROVE AlertsInv'
  <2>1. PICK cmd : /\ CmdRight(cmd) /\ cmd.seen = <<>> /\ Arrives(p, cmd) /\ cmd.op # "SaveAlerts"
    BY <1>2, RequestStep
  <2>2. p \in Threads
    BY DEF Threads
  <2>3. QuietStep(p) /\ todo'[p] = <<cmd>> /\ todo[p] = <<>>
    BY <1>0, <2>1, <2>2, ArrivesStep
  <2>4. Head(<<cmd>>) = cmd
    OBVIOUS
  <2>5. ~ At(p, "SaveAlerts")
    BY <2>3 DEF At
  <2>6. UNCHANGED <<alerts, lastAlert, dashboards, database, disturbed>>
    BY <2>1 DEF Arrives
  <2> QED BY <2>1, <2>2, <2>3, <2>4, <2>5, <2>6, AlertsOther
<1>3. ASSUME NEW p \in Threads, validateDashboardAlerts(p) PROVE AlertsInv'
  <2> DEFINE c == Cmd("SaveDashboard", Args(p))
  <2>1. QuietStep(p) /\ (todo'[p] = <<>> \/ todo'[p] = <<c>>)
    BY <1>0, <1>3, ValidateStep
  <2>2. c.op # "SaveAlerts"
    BY DEF Cmd
  <2> HIDE DEF c
  <2>3. Head(<<c>>) = c
    OBVIOUS
  <2>4. ~ At(p, "SaveAlerts") /\ UNCHANGED <<alerts, lastAlert, dashboards, database, disturbed>>
    BY <1>3 DEF validateDashboardAlerts, At
  <2> QED BY <2>1, <2>2, <2>3, <2>4, AlertsOther
<1>4. ASSUME NEW p \in Threads, syncPluginDashboards(p) \/ removePluginDashboards(p) PROVE AlertsInv'
  <2>1. QuietStep(p) /\ Leftover(todo'[p])
    BY <1>4, SyncStep
  <2>2. ~ At(p, "SaveAlerts") /\ UNCHANGED <<alerts, lastAlert, dashboards, database, disturbed>>
    BY <1>4 DEF syncPluginDashboards, removePluginDashboards, At
  <2> QED BY <2>1, <2>2, LeftoverSaves, AlertsOther
<1>5. ASSUME NEW p \in Threads, SaveRead(p) \/ DeleteRead(p) \/ ExpireRead(p) PROVE AlertsInv'
  <2>1. /\ UNCHANGED <<alerts, lastAlert, dashboards, database, disturbed>>
        /\ ~ At(p, "SaveAlerts") /\ ~ At(p, "SetAlertState")
    BY <1>5 DEF SaveRead, DeleteRead, ExpireRead, Waits, At
  <2>2. (QuietStep(p) /\ todo'[p] = <<>>) \/ \E t : BeginStep(p, t)
    BY <1>0, <1>5, SaveReadStep, DeleteReadStep, ExpireReadStep
  <2>3. CASE QuietStep(p) /\ todo'[p] = <<>>
    BY <2>1, <2>3, AlertsOther
  <2>4. CASE \E t : BeginStep(p, t)
    BY <1>0, <2>1, <2>4, AlertsBegin
  <2> QED BY <2>2, <2>3, <2>4
<1>6. ASSUME NEW p \in Threads, ExpireWrite(p) PROVE AlertsInv'
  <2>1. QuietStep(p) /\ Leftover(todo'[p])
    BY <1>6, BasicExpireWrite
  <2>2. ~ At(p, "SaveAlerts") /\ UNCHANGED <<alerts, lastAlert, dashboards, database, disturbed>>
    BY <1>6 DEF ExpireWrite, Writes, At
  <2> QED BY <2>1, <2>2, LeftoverSaves, AlertsOther
<1>7. ASSUME NEW p \in Threads, UpdatePluginSettingVersion(p) PROVE AlertsInv'
  <2>1. QuietStep(p) /\ Leftover(todo'[p])
    BY <1>0, <1>7, DoneStep
  <2>2. ~ At(p, "SaveAlerts") /\ UNCHANGED <<alerts, lastAlert, dashboards, database, disturbed>>
    BY <1>7 DEF UpdatePluginSettingVersion, At
  <2> QED BY <2>1, <2>2, LeftoverSaves, AlertsOther
<1>8. ASSUME NEW p \in Threads, UpdatePluginSetting(p) PROVE AlertsInv'
  <2>1. QuietStep(p) /\ (Leftover(todo'[p])
          \/ \E op \in {"syncPluginDashboards", "removePluginDashboards"} : todo'[p] = <<Cmd(op, [plugin |-> TRUE])>>)
    BY <1>0, <1>8, SettingStep
  <2>2. ~ At(p, "SaveAlerts") /\ UNCHANGED <<alerts, lastAlert, dashboards, database, disturbed>>
    BY <1>8 DEF UpdatePluginSetting, At
  <2>3. ASSUME NEW op \in {"syncPluginDashboards", "removePluginDashboards"}, todo'[p] = <<Cmd(op, [plugin |-> TRUE])>>
        PROVE  Head(todo'[p]).op # "SaveAlerts"
    <3> DEFINE c == Cmd(op, [plugin |-> TRUE])
    <3>1. c.op # "SaveAlerts"
      BY DEF Cmd
    <3> HIDE DEF c
    <3>2. Head(<<c>>) = c
      OBVIOUS
    <3>3. todo'[p] = <<c>>
      BY <2>3 DEF c
    <3> QED BY <3>1, <3>2, <3>3
  <2>4. todo'[p] = <<>> \/ Head(todo'[p]).op # "SaveAlerts"
    BY <2>1, <2>3, LeftoverSaves
  <2> QED BY <2>1, <2>2, <2>4, AlertsOther
<1> QED BY <1>1, <1>2, <1>3, <1>4, <1>5, <1>6, <1>7, <1>8, AlertsRestart, AlertsLocked,
           AlertsReadKept, StateReadKept, AlertsSaveWrite, AlertsDeleteWrite, AlertsPause,
           AlertsSetState, AlertsSave DEF DashboardsNext, Store, Handler

LEMMA DashboardsAlerts == DashboardsSpec => [](BasicInv /\ AlertsInv)
<1>1. DashboardsInit => BasicInv /\ AlertsInv
  BY BasicStart, AlertsStart
<1>2. (BasicInv /\ AlertsInv) /\ [DashboardsNext]_dashboardsVars => (BasicInv /\ AlertsInv)'
  BY BasicNext, AlertsNext
<1> QED BY <1>1, <1>2, PTL DEF DashboardsSpec

\* As many alerts as the dashboard wants: one on each panel.
LEMMA PairsMatch ==
  ASSUME NEW A, NEW W, IsFiniteSet(W), Pairs(A) = Pairs(W),
         \A a, b \in A : a.panel = b.panel => a = b,
         \A x, y \in W : x.panel = y.panel => x = y
  PROVE  Cardinality(A) = Cardinality(W)
<1>1. \A a \in A : \E x \in W : x.panel = a.panel
  <2> SUFFICES ASSUME NEW a \in A PROVE \E x \in W : x.panel = a.panel
    OBVIOUS
  <2>1. <<a.panel, a.def>> \in Pairs(W)
    BY DEF Pairs
  <2>2. PICK x \in W : <<a.panel, a.def>> = <<x.panel, x.def>>
    BY <2>1 DEF Pairs
  <2> QED BY <2>2
<1>2. \A x \in W : \E a \in A : x.panel = a.panel
  <2> SUFFICES ASSUME NEW x \in W PROVE \E a \in A : x.panel = a.panel
    OBVIOUS
  <2>1. <<x.panel, x.def>> \in Pairs(A)
    BY DEF Pairs
  <2>2. PICK a \in A : <<x.panel, x.def>> = <<a.panel, a.def>>
    BY <2>1 DEF Pairs
  <2> QED BY <2>2
<1> DEFINE f == [x \in W |-> CHOOSE a \in A : a.panel = x.panel]
<1>3. f \in [W -> A] /\ \A x \in W : f[x].panel = x.panel
  BY <1>2
<1> HIDE DEF f
<1>4. \A x, y \in W : f[x] = f[y] => x = y
  BY <1>3
<1>5. \A a \in A : \E x \in W : f[x] = a
  BY <1>1, <1>3
<1>6. f \in Bijection(W, A)
  BY <1>3, <1>4, <1>5 DEF Bijection, Injection, IsInjective, Surjection
<1> QED BY <1>6, FS_Bijection DEF ExistsBijection

LEMMA FollowsThen == BasicInv /\ AlertsInv => AlertsFollow
<1> SUFFICES ASSUME BasicInv, AlertsInv, NEW d \in DashIds, d \notin disturbed, Saving(d) = {}
             PROVE  /\ Cardinality(AlertsOf(d)) = Cardinality(Wanted(d))
                    /\ Pairs(AlertsOf(d)) = Pairs(Wanted(d))
  BY DEF AlertsFollow, Wanted, Pairs
<1>1. /\ Pairs(AlertsOf(d)) = Pairs(Wanted(d))
      /\ \A a, b \in AlertsOf(d) : a.panel = b.panel => a = b
  BY DEF AlertsInv, FollowRight
<1>2. IsFiniteSet(Wanted(d)) /\ \A x, y \in Wanted(d) : x.panel = y.panel => x = y
  <2>1. CASE dashboards[d] = NoRow
    BY <2>1, FS_EmptySet DEF Wanted
  <2>2. CASE dashboards[d] # NoRow
    <3>1. Proper(dashboards[d].data)
      BY <2>2 DEF BasicInv, TableRight, RowRight
    <3>2. Wanted(d) = GetAlerts(d, dashboards[d].data.alerts)
      BY <2>2 DEF Wanted
    <3> QED BY <3>1, <3>2, WantedRight
  <2> QED BY <2>1, <2>2
<1> QED BY <1>1, <1>2, PairsMatch

\* AlertsFollow: when the transaction that saves the alerts of a dashboard is
\* done they are those of the dashboard, however other requests overlap it.
THEOREM AlertsAreThose == DashboardsSpec => []AlertsFollow
BY DashboardsAlerts, FollowsThen, PTL

LEMMA SaveKeepsStates ==
  ASSUME BasicInv, AlertsInv, NEW p \in Threads, SaveAlerts(p),
         NEW a \in alerts, NEW b \in alerts', a.id = b.id, a.state # b.state
  PROVE  database # "sqlite" /\ a \notin Seen(p)
<1> DEFINE d == Args(p).dash
           old == Seen(p)
           wanted == GetAlerts(d, Args(p).data.alerts)
           S == {x \in wanted : OnPanel(x.panel, old) = {}}
           inserted == Inserted(S, lastAlert, d, "pending")
           left == {c \in alerts : c.id \notin Missing(old, wanted)}
<1>1. /\ AlertsRight /\ AlertsSeen(p) /\ ListsRight /\ At(p, "SaveAlerts")
      /\ alerts' = inserted \cup {Upserted(c, wanted, old) : c \in left}
  BY DEF BasicInv, AlertsInv, SaveAlerts, Writes, Inserted
<1>2. IsFiniteSet(S) /\ \A x, y \in S : x.panel = y.panel => x = y
  <2>1. Proper(Args(p).data)
    BY <1>1, ListFacts DEF At, Args, CmdRight
  <2>2. IsFiniteSet(wanted) /\ \A x, y \in wanted : x.panel = y.panel => x = y
    BY <2>1, WantedRight
  <2> QED BY <2>2, FS_Subset
<1> HIDE DEF S, d, old, wanted
<1>3. lastAlert \in Nat /\ a.id \in 1..lastAlert
  BY <1>1 DEF AlertsRight
<1>4. b \notin inserted
  <2>1. InsertedAre(S, lastAlert, d, inserted)
    BY <1>2, <1>3, InsertedRight
  <2> HIDE DEF inserted
  <2>2. b \in inserted => b.id \in (lastAlert + 1)..(lastAlert + Len(SetToSeq(S))) /\ Len(SetToSeq(S)) \in Nat
    BY <2>1 DEF InsertedAre
  <2> QED BY <1>3, <2>2
<1>5. PICK c \in left : b = Upserted(c, wanted, old)
  BY <1>1, <1>4
<1>6. c = a
  <2>1. DOMAIN c = {"id", "dash", "panel", "def", "state"}
    BY <1>1 DEF AlertsRight
  <2>2. b.id = c.id
    BY <1>5, <2>1, UpsertedRight
  <2> QED BY <1>1, <2>2 DEF AlertsRight
<1>7. PICK e \in old : e.id = a.id /\ b.state = e.state
  <2>1. DOMAIN a = {"id", "dash", "panel", "def", "state"}
    BY <1>1 DEF AlertsRight
  <2>2. b # a
    OBVIOUS
  <2> QED BY <1>5, <1>6, <2>1, <2>2, UpsertedRight
<1>8. a \notin old
  BY <1>1, <1>7 DEF AlertsSeen, Known, old
<1>9. database # "sqlite"
  BY <1>1, <1>7, <1>8 DEF AlertsSeen, AlertsRight, old
<1> QED BY <1>8, <1>9 DEF old

\* StateSurvivesSave: saving a dashboard changes no alert's state on SQLite,
\* and elsewhere only one that was changed after it was read.
THEOREM StatesSurvive == DashboardsSpec => StateSurvivesSave
<1> DEFINE Right == \A p \in Threads : SaveAlerts(p) =>
             \A a \in alerts, b \in alerts' : a.id = b.id /\ a.state # b.state =>
               database # "sqlite" /\ a \notin Seen(p)
<1>1. BasicInv /\ AlertsInv => [Right]_dashboardsVars
  BY SaveKeepsStates
<1>2. DashboardsSpec => [][Right]_dashboardsVars
  BY <1>1, DashboardsAlerts, PTL
<1> QED BY <1>2 DEF StateSurvivesSave

-----------------------------------------------------------------------------
(* The sync of a plugin *)

\* What the plugin's dashboards are.
Mine == [d \in OfPlugin(dashboards) |-> dashboards[d].data]

Marks(l) == \E i \in DOMAIN l : l[i].op = "UpdatePluginSettingVersion"

\* Commands that switch a plugin or change its dashboards for it
Syncs(c) == c.op \in PluginOps \/ (c.op \in {"SaveDashboard", "DeleteDashboard"} /\ c.args.plugin)
SyncingList(l) == \E i \in DOMAIN l : Syncs(l[i])

\* A list at whose end the version is marked has, before that, what makes
\* the dashboards m of the plugin those of the files F.
SyncRight(l, m, F) ==
  /\ \A i \in DOMAIN l : l[i].op = "UpdatePluginSettingVersion" => i = Len(l)
  /\ \A i \in DOMAIN l : l[i].op = "SaveDashboard" => l[i].args.data \in F /\ l[i].args.plugin
  /\ \A i \in DOMAIN l : l[i].op = "DeleteDashboard" => \A f \in F : f.slug # l[i].args.slug
  /\ \A f \in F :
       \/ \E d \in DOMAIN m : m[d].slug = f.slug /\ m[d].rev = f.rev
       \/ \E i \in DOMAIN l : l[i].op = "SaveDashboard" /\ l[i].args.data = f
  /\ \A d \in DOMAIN m :
       \/ \E f \in F : f.slug = m[d].slug
       \/ \E i \in DOMAIN l : l[i].op = "DeleteDashboard" /\ l[i].args.slug = m[d].slug

\* What its transaction has read of the plugin's dashboards is still so.
SyncSeen(h, m) ==
  h.seen # <<>> =>
    /\ h.op = "SaveDashboard" =>
         \A d \in DOMAIN m : d \in WithSlug(h.seen[1], h.args.data.slug) => m[d].slug = h.args.data.slug
    /\ h.op = "DeleteDashboard" =>
         \A d \in DOMAIN m : d \in h.seen[1] <=> m[d].slug = h.args.slug

SyncInv ==
  ~ meddled =>
    /\ \A p, q \in Threads : SyncingList(todo[p]) /\ SyncingList(todo[q]) => p = q
    /\ \A p \in Threads : Marks(todo[p]) =>
         SyncRight(todo[p], Mine, Files[disk]) /\ SyncSeen(Head(todo[p]), Mine)

LEMMA MarksSync == ASSUME NEW l, Marks(l) PROVE SyncingList(l) /\ l # <<>>
<1>1. PICK i \in DOMAIN l : l[i].op = "UpdatePluginSettingVersion"
  BY DEF Marks
<1>2. DOMAIN <<>> = {}
  OBVIOUS
<1> QED BY <1>1, <1>2 DEF SyncingList, Syncs, PluginOps

\* Steps in which nobody begins to sync and the plugin's dashboards stay.
LEMMA SyncKept ==
  ASSUME SyncInv, NEW p \in Threads, Others(p), UNCHANGED disk, meddled => meddled',
         ~ meddled' => Mine' = Mine \/ SyncingList(todo[p]),
         SyncingList(todo'[p]) => SyncingList(todo[p]),
         ~ meddled' /\ Marks(todo'[p]) => SyncRight(todo'[p], Mine', Files[disk]) /\ SyncSeen(Head(todo'[p]), Mine')
  PROVE  SyncInv'
<1> SUFFICES ASSUME ~ meddled' PROVE SyncInv'
  BY DEF SyncInv
<1>1. ~ meddled
  OBVIOUS
<1>2. \A q \in Threads : q # p => todo'[q] = todo[q]
  BY DEF Others
<1>3. \A q, r \in Threads : SyncingList(todo[q]) /\ SyncingList(todo[r]) => q = r
  BY <1>1 DEF SyncInv
<1>4. \A q \in Threads : SyncingList(todo'[q]) => SyncingList(todo[q])
  BY <1>2
<1>5. \A q, r \in Threads : SyncingList(todo'[q]) /\ SyncingList(todo'[r]) => q = r
  BY <1>3, <1>4
<1>6. ASSUME NEW q \in Threads, Marks(todo'[q])
      PROVE  SyncRight(todo'[q], Mine', Files[disk]) /\ SyncSeen(Head(todo'[q]), Mine')
  <2>1. CASE q = p
    BY <1>6, <2>1
  <2>2. CASE q # p
    <3>1. todo'[q] = todo[q]
      BY <1>2, <2>2
    <3>2. SyncingList(todo[q])
      BY <1>6, <3>1, MarksSync
    <3>3. Mine' = Mine
      BY <1>3, <2>2, <3>2
    <3>4. SyncRight(todo[q], Mine, Files[disk]) /\ SyncSeen(Head(todo[q]), Mine)
      BY <1>1, <1>6, <3>1 DEF SyncInv
    <3> QED BY <3>1, <3>3, <3>4
  <2> QED BY <2>1, <2>2
<1> DEFINE m == Mine'
<1> HIDE DEF m
<1>7. \A q \in Threads : Marks(todo'[q]) => SyncRight(todo'[q], Mine', Files'[disk']) /\ SyncSeen(Head(todo'[q]), Mine')
  BY <1>6
<1> QED BY <1>5, <1>7 DEF SyncInv, SyncingList, Syncs, Marks, SyncRight, SyncSeen, WithSlug, Saved

LEMMA SyncsNothing == ~ SyncingList(<<>>) /\ ~ Marks(<<>>)
<1>1. DOMAIN <<>> = {}
  OBVIOUS
<1> QED BY <1>1 DEF SyncingList, Marks

LEMMA SyncsOne ==
  ASSUME NEW c
  PROVE  (SyncingList(<<c>>) <=> Syncs(c)) /\ (Marks(<<c>>) <=> c.op = "UpdatePluginSettingVersion")
<1> DEFINE l == <<c>>
<1>1. DOMAIN l = {1} /\ l[1] = c
  OBVIOUS
<1> HIDE DEF l
<1>2. (SyncingList(l) <=> Syncs(c)) /\ (Marks(l) <=> c.op = "UpdatePluginSettingVersion")
  BY <1>1 DEF SyncingList, Marks
<1> QED BY <1>2 DEF l

LEMMA HeadSyncs ==
  ASSUME ListsRight, NEW p \in Threads, todo[p] # <<>>, Syncs(Head(todo[p]))
  PROVE  SyncingList(todo[p])
<1>1. PICK S : todo[p] \in Seq(S)
  BY ListFacts
<1>2. DOMAIN todo[p] = 1..Len(todo[p]) /\ Len(todo[p]) \in Nat /\ Len(todo[p]) > 0
  BY <1>1, ListFacts
<1>3. 1 \in DOMAIN todo[p] /\ Head(todo[p]) = todo[p][1]
  BY <1>2, ListFacts
<1> QED BY <1>3 DEF SyncingList

\* The rest of a list asks for nothing that the list does not ask for.
LEMMA TailFacts ==
  ASSUME ListsRight, NEW p \in Threads, todo[p] # <<>>, NEW t, t = Tail(todo[p])
  PROVE  /\ DOMAIN todo[p] = 1..Len(todo[p]) /\ DOMAIN t = 1..Len(t)
         /\ Len(t) \in Nat /\ Len(todo[p]) = Len(t) + 1 /\ Head(todo[p]) = todo[p][1]
         /\ \A i \in DOMAIN t : i + 1 \in DOMAIN todo[p] /\ t[i] = todo[p][i + 1]
         /\ \A i \in DOMAIN todo[p] : i = 1 \/ (i - 1 \in DOMAIN t /\ todo[p][i] = t[i - 1])
<1>1. PICK S : todo[p] \in Seq(S)
  BY ListFacts
<1>2. t \in Seq(S) /\ Len(t) = Len(todo[p]) - 1 /\ \A i \in 1..Len(t) : t[i] = todo[p][i + 1]
  BY <1>1, TailFresh DEF ListsRight
<1>3. DOMAIN todo[p] = 1..Len(todo[p]) /\ DOMAIN t = 1..Len(t) /\ Len(t) \in Nat /\ Len(todo[p]) \in Nat
  BY <1>1, <1>2
<1>4. Head(todo[p]) = todo[p][1]
  BY ListFacts
<1>5. Len(todo[p]) = Len(t) + 1
  BY <1>2, <1>3
<1>6. \A i \in DOMAIN t : i + 1 \in DOMAIN todo[p] /\ t[i] = todo[p][i + 1]
  BY <1>2, <1>3
<1>7. \A i \in DOMAIN todo[p] : i = 1 \/ (i - 1 \in DOMAIN t /\ todo[p][i] = t[i - 1])
  BY <1>2, <1>3
<1> QED BY <1>3, <1>4, <1>5, <1>6, <1>7

LEMMA SyncsTail ==
  ASSUME ListsRight, NEW p \in Threads, todo[p] # <<>>, NEW t, t = Tail(todo[p])
  PROVE  (SyncingList(t) => SyncingList(todo[p])) /\ (Marks(t) => Marks(todo[p]))
<1>1. \A i \in DOMAIN t : i + 1 \in DOMAIN todo[p] /\ t[i] = todo[p][i + 1]
  BY TailFacts
<1> QED BY <1>1 DEF SyncingList, Marks

\* A thread that no longer marks the version when it is done.
LEMMA SyncLeaves ==
  ASSUME SyncInv, NEW p \in Threads, Others(p), UNCHANGED <<dashboards, disk, meddled>>,
         ~ Marks(todo'[p]), SyncingList(todo'[p]) => SyncingList(todo[p])
  PROVE  SyncInv'
<1>1. Mine' = Mine
  BY DEF Mine, OfPlugin, Saved
<1> QED BY <1>1, SyncKept

\* A list that differs from k in its head only.
SameList(k, l) ==
  /\ DOMAIN l = DOMAIN k /\ Len(l) = Len(k) /\ 1 \in DOMAIN k
  /\ l[1].op = k[1].op /\ \A i \in DOMAIN k : i = 1 \/ l[i] = k[i]

LEMMA SameListRight ==
  ASSUME NEW k, NEW l, SameList(k, l)
  PROVE  /\ Marks(l) <=> Marks(k)
         /\ (Syncs(l[1]) => Syncs(k[1])) => (SyncingList(l) => SyncingList(k))
<1>1. \A i \in DOMAIN k : l[i].op = k[i].op
  BY DEF SameList
<1> QED BY <1>1 DEF SameList, Marks, SyncingList

LEMMA SameListSync ==
  ASSUME NEW k, NEW l, SameList(k, l), l[1].args = k[1].args, NEW m, NEW F, SyncRight(k, m, F)
  PROVE  SyncRight(l, m, F)
<1>1. \A i \in DOMAIN k : l[i].op = k[i].op /\ l[i].args = k[i].args
  BY DEF SameList
<1>2. DOMAIN l = DOMAIN k /\ Len(l) = Len(k)
  BY DEF SameList
<1>3. \A i \in DOMAIN l : l[i].op = "UpdatePluginSettingVersion" => i = Len(l)
  BY <1>1, <1>2 DEF SyncRight
<1>4. \A i \in DOMAIN l : l[i].op = "SaveDashboard" => l[i].args.data \in F /\ l[i].args.plugin
  BY <1>1, <1>2 DEF SyncRight
<1>5. \A i \in DOMAIN l : l[i].op = "DeleteDashboard" => \A f \in F : f.slug # l[i].args.slug
  BY <1>1, <1>2 DEF SyncRight
<1>6. \A f \in F :
       \/ \E d \in DOMAIN m : m[d].slug = f.slug /\ m[d].rev = f.rev
       \/ \E i \in DOMAIN l : l[i].op = "SaveDashboard" /\ l[i].args.data = f
  BY <1>1, <1>2 DEF SyncRight
<1>7. \A d \in DOMAIN m :
       \/ \E f \in F : f.slug = m[d].slug
       \/ \E i \in DOMAIN l : l[i].op = "DeleteDashboard" /\ l[i].args.slug = m[d].slug
  BY <1>1, <1>2 DEF SyncRight
<1> QED BY <1>3, <1>4, <1>5, <1>6, <1>7 DEF SyncRight

LEMMA HeadOnly ==
  ASSUME ListsRight, ListsRight', NEW p \in Threads, todo[p] # <<>>, todo'[p] # <<>>,
         Head(todo'[p]).op = Head(todo[p]).op, Len(todo'[p]) = Len(todo[p]),
         \A i \in 2..Len(todo[p]) : todo'[p][i] = todo[p][i]
  PROVE  SameList(todo[p], todo'[p]) /\ Head(todo'[p]) = todo'[p][1] /\ Head(todo[p]) = todo[p][1]
<1>1. PICK S : todo[p] \in Seq(S)
  BY ListFacts
<1>2. PICK R : todo' \in [Threads -> Seq(R)]
  BY DEF ListsRight
<1>3. DOMAIN todo[p] = 1..Len(todo[p]) /\ Len(todo[p]) \in Nat /\ Len(todo[p]) > 0
  BY <1>1, ListFacts
<1>4. DOMAIN todo'[p] = 1..Len(todo'[p])
  BY <1>2
<1>5. Head(todo'[p]) = todo'[p][1] /\ Head(todo[p]) = todo[p][1]
  OBVIOUS
<1> QED BY <1>3, <1>4, <1>5 DEF SameList

\* The transaction at the head of p's list begins.
LEMMA SyncBegins ==
  ASSUME SyncInv, ListsRight, NEW p \in Threads, NEW t, BeginStep(p, t), UNCHANGED <<dashboards, disk, meddled>>,
         At(p, "SaveDashboard") => t = dashboards,
         At(p, "DeleteDashboard") => t = WithSlug(dashboards, Args(p).slug)
  PROVE  SyncInv'
<1>1. SameList(todo[p], todo'[p]) /\ Head(todo'[p]) = todo'[p][1] /\ Head(todo[p]) = todo[p][1]
  BY HeadOnly DEF BeginStep
<1>2. todo'[p][1].args = todo[p][1].args /\ todo'[p][1].op = todo[p][1].op /\ todo'[p][1].seen = <<t>>
  BY <1>1 DEF BeginStep
<1>3. Mine' = Mine
  BY DEF Mine, OfPlugin, Saved
<1>4. SyncingList(todo'[p]) => SyncingList(todo[p])
  BY <1>1, <1>2, SameListRight DEF Syncs
<1>5. ASSUME ~ meddled, Marks(todo'[p])
      PROVE  SyncRight(todo'[p], Mine, Files[disk]) /\ SyncSeen(Head(todo'[p]), Mine)
  <2>1. SyncRight(todo[p], Mine, Files[disk])
    BY <1>1, <1>5, SameListRight DEF SyncInv
  <2>2. SyncRight(todo'[p], Mine, Files[disk])
    BY <1>1, <1>2, <2>1, SameListSync
  <2>3. todo'[p][1].seen[1] = t
    BY <1>2
  <2>4. DOMAIN Mine = OfPlugin(dashboards) /\ \A d \in DOMAIN Mine : Mine[d] = dashboards[d].data /\ d \in Saved(dashboards)
    BY DEF Mine, OfPlugin
  <2>5. ASSUME todo'[p][1].op = "SaveDashboard", NEW d \in DOMAIN Mine,
               d \in WithSlug(todo'[p][1].seen[1], todo'[p][1].args.data.slug)
        PROVE  Mine[d].slug = todo'[p][1].args.data.slug
    <3>1. t = dashboards
      BY <1>1, <1>2, <2>5 DEF At, BeginStep
    <3> QED BY <2>3, <2>4, <2>5, <3>1 DEF WithSlug
  <2>6. ASSUME todo'[p][1].op = "DeleteDashboard", NEW d \in DOMAIN Mine
        PROVE  d \in todo'[p][1].seen[1] <=> Mine[d].slug = todo'[p][1].args.slug
    <3>1. t = WithSlug(dashboards, todo[p][1].args.slug)
      BY <1>1, <1>2, <2>6 DEF At, Args, BeginStep
    <3> QED BY <1>2, <2>3, <2>4, <3>1 DEF WithSlug
  <2>7. SyncSeen(todo'[p][1], Mine)
    BY <2>5, <2>6 DEF SyncSeen
  <2> QED BY <1>1, <2>2, <2>7
<1> QED BY <1>3, <1>4, <1>5, SyncKept DEF BeginStep

\* A command that changes no dashboard is done.
LEMMA SyncDone ==
  ASSUME SyncInv, ListsRight, NEW p \in Threads, todo[p] # <<>>, Others(p), todo'[p] = Tail(todo[p]),
         ~ At(p, "SaveDashboard"), ~ At(p, "DeleteDashboard"), UNCHANGED <<dashboards, disk, meddled>>
  PROVE  SyncInv'
<1>1. Mine' = Mine
  BY DEF Mine, OfPlugin, Saved
<1>2. SyncingList(todo'[p]) => SyncingList(todo[p])
  BY SyncsTail
<1>3. ASSUME ~ meddled, Marks(todo'[p]) PROVE FALSE
  <2>1. Marks(todo[p])
    BY <1>3, SyncsTail
  <2>2. SyncRight(todo[p], Mine, Files[disk])
    BY <1>3, <2>1 DEF SyncInv
  <2>3. Tail(todo[p]) # <<>>
    BY <1>3, SyncsNothing
  <2>4. SyncCmd(Head(todo[p]))
    BY <2>3, Alone1
  <2>5. todo[p][1].op = "UpdatePluginSettingVersion"
    BY <2>4, ListFacts DEF SyncCmd, At
  <2>6. 1 \in DOMAIN todo[p] /\ (1 = Len(todo[p]) => DOMAIN Tail(todo[p]) = {})
    <3> DEFINE t == Tail(todo[p])
    <3>1. /\ DOMAIN todo[p] = 1..Len(todo[p]) /\ DOMAIN t = 1..Len(t)
          /\ Len(t) \in Nat /\ Len(todo[p]) = Len(t) + 1
      BY TailFacts
    <3> HIDE DEF t
    <3>2. 1 \in 1..(Len(t) + 1)
      BY <3>1
    <3>3. 1 = Len(todo[p]) => DOMAIN t = {}
      <4> SUFFICES ASSUME 1 = Len(todo[p]) PROVE DOMAIN t = {}
        OBVIOUS
      <4>1. Len(t) = 0
        BY <3>1
      <4> QED BY <3>1, <4>1
    <3>4. 1 \in DOMAIN todo[p]
      BY <3>1, <3>2
    <3> QED BY <3>3, <3>4 DEF t
  <2>7. 1 = Len(todo[p])
    BY <2>2, <2>5, <2>6 DEF SyncRight
  <2>8. DOMAIN Tail(todo[p]) = {}
    BY <2>6, <2>7
  <2> QED BY <1>3, <2>8 DEF Marks
<1>4. ~ meddled' => Mine' = Mine \/ SyncingList(todo[p])
  BY <1>1
<1>5. ~ meddled' /\ Marks(todo'[p]) => SyncRight(todo'[p], Mine', Files[disk]) /\ SyncSeen(Head(todo'[p]), Mine')
  BY <1>3
<1> QED BY <1>2, <1>4, <1>5, SyncKept

LEMMA SyncLocked ==
  ASSUME SyncInv, ListsRight, NEW p \in Threads, Locked(p)
  PROVE  SyncInv'
<1>1. /\ Others(p) /\ ListsRight' /\ todo[p] # <<>> /\ UNCHANGED <<dashboards, disk, meddled>>
      /\ \/ /\ todo'[p] # <<>> /\ Head(todo'[p]) = Retried(Head(todo[p]))
            /\ Len(todo'[p]) = Len(todo[p]) /\ \A i \in 2..Len(todo[p]) : todo'[p][i] = todo[p][i]
         \/ todo'[p] = <<>>
  BY LockedStep DEF Locked, rows, QuietStep
<1>2. CASE todo'[p] = <<>>
  BY <1>1, <1>2, SyncsNothing, SyncLeaves
<1>3. CASE /\ todo'[p] # <<>> /\ Head(todo'[p]) = Retried(Head(todo[p]))
           /\ Len(todo'[p]) = Len(todo[p]) /\ \A i \in 2..Len(todo[p]) : todo'[p][i] = todo[p][i]
  <2> DEFINE c == Head(todo[p])
  <2>1. CmdRight(c)
    BY <1>1, ListFacts
  <2> HIDE DEF c
  <2>2. /\ Retried(c).seen = <<>> /\ Retried(c).op = c.op
        /\ c.op # "SaveDashboard" => Retried(c).args = c.args
        /\ c.op = "SaveDashboard" => Retried(c).args.plugin = c.args.plugin
    BY <2>1, RetriedRight
  <2>3. c.op = "SaveDashboard" /\ c.args.plugin => Retried(c).args = c.args
    <3> SUFFICES ASSUME c.op = "SaveDashboard", c.args.plugin PROVE Retried(c).args = c.args
      OBVIOUS
    <3>1. c.args.id = 0 /\ DOMAIN c = {"op", "seen", "tries", "args"}
      BY <2>1 DEF CmdRight
    <3>2. Retried(c) = [c EXCEPT !.seen = <<>>, !.tries = @ + 1]
      BY <3>1 DEF Retried
    <3> QED BY <3>1, <3>2
  <2>4. SameList(todo[p], todo'[p]) /\ Head(todo'[p]) = todo'[p][1] /\ Head(todo[p]) = todo[p][1]
    BY <1>1, <1>3, <2>2, HeadOnly DEF c
  <2>5. todo'[p][1] = Retried(c) /\ todo[p][1] = c
    BY <1>3, <2>4 DEF c
  <2>6. SyncingList(todo'[p]) => SyncingList(todo[p])
    BY <2>2, <2>4, <2>5, SameListRight DEF Syncs
  <2>7. ASSUME ~ meddled, Marks(todo'[p])
        PROVE  SyncRight(todo'[p], Mine, Files[disk]) /\ SyncSeen(Head(todo'[p]), Mine)
    <3>1. SyncRight(todo[p], Mine, Files[disk])
      BY <2>4, <2>7, SameListRight DEF SyncInv
    <3>2. c.op = "SaveDashboard" => c.args.plugin
      BY <2>4, <2>5, <3>1 DEF SyncRight, SameList
    <3>3. todo'[p][1].args = todo[p][1].args
      BY <2>2, <2>3, <2>5, <3>2
    <3>4. SyncRight(todo'[p], Mine, Files[disk])
      BY <2>4, <3>1, <3>3, SameListSync
    <3> QED BY <2>2, <2>4, <2>5, <3>4 DEF SyncSeen
  <2>8. Mine' = Mine
    BY <1>1 DEF Mine, OfPlugin, Saved
  <2> QED BY <1>1, <2>6, <2>7, <2>8, SyncKept
<1> QED BY <1>1, <1>2, <1>3

LEMMA SyncReads ==
  ASSUME SyncInv, ListsRight, NEW p \in Threads,
         SaveRead(p) \/ DeleteRead(p) \/ ExpireRead(p) \/ AlertsRead(p) \/ StateRead(p)
  PROVE  SyncInv'
<1>1. UNCHANGED <<dashboards, disk, meddled>>
  BY DEF SaveRead, DeleteRead, ExpireRead, AlertsRead, StateRead, rows
<1>2. CASE SaveRead(p)
  <2>1. (QuietStep(p) /\ todo'[p] = <<>>) \/ (BeginStep(p, dashboards) /\ ~ At(p, "DeleteDashboard"))
    BY <1>2, SaveReadStep DEF SaveRead, Waits, At
  <2> QED BY <1>1, <2>1, SyncsNothing, SyncLeaves, SyncBegins DEF QuietStep
<1>3. CASE DeleteRead(p)
  <2>1. (QuietStep(p) /\ todo'[p] = <<>>) \/ (BeginStep(p, WithSlug(dashboards, Args(p).slug)) /\ ~ At(p, "SaveDashboard"))
    BY <1>3, DeleteReadStep DEF DeleteRead, Waits, At
  <2> QED BY <1>1, <2>1, SyncsNothing, SyncLeaves, SyncBegins DEF QuietStep
<1>4. CASE ExpireRead(p) \/ AlertsRead(p) \/ StateRead(p)
  <2>1. ~ At(p, "SaveDashboard") /\ ~ At(p, "DeleteDashboard")
    BY <1>4 DEF ExpireRead, AlertsRead, StateRead, Waits, At
  <2>2. (QuietStep(p) /\ todo'[p] = <<>>) \/ (\E t : BeginStep(p, t))
    BY <1>4, ExpireReadStep, AlertsReadStep, StateReadStep
  <2> QED BY <1>1, <2>1, <2>2, SyncsNothing, SyncLeaves, SyncBegins DEF QuietStep
<1> QED BY <1>2, <1>3, <1>4

LEMMA SyncValidate ==
  ASSUME SyncInv, ListsRight, NEW p \in Threads, validateDashboardAlerts(p)
  PROVE  SyncInv'
<1>1. /\ QuietStep(p) /\ ~ Args(p).plugin
      /\ todo'[p] = <<>> \/ todo'[p] = <<Cmd("SaveDashboard", Args(p))>>
      /\ UNCHANGED <<dashboards, disk, meddled>>
  BY ValidateStep DEF validateDashboardAlerts, rows
<1> DEFINE c == Cmd("SaveDashboard", Args(p))
<1>2. c.op = "SaveDashboard" /\ c.args = Args(p)
  BY DEF Cmd
<1> HIDE DEF c
<1>3. ~ Syncs(c) /\ c.op # "UpdatePluginSettingVersion"
  BY <1>1, <1>2 DEF Syncs, PluginOps
<1>4. ~ Marks(todo'[p]) /\ ~ SyncingList(todo'[p])
  BY <1>1, <1>3, SyncsNothing, SyncsOne DEF c
<1> QED BY <1>1, <1>4, SyncLeaves DEF QuietStep

LEMMA SyncSetting ==
  ASSUME SyncInv, ListsRight, NEW p \in Threads, UpdatePluginSetting(p)
  PROVE  SyncInv'
<1>1. todo[p] # <<>> /\ Head(todo[p]).op = "UpdatePluginSetting" /\ UNCHANGED <<dashboards, disk, meddled>>
  BY DEF UpdatePluginSetting, At
<1>2. SyncingList(todo[p])
  BY <1>1, HeadSyncs DEF Syncs, PluginOps
<1>3. Others(p)
  BY SettingStep DEF QuietStep
<1>4. CASE Then(p, <<>>)
  <2>1. todo'[p] = Tail(todo[p])
    BY <1>1, <1>4, AfterDone
  <2> QED BY <1>1, <1>3, <2>1, SyncDone DEF At
<1>5. CASE \E op \in {"syncPluginDashboards", "removePluginDashboards"} : Then(p, <<Cmd(op, [plugin |-> TRUE])>>)
  <2>1. PICK op \in {"syncPluginDashboards", "removePluginDashboards"} : Then(p, <<Cmd(op, [plugin |-> TRUE])>>)
    BY <1>5
  <2> DEFINE c == Cmd(op, [plugin |-> TRUE])
  <2>2. DOMAIN c = {"op", "seen", "tries", "args"} /\ c.op = op /\ c.seen = <<>>
    BY DEF Cmd
  <2> HIDE DEF c
  <2>3. CmdRight(c) /\ c.op # "UpdatePluginSettingVersion"
    BY <2>2 DEF CmdRight
  <2>4. ~ SyncCmd(Head(todo[p])) /\ Then(p, <<c>>)
    BY <1>1, <2>1 DEF SyncCmd, c
  <2>5. todo'[p] = <<c>>
    BY <1>1, <2>2, <2>3, <2>4, OneCmd, AfterThen
  <2>6. ~ Marks(todo'[p])
    BY <2>3, <2>5, SyncsOne
  <2> QED BY <1>1, <1>2, <1>3, <2>6, SyncLeaves
<1>6. Then(p, <<>>) \/ \E op \in {"syncPluginDashboards", "removePluginDashboards"} : Then(p, <<Cmd(op, [plugin |-> TRUE])>>)
  BY DEF UpdatePluginSetting
<1> QED BY <1>4, <1>5, <1>6

LEMMA SyncWrites ==
  ASSUME SyncInv, ListsRight, BasicInv, NEW p \in Threads,
         \/ ExpireWrite(p) \/ SaveAlerts(p) \/ SetAlertState(p) \/ PauseAlert(p) \/ UpdatePluginSettingVersion(p)
  PROVE  SyncInv'
<1>1. /\ todo[p] # <<>> /\ ~ At(p, "SaveDashboard") /\ ~ At(p, "DeleteDashboard")
      /\ Then(p, <<>>) /\ UNCHANGED <<dashboards, disk, meddled>>
  BY DEF ExpireWrite, SaveAlerts, SetAlertState, PauseAlert, UpdatePluginSettingVersion, Writes, At
<1>2. Others(p) /\ todo'[p] = Tail(todo[p])
  BY <1>1, AfterDone
<1> QED BY <1>1, <1>2, SyncDone

LEMMA SyncRestart ==
  ASSUME SyncInv, BasicInv, Restart
  PROVE  SyncInv'
<1> DEFINE c == Cmd("syncPluginDashboards", [plugin |-> TRUE])
<1>1. \A p \in Threads : todo'[p] = <<>> \/ (p = Boot /\ todo'[p] = <<c>>)
  BY DEF Restart, AtBoot
<1>2. c.op = "syncPluginDashboards"
  BY DEF Cmd
<1> HIDE DEF c
<1>3. \A p \in Threads : ~ Marks(todo'[p]) /\ (SyncingList(todo'[p]) => p = Boot)
  BY <1>1, <1>2, SyncsNothing, SyncsOne
<1> QED BY <1>3 DEF SyncInv, SyncingList, Syncs, Marks

LEMMA SyncRequest ==
  ASSUME SyncInv, BasicInv, NEW p \in Slots, Request(p)
  PROVE  SyncInv'
<1>1. PICK cmd : /\ CmdRight(cmd) /\ cmd.seen = <<>> /\ Arrives(p, cmd)
                 /\ cmd.op \notin {"SaveAlerts", "SaveDashboard", "UpdatePluginSettingVersion"}
                 /\ cmd.op \in {"validateDashboardAlerts", "DeleteDashboard"} => ~ cmd.args.plugin
  BY RequestStep
<1>2. /\ p \in Threads /\ ListsRight
      /\ Others(p) /\ todo'[p] = <<cmd>>
  BY <1>1, ArrivesStep DEF Threads, BasicInv, QuietStep
<1>3. UNCHANGED <<dashboards, disk>> /\ (meddled' = (meddled \/ (cmd.op \in PluginOps /\ Syncing # {})))
  BY <1>1 DEF Arrives, rows
<1>4. \A q \in Threads : SyncingList(todo[q]) => Syncing # {}
  BY DEF Syncing, SyncingList, Syncs
<1>5. SyncingList(todo'[p]) => cmd.op \in PluginOps
  BY <1>1, <1>2, SyncsOne DEF Syncs
<1>6. ~ Marks(todo'[p])
  BY <1>1, <1>2, SyncsOne
<1>7. SUFFICES ASSUME ~ meddled' PROVE SyncInv'
  BY DEF SyncInv
<1>8. ~ meddled /\ (cmd.op \in PluginOps => Syncing = {})
  BY <1>3, <1>7
<1>9. \A q \in Threads : q # p => todo'[q] = todo[q]
  BY <1>2 DEF Others
<1>10. \A q, r \in Threads : SyncingList(todo'[q]) /\ SyncingList(todo'[r]) => q = r
  <2> SUFFICES ASSUME NEW q \in Threads, NEW r \in Threads, SyncingList(todo'[q]), SyncingList(todo'[r]), q # r
               PROVE FALSE
    OBVIOUS
  <2>1. CASE q # p /\ r # p
    BY <1>8, <1>9, <2>1 DEF SyncInv
  <2>2. CASE q = p \/ r = p
    BY <1>4, <1>5, <1>8, <1>9, <2>2
  <2> QED BY <2>1, <2>2
<1>11. Mine' = Mine
  BY <1>3 DEF Mine, OfPlugin, Saved
<1>12. \A q \in Threads : Marks(todo'[q]) => SyncRight(todo'[q], Mine', Files'[disk']) /\ SyncSeen(Head(todo'[q]), Mine')
  BY <1>3, <1>6, <1>8, <1>9, <1>11 DEF SyncInv
<1> QED BY <1>10, <1>12 DEF SyncInv, SyncingList, Syncs, Marks, SyncRight, SyncSeen, WithSlug, Saved

TailOf(l, t) ==
  /\ Len(t) \in Nat /\ Len(l) = Len(t) + 1 /\ 1 \in DOMAIN l
  /\ \A i \in DOMAIN t : i \in Nat /\ i + 1 \in DOMAIN l /\ t[i] = l[i + 1]
  /\ \A i \in DOMAIN l : i = 1 \/ (i - 1 \in DOMAIN t /\ l[i] = t[i - 1])

LEMMA HeadIs == ASSUME NEW l PROVE Head(l) = l[1]
OBVIOUS

LEMMA TailIs ==
  ASSUME ListsRight, NEW p \in Threads, todo[p] # <<>>, NEW t, t = Tail(todo[p])
  PROVE  TailOf(todo[p], t) /\ (t # <<>> => Head(t).seen = <<>>)
<1>1. /\ DOMAIN todo[p] = 1..Len(todo[p]) /\ DOMAIN t = 1..Len(t)
      /\ Len(t) \in Nat /\ Len(todo[p]) = Len(t) + 1
      /\ \A i \in DOMAIN t : i + 1 \in DOMAIN todo[p] /\ t[i] = todo[p][i + 1]
      /\ \A i \in DOMAIN todo[p] : i = 1 \/ (i - 1 \in DOMAIN t /\ todo[p][i] = t[i - 1])
  BY TailFacts
<1>2. 1 \in DOMAIN todo[p]
  BY <1>1
<1>3. \A i \in DOMAIN t : i \in Nat
  BY <1>1
<1>4. PICK S : todo[p] \in Seq(S)
  BY ListFacts
<1>5. t \in Seq(S) /\ Fresh(t)
  BY <1>4, TailFresh DEF ListsRight
<1>6. t # <<>> => 1 \in 1..Len(t)
  BY <1>1, <1>5, EmptySeq
<1>7. Head(t) = t[1]
  BY HeadIs
<1> QED BY <1>1, <1>2, <1>3, <1>5, <1>6, <1>7 DEF TailOf, Fresh, Unbegun

\* What an import leaves to do.
LEMMA SyncSaved ==
  ASSUME NEW l, NEW t, NEW m, NEW n, NEW F, NEW d, NEW data,
         TailOf(l, t), SyncRight(l, m, F), l[1].op = "SaveDashboard", l[1].args.data = data,
         \A f, g \in F : f.slug = g.slug => f = g,
         DOMAIN n = DOMAIN m \cup {d}, n[d] = data, \A e \in DOMAIN m : e = d \/ n[e] = m[e],
         d \in DOMAIN m => m[d].slug = data.slug
  PROVE  SyncRight(t, n, F)
<1>1. data \in F
  BY DEF SyncRight, TailOf
<1>2. \A i \in DOMAIN t : t[i].op = "UpdatePluginSettingVersion" => i = Len(t)
  <2> SUFFICES ASSUME NEW i \in DOMAIN t, t[i].op = "UpdatePluginSettingVersion" PROVE i = Len(t)
    OBVIOUS
  <2>1. i + 1 = Len(l) /\ i \in Nat /\ Len(t) \in Nat /\ Len(l) = Len(t) + 1
    BY DEF SyncRight, TailOf
  <2> QED BY <2>1
<1>3. \A i \in DOMAIN t : t[i].op = "SaveDashboard" => t[i].args.data \in F /\ t[i].args.plugin
  BY DEF SyncRight, TailOf
<1>4. \A i \in DOMAIN t : t[i].op = "DeleteDashboard" => \A f \in F : f.slug # t[i].args.slug
  BY DEF SyncRight, TailOf
<1>5. ASSUME NEW f \in F
      PROVE  \/ \E e \in DOMAIN n : n[e].slug = f.slug /\ n[e].rev = f.rev
             \/ \E i \in DOMAIN t : t[i].op = "SaveDashboard" /\ t[i].args.data = f
  <2>1. CASE \E e \in DOMAIN m : m[e].slug = f.slug /\ m[e].rev = f.rev
    <3>1. PICK e \in DOMAIN m : m[e].slug = f.slug /\ m[e].rev = f.rev
      BY <2>1
    <3>2. e = d => n[d] = f
      BY <1>1, <3>1
    <3> QED BY <3>1, <3>2
  <2>2. CASE \E i \in DOMAIN l : l[i].op = "SaveDashboard" /\ l[i].args.data = f
    <3>1. PICK i \in DOMAIN l : l[i].op = "SaveDashboard" /\ l[i].args.data = f
      BY <2>2
    <3>2. CASE i = 1
      BY <3>1, <3>2
    <3>3. CASE i # 1
      BY <3>1, <3>3 DEF TailOf
    <3> QED BY <3>2, <3>3
  <2> QED BY <2>1, <2>2 DEF SyncRight
<1>6. ASSUME NEW e \in DOMAIN n
      PROVE  \/ \E f \in F : f.slug = n[e].slug
             \/ \E i \in DOMAIN t : t[i].op = "DeleteDashboard" /\ t[i].args.slug = n[e].slug
  <2>1. CASE e = d
    BY <1>1, <2>1
  <2>2. CASE e # d
    <3>1. e \in DOMAIN m /\ n[e] = m[e]
      BY <2>2
    <3>2. CASE \E f \in F : f.slug = m[e].slug
      BY <3>1, <3>2
    <3>3. CASE \E i \in DOMAIN l : l[i].op = "DeleteDashboard" /\ l[i].args.slug = m[e].slug
      <4>1. PICK i \in DOMAIN l : l[i].op = "DeleteDashboard" /\ l[i].args.slug = m[e].slug
        BY <3>3
      <4> QED BY <3>1, <4>1 DEF TailOf
    <3> QED BY <3>1, <3>2, <3>3 DEF SyncRight
  <2> QED BY <2>1, <2>2
<1> QED BY <1>2, <1>3, <1>4, <1>5, <1>6 DEF SyncRight

\* n is what deleting the rows gone, those of a slug, leaves of m.
Removes(m, n, gone, slug) ==
  /\ \A d \in DOMAIN m : d \in gone <=> m[d].slug = slug
  /\ DOMAIN n = DOMAIN m \ gone
  /\ \A d \in DOMAIN n : n[d] = m[d]

\* What a deletion leaves to do.
LEMMA SyncDeleted ==
  ASSUME NEW l, NEW t, NEW m, NEW n, NEW F, NEW gone, NEW slug,
         TailOf(l, t), SyncRight(l, m, F), l[1].op = "DeleteDashboard", l[1].args.slug = slug,
         Removes(m, n, gone, slug)
  PROVE  SyncRight(t, n, F)
<1> USE DEF Removes
<1>1. \A f \in F : f.slug # slug
  BY DEF SyncRight, TailOf
<1>2. \A i \in DOMAIN t : t[i].op = "UpdatePluginSettingVersion" => i = Len(t)
  <2> SUFFICES ASSUME NEW i \in DOMAIN t, t[i].op = "UpdatePluginSettingVersion" PROVE i = Len(t)
    OBVIOUS
  <2>1. i + 1 = Len(l) /\ i \in Nat /\ Len(t) \in Nat /\ Len(l) = Len(t) + 1
    BY DEF SyncRight, TailOf
  <2> QED BY <2>1
<1>3. \A i \in DOMAIN t : t[i].op = "SaveDashboard" => t[i].args.data \in F /\ t[i].args.plugin
  BY DEF SyncRight, TailOf
<1>4. \A i \in DOMAIN t : t[i].op = "DeleteDashboard" => \A f \in F : f.slug # t[i].args.slug
  BY DEF SyncRight, TailOf
<1>5. ASSUME NEW f \in F
      PROVE  \/ \E e \in DOMAIN n : n[e].slug = f.slug /\ n[e].rev = f.rev
             \/ \E i \in DOMAIN t : t[i].op = "SaveDashboard" /\ t[i].args.data = f
  <2>1. CASE \E e \in DOMAIN m : m[e].slug = f.slug /\ m[e].rev = f.rev
    <3>1. PICK e \in DOMAIN m : m[e].slug = f.slug /\ m[e].rev = f.rev
      BY <2>1
    <3>2. e \in DOMAIN n /\ n[e] = m[e]
      BY <1>1, <3>1
    <3> QED BY <3>1, <3>2
  <2>2. CASE \E i \in DOMAIN l : l[i].op = "SaveDashboard" /\ l[i].args.data = f
    <3>1. PICK i \in DOMAIN l : l[i].op = "SaveDashboard" /\ l[i].args.data = f
      BY <2>2
    <3>2. i # 1
      BY <3>1
    <3> QED BY <3>1, <3>2 DEF TailOf
  <2> QED BY <2>1, <2>2 DEF SyncRight
<1>6. ASSUME NEW e \in DOMAIN n
      PROVE  \/ \E f \in F : f.slug = n[e].slug
             \/ \E i \in DOMAIN t : t[i].op = "DeleteDashboard" /\ t[i].args.slug = n[e].slug
  <2>1. e \in DOMAIN m /\ n[e] = m[e] /\ m[e].slug # slug
    OBVIOUS
  <2>2. CASE \E f \in F : f.slug = m[e].slug
    BY <2>1, <2>2
  <2>3. CASE \E i \in DOMAIN l : l[i].op = "DeleteDashboard" /\ l[i].args.slug = m[e].slug
    <3>1. PICK i \in DOMAIN l : l[i].op = "DeleteDashboard" /\ l[i].args.slug = m[e].slug
      BY <2>3
    <3>2. i # 1
      BY <2>1, <3>1
    <3> QED BY <2>1, <3>1, <3>2 DEF TailOf
  <2> QED BY <2>1, <2>2, <2>3 DEF SyncRight
<1> QED BY <1>2, <1>3, <1>4, <1>5, <1>6 DEF SyncRight

LEMMA MineIs ==
  DOMAIN Mine = OfPlugin(dashboards) /\ \A d \in DOMAIN Mine : Mine[d] = dashboards[d].data
BY DEF Mine

LEMMA MineThen ==
  DOMAIN Mine' = OfPlugin(dashboards') /\ \A d \in DOMAIN Mine' : Mine'[d] = dashboards'[d].data
<1>1. Mine' = [d \in OfPlugin(dashboards') |-> dashboards'[d].data]
  BY DEF Mine, OfPlugin, Saved
<1> DEFINE m == Mine'
<1>2. m = [d \in OfPlugin(dashboards') |-> dashboards'[d].data]
  BY <1>1
<1> HIDE DEF m
<1>3. DOMAIN m = OfPlugin(dashboards') /\ \A d \in DOMAIN m : m[d] = dashboards'[d].data
  BY <1>2
<1> QED BY <1>3 DEF m

\* One row is written, of a dashboard of the plugin or of a user.
Imported(row) == row.plugin
KindKnown(row) == row.plugin \in BOOLEAN

LEMMA MineWith ==
  ASSUME NEW d \in DashIds, NEW row, KindKnown(row), row # NoRow, TableRight(dashboards),
         dashboards' = [dashboards EXCEPT ![d] = row]
  PROVE  /\ Imported(row) => /\ DOMAIN Mine' = DOMAIN Mine \cup {d} /\ Mine'[d] = row.data
                          /\ \A e \in DOMAIN Mine : e = d \/ Mine'[e] = Mine[e]
         /\ ~ Imported(row) /\ d \notin DOMAIN Mine => Mine' = Mine
<1> DEFINE m == Mine
           n == Mine'
<1>1. DOMAIN m = OfPlugin(dashboards) /\ \A e \in DOMAIN m : m[e] = dashboards[e].data
  BY MineIs
<1>2. DOMAIN n = OfPlugin(dashboards') /\ \A e \in DOMAIN n : n[e] = dashboards'[e].data
  BY MineThen
<1>3. m = [e \in OfPlugin(dashboards) |-> dashboards[e].data] /\ n = [e \in OfPlugin(dashboards') |-> dashboards'[e].data]
  BY DEF Mine, OfPlugin, Saved
<1> HIDE DEF m, n
<1>4. /\ \A e \in DashIds : e # d => dashboards'[e] = dashboards[e]
      /\ dashboards'[d] = row
  BY DEF TableRight
<1>5. \A e \in DashIds : e # d => (e \in OfPlugin(dashboards') <=> e \in OfPlugin(dashboards))
  BY <1>4 DEF OfPlugin, Saved, KindKnown
<1>6. d \in OfPlugin(dashboards') <=> row.plugin
  BY <1>4 DEF OfPlugin, Saved, KindKnown
<1>7. OfPlugin(dashboards) \subseteq DashIds /\ OfPlugin(dashboards') \subseteq DashIds
  BY DEF OfPlugin, Saved
<1>8. row.plugin => OfPlugin(dashboards') = OfPlugin(dashboards) \cup {d}
  BY <1>5, <1>6, <1>7
<1>9. row.plugin => /\ DOMAIN n = DOMAIN m \cup {d} /\ n[d] = row.data
                    /\ \A e \in DOMAIN m : e = d \/ n[e] = m[e]
  BY <1>1, <1>2, <1>4, <1>7, <1>8
<1>10. ~ row.plugin /\ d \notin DOMAIN m => n = m
  <2> SUFFICES ASSUME ~ row.plugin, d \notin DOMAIN m PROVE n = m
    OBVIOUS
  <2>1. OfPlugin(dashboards') = OfPlugin(dashboards)
    BY <1>1, <1>5, <1>6, <1>7
  <2>2. \A e \in OfPlugin(dashboards) : dashboards'[e].data = dashboards[e].data
    BY <1>1, <1>4, <1>7
  <2> QED BY <1>3, <2>1, <2>2
<1> QED BY <1>9, <1>10 DEF m, n, Imported

LEMMA SyncSaveWrite ==
  ASSUME SyncInv, BasicInv, NEW p \in Threads, SaveWrite(p)
  PROVE  SyncInv'
<1> DEFINE c == Args(p)
           t == Target(c, Seen(p))
           parent == Parent(c, Seen(p))
           d == IF t = 0 THEN lastDash + 1 ELSE t
           row == [version |-> parent + 1, data |-> c.data, plugin |-> c.plugin \/ (t # 0 /\ dashboards[t].plugin)]
<1>1. /\ QuietStep(p)
      /\ \/ ~ Writable(t, c, parent) /\ todo'[p] = <<>> /\ UNCHANGED <<rows, disturbed, meddled>>
         \/ /\ Writable(t, c, parent) /\ d \in DashIds
            /\ dashboards' = [dashboards EXCEPT ![d] = row]
            /\ IF c.plugin THEN Leftover(todo'[p]) /\ todo'[p] = Tail(todo[p])
                           ELSE todo'[p] = <<SaveAlertsCmd(d, c.data)>>
            /\ meddled' = (meddled \/ (~ c.plugin /\ t # 0 /\ dashboards[t].plugin))
  BY SaveWriteStep
<1>2. /\ ListsRight /\ todo[p] # <<>> /\ Head(todo[p]).op = "SaveDashboard" /\ Head(todo[p]).args = c
      /\ Head(todo[p]).seen # <<>> /\ Head(todo[p]).seen[1] = Seen(p)
      /\ At(p, "SaveDashboard") /\ Begun(p) /\ UNCHANGED disk
  BY DEF SaveWrite, Writes, At, Begun, BasicInv, Args, Seen
<1>3. CmdRight(Head(todo[p])) /\ Head(todo[p]) = todo[p][1]
  BY <1>2, ListFacts
<1>4. /\ c.plugin \in BOOLEAN /\ c.id \in {0} \cup DashIds /\ (c.plugin => c.id = 0)
      /\ TableRight(dashboards) /\ lastDash \in Nat /\ TableRight(Seen(p)) /\ (c.id # 0 => Seen(p)[c.id] # NoRow)
  BY <1>2, <1>3 DEF CmdRight, BasicInv, SaveRight
<1>5. \/ t = 0 /\ parent = 0
      \/ t \in DashIds /\ parent \in Nat \ {0}
  BY <1>4, TargetRight
<1>6. c.id = 0 => t = 0 \/ t \in WithSlug(Seen(p), c.data.slug)
  BY DEF Target
<1>7. Others(p)
  BY <1>1 DEF QuietStep
<1> HIDE DEF c, t, parent
<1>8. CASE ~ Writable(t, c, parent) /\ todo'[p] = <<>> /\ UNCHANGED <<rows, disturbed, meddled>>
  <2>1. UNCHANGED <<dashboards, disk, meddled>>
    BY <1>2, <1>8 DEF rows
  <2> QED BY <1>7, <1>8, <2>1, SyncsNothing, SyncLeaves
<1>9. CASE /\ Writable(t, c, parent) /\ d \in DashIds
           /\ dashboards' = [dashboards EXCEPT ![d] = row]
           /\ IF c.plugin THEN Leftover(todo'[p]) /\ todo'[p] = Tail(todo[p])
                          ELSE todo'[p] = <<SaveAlertsCmd(d, c.data)>>
           /\ meddled' = (meddled \/ (~ c.plugin /\ t # 0 /\ dashboards[t].plugin))
  <2>1. /\ t # 0 => d = t /\ dashboards[t] # NoRow /\ dashboards[t].plugin \in BOOLEAN
        /\ t = 0 => dashboards[d] = NoRow
    <3>1. t # 0 => d = t /\ dashboards[t] # NoRow
      BY <1>9 DEF Writable
    <3>2. t = 0 => d = lastDash + 1
      OBVIOUS
    <3>3. t = 0 => ~ (d <= lastDash)
      BY <1>4, <3>2
    <3> HIDE DEF d
    <3>4. t = 0 => dashboards[d] = NoRow
      BY <1>4, <1>9, <3>3 DEF TableRight
    <3> QED BY <1>4, <1>5, <3>1, <3>4 DEF TableRight, RowRight
  <2>2. row.plugin \in BOOLEAN /\ row.data = c.data /\ row.plugin = (c.plugin \/ (t # 0 /\ dashboards[t].plugin))
    BY <1>4, <2>1
  <2>3. row # NoRow
    <3>1. row.version = parent + 1 /\ parent \in Nat
      BY <1>5
    <3>2. NoRow.version = 0
      BY DEF NoRow
    <3> QED BY <3>1, <3>2
  <2> HIDE DEF row, d
  <2>4. /\ row.plugin => /\ DOMAIN Mine' = DOMAIN Mine \cup {d} /\ Mine'[d] = c.data
                         /\ \A e \in DOMAIN Mine : e = d \/ Mine'[e] = Mine[e]
        /\ ~ row.plugin /\ d \notin DOMAIN Mine => Mine' = Mine
    <3>1. d \in DashIds /\ dashboards' = [dashboards EXCEPT ![d] = row]
      BY <1>9
    <3>2. KindKnown(row) /\ row # NoRow /\ TableRight(dashboards)
      BY <1>4, <2>2, <2>3 DEF KindKnown
    <3>3. /\ Imported(row) => /\ DOMAIN Mine' = DOMAIN Mine \cup {d} /\ Mine'[d] = row.data
                              /\ \A e \in DOMAIN Mine : e = d \/ Mine'[e] = Mine[e]
          /\ ~ Imported(row) /\ d \notin DOMAIN Mine => Mine' = Mine
      BY <3>1, <3>2, MineWith
    <3> QED BY <2>2, <3>3 DEF Imported
  <2>5. t = 0 => d \notin DOMAIN Mine
    BY <2>1, MineIs DEF OfPlugin, Saved
  <2>6. t # 0 /\ ~ dashboards[t].plugin => d \notin DOMAIN Mine
    BY <2>1, MineIs DEF OfPlugin
  <2>7. CASE ~ c.plugin
    <3>1. todo'[p] = <<SaveAlertsCmd(d, c.data)>>
      BY <1>9, <2>7
    <3>2. ~ Syncs(SaveAlertsCmd(d, c.data)) /\ SaveAlertsCmd(d, c.data).op # "UpdatePluginSettingVersion"
      BY DEF SaveAlertsCmd, Cmd, Syncs, PluginOps
    <3>3. ~ SyncingList(todo'[p]) /\ ~ Marks(todo'[p])
      BY <3>1, <3>2, SyncsOne
    <3>4. ~ meddled' => Mine' = Mine
      BY <1>9, <2>1, <2>2, <2>4, <2>5, <2>6, <2>7
    <3>5. meddled => meddled'
      BY <1>9
    <3> QED BY <1>2, <1>7, <3>3, <3>4, <3>5, SyncKept
  <2>8. CASE c.plugin
    <3>1. todo'[p] = Tail(todo[p]) /\ (meddled => meddled')
      BY <1>9, <2>8
    <3>2. SyncingList(todo[p])
      BY <1>2, <2>8, HeadSyncs DEF Syncs
    <3>3. (SyncingList(todo'[p]) => SyncingList(todo[p])) /\ (Marks(todo'[p]) => Marks(todo[p]))
      BY <1>2, <3>1, SyncsTail
    <3>4. TailOf(todo[p], todo'[p]) /\ (todo'[p] # <<>> => Head(todo'[p]).seen = <<>>)
      BY <1>2, <3>1, TailIs
    <3>5. ASSUME ~ meddled', Marks(todo'[p])
          PROVE  SyncRight(todo'[p], Mine', Files[disk]) /\ SyncSeen(Head(todo'[p]), Mine')
      <4>1. SyncRight(todo[p], Mine, Files[disk]) /\ SyncSeen(Head(todo[p]), Mine)
        BY <3>1, <3>3, <3>5 DEF SyncInv
      <4>2. d \in DOMAIN Mine => Mine[d].slug = c.data.slug
        <5>1. d \in DOMAIN Mine => d \in WithSlug(Seen(p), c.data.slug)
          BY <1>4, <1>6, <2>1, <2>5, <2>8
        <5> QED BY <1>2, <4>1, <5>1 DEF SyncSeen
      <4>3. \A f, g \in Files[disk] : f.slug = g.slug => f = g
        <5>1. Files[disk] \in Range(Files)
          BY DEF BasicInv, Range
        <5> QED BY <5>1, FilesAssumption
      <4>4. /\ DOMAIN Mine' = DOMAIN Mine \cup {d} /\ Mine'[d] = c.data
            /\ \A e \in DOMAIN Mine : e = d \/ Mine'[e] = Mine[e]
        BY <2>2, <2>4, <2>8
      <4>5. SyncRight(todo'[p], Mine', Files[disk])
        BY <1>2, <1>3, <3>4, <4>1, <4>2, <4>3, <4>4, SyncSaved
      <4>6. SyncSeen(Head(todo'[p]), Mine')
        BY <3>4, <3>5, SyncsNothing DEF SyncSeen
      <4> QED BY <4>5, <4>6
    <3> QED BY <1>2, <1>7, <3>1, <3>2, <3>3, <3>5, SyncKept
  <2> QED BY <1>4, <2>7, <2>8
<1> QED BY <1>1, <1>8, <1>9

LEMMA SyncDeleteWrite ==
  ASSUME SyncInv, BasicInv, NEW p \in Threads, DeleteWrite(p)
  PROVE  SyncInv'
<1> DEFINE gone == Seen(p)
           m == Mine
           n == Mine'
<1>1. /\ ListsRight /\ todo[p] # <<>> /\ Head(todo[p]).op = "DeleteDashboard" /\ Head(todo[p]).args = Args(p)
      /\ Head(todo[p]).seen # <<>> /\ Head(todo[p]).seen[1] = gone
      /\ UNCHANGED disk /\ Head(todo[p]) = todo[p][1]
      /\ dashboards' = [d \in DashIds |-> IF d \in gone THEN NoRow ELSE dashboards[d]]
      /\ meddled' = (meddled \/ (~ Args(p).plugin /\ gone \cap OfPlugin(dashboards) # {}))
  BY ListFacts DEF DeleteWrite, Writes, At, Begun, BasicInv, Args, Seen
<1>2. QuietStep(p) /\ todo'[p] = Tail(todo[p]) /\ Others(p)
  BY BasicDeleteWrite DEF QuietStep
<1>3. DOMAIN m = OfPlugin(dashboards) /\ m = [d \in OfPlugin(dashboards) |-> dashboards[d].data]
  BY DEF Mine
<1>4. DOMAIN n = OfPlugin(dashboards') /\ n = [d \in OfPlugin(dashboards') |-> dashboards'[d].data]
  <2>1. n = [d \in OfPlugin(dashboards') |-> dashboards'[d].data]
    BY DEF Mine, OfPlugin, Saved
  <2> HIDE DEF n
  <2> QED BY <2>1
<1> HIDE DEF gone, m, n
<1>5. OfPlugin(dashboards') = OfPlugin(dashboards) \ gone
  BY <1>1 DEF OfPlugin, Saved
<1>6. \A d \in OfPlugin(dashboards') : d \in DashIds /\ dashboards'[d].data = dashboards[d].data
  BY <1>1, <1>5 DEF OfPlugin, Saved
<1>7. DOMAIN n = DOMAIN m \ gone /\ \A d \in DOMAIN n : n[d] = m[d]
  BY <1>3, <1>4, <1>5, <1>6
<1>8. meddled => meddled'
  BY <1>1
<1>9. (SyncingList(todo'[p]) => SyncingList(todo[p])) /\ (Marks(todo'[p]) => Marks(todo[p]))
  BY <1>1, <1>2, SyncsTail
<1>10. CASE ~ Args(p).plugin
  <2>1. ~ SyncCmd(Head(todo[p]))
    BY <1>1, <1>10 DEF SyncCmd
  <2>2. ~ Marks(todo'[p])
    BY <1>1, <1>2, <2>1, Alone1, SyncsNothing
  <2>3. ~ meddled' => n = m
    <3> SUFFICES ASSUME ~ meddled' PROVE n = m
      OBVIOUS
    <3>1. OfPlugin(dashboards') = OfPlugin(dashboards)
      BY <1>1, <1>5, <1>10
    <3> QED BY <1>3, <1>4, <1>6, <3>1
  <2> QED BY <1>1, <1>2, <1>8, <1>9, <2>2, <2>3, SyncKept DEF m, n
<1>11. CASE Args(p).plugin
  <2>1. SyncingList(todo[p])
    BY <1>1, <1>11, HeadSyncs DEF Syncs
  <2>2. TailOf(todo[p], todo'[p]) /\ (todo'[p] # <<>> => Head(todo'[p]).seen = <<>>)
    BY <1>1, <1>2, TailIs
  <2>3. ASSUME ~ meddled', Marks(todo'[p])
        PROVE  SyncRight(todo'[p], n, Files[disk]) /\ SyncSeen(Head(todo'[p]), n)
    <3>1. SyncRight(todo[p], m, Files[disk]) /\ SyncSeen(Head(todo[p]), m)
      BY <1>8, <1>9, <2>3 DEF SyncInv, m
    <3>2. \A d \in DOMAIN m : d \in gone <=> m[d].slug = Args(p).slug
      BY <1>1, <3>1 DEF SyncSeen
    <3>5. todo[p][1].op = "DeleteDashboard" /\ todo[p][1].args.slug = Args(p).slug
      BY <1>1
    <3>6. Removes(m, n, gone, Args(p).slug)
      BY <1>7, <3>2 DEF Removes
    <3>3. SyncRight(todo'[p], n, Files[disk])
      BY <2>2, <3>1, <3>5, <3>6, SyncDeleted
    <3>4. SyncSeen(Head(todo'[p]), n)
      BY <2>2, <2>3, SyncsNothing DEF SyncSeen
    <3> QED BY <3>3, <3>4
  <2> QED BY <1>1, <1>2, <1>8, <1>9, <2>1, <2>3, SyncKept DEF n
<1> QED BY <1>10, <1>11

\* The list of a sync: imports, deletions, and the mark.
Marked(x, a, b, c) ==
  /\ \A i \in DOMAIN x : \/ i \in DOMAIN a /\ x[i] = a[i]
                         \/ \E j \in DOMAIN b : x[i] = b[j]
                         \/ i = Len(x) /\ x[i] = c
  /\ \A i \in DOMAIN a : i \in DOMAIN x /\ x[i] = a[i]
  /\ \A j \in DOMAIN b : \E i \in DOMAIN x : x[i] = b[j]

LEMMA MarkedList ==
  ASSUME NEW S, NEW a \in Seq(S), NEW T, NEW b \in Seq(T), NEW c, NEW x, x = (a \o b) \o <<c>>
  PROVE  Marked(x, a, b, c)
<1> DEFINE U == S \cup T \cup {c}
           y == a \o b
           k == Len(a)
           l == Len(b)
<1>1. a \in Seq(U) /\ b \in Seq(U) /\ k \in Nat /\ l \in Nat /\ DOMAIN a = 1..k /\ DOMAIN b = 1..l
  OBVIOUS
<1>2. <<c>> \in Seq(U) /\ Len(<<c>>) = 1 /\ <<c>>[1] = c
  OBVIOUS
<1> HIDE DEF U
<1>3. /\ y \in Seq(U) /\ Len(y) = k + l
      /\ \A i \in 1..(k + l) : y[i] = IF i <= k THEN a[i] ELSE b[i - k]
  BY <1>1, ConcatProperties
<1> HIDE DEF y, k, l
<1> DEFINE o == <<c>>
<1>4. x = y \o o /\ o \in Seq(U) /\ Len(o) = 1 /\ o[1] = c
  BY <1>2 DEF y
<1> HIDE DEF o
<1>5. /\ x \in Seq(U) /\ Len(x) = k + l + 1
      /\ \A i \in 1..(k + l + 1) : x[i] = IF i <= k + l THEN y[i] ELSE o[i - (k + l)]
  <2> DEFINE z == y \o o
  <2>1. /\ z \in Seq(U) /\ Len(z) = Len(y) + Len(o)
        /\ \A i \in 1..(Len(y) + Len(o)) : z[i] = IF i <= Len(y) THEN y[i] ELSE o[i - Len(y)]
    BY <1>3, <1>4, ConcatProperties
  <2> QED BY <1>3, <1>4, <2>1
<1>6. DOMAIN x = 1..(k + l + 1) /\ DOMAIN x = 1..Len(x)
  BY <1>5
<1>7. x[k + l + 1] = c
  <2>1. k + l + 1 \in 1..(k + l + 1) /\ ~ (k + l + 1 <= k + l) /\ (k + l + 1) - (k + l) = 1
    BY <1>1
  <2> QED BY <1>4, <1>5, <2>1
<1>8. \A i \in 1..k : i \in DOMAIN x /\ x[i] = a[i]
  BY <1>1, <1>3, <1>5, <1>6
<1>9. \A j \in 1..l : k + j \in DOMAIN x /\ x[k + j] = b[j]
  <2> SUFFICES ASSUME NEW j \in 1..l PROVE k + j \in DOMAIN x /\ x[k + j] = b[j]
    OBVIOUS
  <2>1. k + j \in 1..(k + l) /\ k + j \in 1..(k + l + 1) /\ k + j <= k + l /\ ~ (k + j <= k) /\ (k + j) - k = j
    BY <1>1
  <2> QED BY <1>3, <1>5, <1>6, <2>1
<1>10. \A i \in DOMAIN x : i \in 1..k \/ i - k \in 1..l \/ i = k + l + 1
  <2> SUFFICES ASSUME NEW i \in 1..(k + l + 1) PROVE i \in 1..k \/ i - k \in 1..l \/ i = k + l + 1
    BY <1>6
  <2>1. k \in Nat /\ l \in Nat
    BY <1>1
  <2> QED BY <2>1
<1>11. ASSUME NEW i \in DOMAIN x
       PROVE  \/ i \in DOMAIN a /\ x[i] = a[i]
              \/ \E j \in DOMAIN b : x[i] = b[j]
              \/ i = Len(x) /\ x[i] = c
  <2>1. i - k \in 1..l => k + (i - k) = i
    BY <1>1, <1>6
  <2>2. i - k \in 1..l => x[i] = b[i - k]
    BY <1>9, <2>1
  <2> QED BY <1>1, <1>5, <1>7, <1>8, <1>10, <2>2
<1> QED BY <1>1, <1>8, <1>9, <1>11 DEF Marked

Mark == Cmd("UpdatePluginSettingVersion", [plugin |-> TRUE])

\* The imports of A, as they come in a list
ImportsAre(a, A) ==
  /\ \E S : a \in Seq(S)
  /\ \A i \in DOMAIN a : \E f \in A : a[i] = Import(f)
  /\ \A f \in A : \E i \in DOMAIN a : a[i] = Import(f)
DeletesAre(b, B) ==
  /\ \E S : b \in Seq(S)
  /\ \A i \in DOMAIN b : \E s \in B : b[i] = Delete(s)
  /\ \A s \in B : \E i \in DOMAIN b : b[i] = Delete(s)
ListDoes(x, A, B) ==
  /\ \A i \in DOMAIN x : (\E f \in A : x[i] = Import(f)) \/ (\E s \in B : x[i] = Delete(s)) \/ (i = Len(x) /\ x[i] = Mark)
  /\ \A f \in A : \E i \in DOMAIN x : x[i] = Import(f)
  /\ \A s \in B : \E i \in DOMAIN x : x[i] = Delete(s)

LEMMA ImportsListed ==
  ASSUME NEW A, IsFiniteSet(A)
  PROVE  ImportsAre([i \in DOMAIN SetToSeq(A) |-> Import(SetToSeq(A)[i])], A)
<1> DEFINE s == SetToSeq(A)
<1> DEFINE l == [i \in DOMAIN s |-> Import(s[i])]
<1> DEFINE n == Cardinality(A)
<1>1. s \in [1..n -> A] /\ n \in Nat /\ \A x \in A : \E i \in DOMAIN s : s[i] = x
  BY SetToSeqRight
<1> HIDE DEF s, n
<1>2. l = [i \in 1..n |-> Import(s[i])]
  BY <1>1
<1>3. l \in Seq({Import(s[i]) : i \in 1..n})
  BY <1>1, <1>2
<1>4. DOMAIN l = 1..n /\ DOMAIN s = 1..n /\ \A i \in DOMAIN l : l[i] = Import(s[i]) /\ s[i] \in A
  BY <1>1, <1>2
<1> HIDE DEF l
<1>5. ImportsAre(l, A)
  BY <1>1, <1>3, <1>4 DEF ImportsAre
<1> QED BY <1>5 DEF l, s

LEMMA DeletesListed ==
  ASSUME NEW B, IsFiniteSet(B)
  PROVE  DeletesAre([i \in DOMAIN SetToSeq(B) |-> Delete(SetToSeq(B)[i])], B)
<1> DEFINE s == SetToSeq(B)
<1> DEFINE l == [i \in DOMAIN s |-> Delete(s[i])]
<1> DEFINE n == Cardinality(B)
<1>1. s \in [1..n -> B] /\ n \in Nat /\ \A x \in B : \E i \in DOMAIN s : s[i] = x
  BY SetToSeqRight
<1> HIDE DEF s, n
<1>2. l = [i \in 1..n |-> Delete(s[i])]
  BY <1>1
<1>3. l \in Seq({Delete(s[i]) : i \in 1..n})
  BY <1>1, <1>2
<1>4. DOMAIN l = 1..n /\ DOMAIN s = 1..n /\ \A i \in DOMAIN l : l[i] = Delete(s[i]) /\ s[i] \in B
  BY <1>1, <1>2
<1> HIDE DEF l
<1>5. DeletesAre(l, B)
  BY <1>1, <1>3, <1>4 DEF DeletesAre
<1> QED BY <1>5 DEF l, s

LEMMA ListMade ==
  ASSUME NEW a, NEW b, NEW A, NEW B, ImportsAre(a, A), DeletesAre(b, B)
  PROVE  ListDoes((a \o b) \o <<Mark>>, A, B)
<1>1. PICK S : a \in Seq(S)
  BY DEF ImportsAre
<1>2. PICK T : b \in Seq(T)
  BY DEF DeletesAre
<1> DEFINE c == Mark
<1> HIDE DEF c
<1> DEFINE x == (a \o b) \o <<c>>
<1>3. x = (a \o b) \o <<c>>
  OBVIOUS
<1> HIDE DEF x
<1>9. Marked(x, a, b, c)
  BY <1>1, <1>2, <1>3, MarkedList
<1>4. /\ \A i \in DOMAIN x : \/ i \in DOMAIN a /\ x[i] = a[i]
                             \/ \E j \in DOMAIN b : x[i] = b[j]
                             \/ i = Len(x) /\ x[i] = c
      /\ \A i \in DOMAIN a : i \in DOMAIN x /\ x[i] = a[i]
      /\ \A j \in DOMAIN b : \E i \in DOMAIN x : x[i] = b[j]
  BY <1>9 DEF Marked
<1>5. \A i \in DOMAIN x : (\E f \in A : x[i] = Import(f)) \/ (\E s \in B : x[i] = Delete(s)) \/ (i = Len(x) /\ x[i] = c)
  <2> SUFFICES ASSUME NEW i \in DOMAIN x
               PROVE (\E f \in A : x[i] = Import(f)) \/ (\E s \in B : x[i] = Delete(s)) \/ (i = Len(x) /\ x[i] = c)
    OBVIOUS
  <2>1. CASE i \in DOMAIN a /\ x[i] = a[i]
    BY <2>1 DEF ImportsAre
  <2>2. CASE \E j \in DOMAIN b : x[i] = b[j]
    <3>1. PICK j \in DOMAIN b : x[i] = b[j]
      BY <2>2
    <3> QED BY <3>1 DEF DeletesAre
  <2> QED BY <1>4, <2>1, <2>2
<1>6. \A f \in A : \E i \in DOMAIN x : x[i] = Import(f)
  <2> SUFFICES ASSUME NEW f \in A PROVE \E i \in DOMAIN x : x[i] = Import(f)
    OBVIOUS
  <2>1. PICK i \in DOMAIN a : a[i] = Import(f)
    BY DEF ImportsAre
  <2> QED BY <1>4, <2>1
<1>7. \A s \in B : \E i \in DOMAIN x : x[i] = Delete(s)
  <2> SUFFICES ASSUME NEW s \in B PROVE \E i \in DOMAIN x : x[i] = Delete(s)
    OBVIOUS
  <2>1. PICK j \in DOMAIN b : b[j] = Delete(s)
    BY DEF DeletesAre
  <2> QED BY <1>4, <2>1
<1>8. ListDoes(x, A, B)
  BY <1>5, <1>6, <1>7 DEF ListDoes, c
<1> QED BY <1>8 DEF x, c

\* Such a list makes the dashboards m those of the files F.
LEMMA ListSyncs ==
  ASSUME NEW m, NEW F, NEW A, NEW B, NEW x, ListDoes(x, A, B),
         A = {f \in F : ~ \E d \in DOMAIN m : m[d].slug = f.slug /\ m[d].rev = f.rev},
         B = {m[d].slug : d \in {e \in DOMAIN m : \A f \in F : f.slug # m[e].slug}}
  PROVE  SyncRight(x, m, F)
<1>1. \A f : Import(f).op = "SaveDashboard" /\ Import(f).args.data = f /\ Import(f).args.plugin
  BY DEF Import, Cmd
<1>2. \A s : Delete(s).op = "DeleteDashboard" /\ Delete(s).args.slug = s
  BY DEF Delete, Cmd
<1>3. Mark.op = "UpdatePluginSettingVersion"
  BY DEF Mark, Cmd
<1>4. \A i \in DOMAIN x : x[i].op = "UpdatePluginSettingVersion" => i = Len(x)
  BY <1>1, <1>2 DEF ListDoes
<1>5. \A i \in DOMAIN x : x[i].op = "SaveDashboard" => x[i].args.data \in F /\ x[i].args.plugin
  BY <1>1, <1>2, <1>3 DEF ListDoes
<1>6. \A i \in DOMAIN x : x[i].op = "DeleteDashboard" => \A f \in F : f.slug # x[i].args.slug
  BY <1>1, <1>2, <1>3 DEF ListDoes
<1>7. \A f \in F :
       \/ \E d \in DOMAIN m : m[d].slug = f.slug /\ m[d].rev = f.rev
       \/ \E i \in DOMAIN x : x[i].op = "SaveDashboard" /\ x[i].args.data = f
  BY <1>1 DEF ListDoes
<1>8. \A d \in DOMAIN m :
       \/ \E f \in F : f.slug = m[d].slug
       \/ \E i \in DOMAIN x : x[i].op = "DeleteDashboard" /\ x[i].args.slug = m[d].slug
  <2> SUFFICES ASSUME NEW d \in DOMAIN m, \A f \in F : f.slug # m[d].slug
               PROVE  \E i \in DOMAIN x : x[i].op = "DeleteDashboard" /\ x[i].args.slug = m[d].slug
    OBVIOUS
  <2>1. m[d].slug \in B
    OBVIOUS
  <2>2. PICK i \in DOMAIN x : x[i] = Delete(m[d].slug)
    BY <2>1 DEF ListDoes
  <2> QED BY <1>2, <2>2
<1> QED BY <1>4, <1>5, <1>6, <1>7, <1>8 DEF SyncRight

LEMMA SyncPlugin ==
  ASSUME SyncInv, BasicInv, NEW p \in Threads, syncPluginDashboards(p)
  PROVE  SyncInv'
<1> DEFINE m == Mine
           F == Files[disk]
           mine == OfPlugin(dashboards)
           current(f) == \E d \in mine : dashboards[d].data.slug = f.slug /\ dashboards[d].data.rev = f.rev
           A == {f \in Files[disk] : ~ current(f)}
           D == {d \in mine : \A f \in Files[disk] : f.slug # dashboards[d].data.slug}
           B == {dashboards[d].data.slug : d \in D}
           a == [i \in DOMAIN SetToSeq(A) |-> Import(SetToSeq(A)[i])]
           b == [i \in DOMAIN SetToSeq(B) |-> Delete(SetToSeq(B)[i])]
           x == (a \o b) \o <<Mark>>
<1>1. Then(p, MarksLast(a, b))
  BY DEF syncPluginDashboards, SlugsOf
<1>2. MarksLast(a, b) = (a \o b) \o <<Mark>>
  <2> DEFINE o == <<Mark>>
  <2>1. MarksLast(a, b) = (a \o b) \o o
    <3> HIDE DEF a, b
    <3>1. \/ MarksLast(a, b) = (a \o b) \o o
          \/ MarksLast(a, b) = a \o (b \o o)
      BY DEF MarksLast, Mark
    <3> QED BY <3>1 DEF MarksLast, Mark
  <2> QED BY <2>1
<1>3. /\ todo[p] # <<>> /\ Head(todo[p]).op = "syncPluginDashboards" /\ ListsRight /\ QuietStep(p) /\ Leftover(todo'[p])
      /\ UNCHANGED <<dashboards, disk, meddled>> /\ disk \in DOMAIN Files
  BY SyncStep DEF syncPluginDashboards, At, BasicInv, rows
<1>4. D \in SUBSET DashIds /\ A \in SUBSET Files[disk]
  BY DEF OfPlugin, Saved
<1>5. IsFiniteSet(A) /\ IsFiniteSet(B)
  <2> HIDE DEF A, D
  <2> QED BY <1>3, <1>4, FilesFinite, SlugsFinite
<1>6. ImportsAre(a, A)
  <2> HIDE DEF A
  <2> QED BY <1>5, ImportsListed
<1>7. DeletesAre(b, B)
  <2> HIDE DEF B
  <2> QED BY <1>5, DeletesListed
<1>8. ListDoes(x, A, B)
  <2> HIDE DEF a, b, A, B
  <2> QED BY <1>6, <1>7, ListMade
<1>9. SyncRight(x, m, F)
  <2>1. DOMAIN m = mine /\ \A d \in mine : m[d] = dashboards[d].data
    BY MineIs
  <2> HIDE DEF x, m, mine
  <2>2. A = {f \in F : ~ \E d \in DOMAIN m : m[d].slug = f.slug /\ m[d].rev = f.rev}
    BY <2>1
  <2>3. B = {m[d].slug : d \in {e \in DOMAIN m : \A f \in F : f.slug # m[e].slug}}
    BY <2>1
  <2> HIDE DEF A, B, F
  <2> QED BY <1>8, <2>2, <2>3, ListSyncs
<1> HIDE DEF x, a, b, A, B, D, mine
<1>10. Fresh(x)
  <2>1. AllGood(a)
    BY <1>3, <1>4, FilesFinite, ImportsGood DEF a, A
  <2>2. AllGood(b)
    BY <1>3, <1>4, SlugsFinite, DeletesGood DEF b, B, D
  <2>3. AllGood(<<Mark>>)
    <3> DEFINE c == Mark
    <3>1. Good(c)
      BY GoodMark DEF Mark
    <3> HIDE DEF c
    <3> DEFINE one == <<c>>
    <3>2. one \in Seq({c}) /\ Len(one) = 1 /\ one[1] = c
      OBVIOUS
    <3> HIDE DEF one
    <3>3. AllGood(one)
      BY <3>1, <3>2 DEF AllGood
    <3> QED BY <3>3 DEF c, one
  <2> QED BY <2>1, <2>2, <2>3, GoodConcat, GoodFresh DEF x
<1>11. ~ SyncCmd(Head(todo[p])) /\ Then(p, x)
  BY <1>1, <1>2, <1>3 DEF SyncCmd, x
<1>12. todo'[p] = x
  BY <1>3, <1>10, <1>11, AfterThen
<1>13. SyncingList(todo[p])
  BY <1>3, HeadSyncs DEF Syncs, PluginOps
<1>14. Mine' = Mine
  BY <1>3 DEF Mine, OfPlugin, Saved
<1>15. x # <<>> => SyncSeen(Head(x), m)
  <2>1. x # <<>> => Head(x).seen = <<>>
    <3>1. PICK S : x \in Seq(S)
      BY <1>10 DEF Fresh
    <3>2. x # <<>> => 1 \in 1..Len(x)
      BY <3>1, EmptySeq
    <3> QED BY <1>10, <3>2, HeadIs DEF Fresh, Unbegun
  <2> QED BY <2>1 DEF SyncSeen
<1>16. Marks(x) => x # <<>>
  BY SyncsNothing
<1>17. Others(p)
  BY <1>3 DEF QuietStep
<1> QED BY <1>3, <1>9, <1>12, <1>13, <1>14, <1>15, <1>16, <1>17, SyncKept

LEMMA SyncRemove ==
  ASSUME SyncInv, BasicInv, NEW p \in Threads, removePluginDashboards(p)
  PROVE  SyncInv'
<1> DEFINE W == {dashboards[d].data.slug : d \in OfPlugin(dashboards)}
           l == [i \in DOMAIN SetToSeq(W) |-> Delete(SetToSeq(W)[i])]
<1>1. Then(p, l)
  BY DEF removePluginDashboards, SlugsOf
<1>2. /\ todo[p] # <<>> /\ Head(todo[p]).op = "removePluginDashboards" /\ ListsRight /\ QuietStep(p)
      /\ UNCHANGED <<dashboards, disk, meddled>>
  BY SyncStep DEF removePluginDashboards, At, BasicInv, rows
<1>3. IsFiniteSet(W)
  BY SlugsFinite DEF OfPlugin, Saved
<1> HIDE DEF W
<1>4. AllGood(l) /\ DeletesAre(l, W)
  BY <1>3, DeletesGood, DeletesListed
<1> HIDE DEF l
<1>5. ~ SyncCmd(Head(todo[p])) /\ Fresh(l)
  BY <1>2, <1>4, GoodFresh DEF SyncCmd
<1>6. todo'[p] = l
  BY <1>1, <1>2, <1>5, AfterThen
<1>7. \A s : Delete(s).op = "DeleteDashboard"
  BY DEF Delete, Cmd
<1>8. ~ Marks(l)
  BY <1>4, <1>7 DEF Marks, DeletesAre
<1>9. SyncingList(todo[p])
  BY <1>2, HeadSyncs DEF Syncs, PluginOps
<1> QED BY <1>2, <1>6, <1>8, <1>9, SyncLeaves DEF QuietStep

LEMMA SyncStart == DashboardsInit => SyncInv
<1> SUFFICES ASSUME DashboardsInit PROVE SyncInv
  OBVIOUS
<1>1. \A p \in Threads : todo[p] = <<>>
  BY DEF DashboardsInit
<1> QED BY <1>1, SyncsNothing DEF SyncInv

LEMMA SyncNext == BasicInv /\ SyncInv /\ [DashboardsNext]_dashboardsVars => SyncInv'
<1> SUFFICES ASSUME BasicInv, SyncInv, [DashboardsNext]_dashboardsVars PROVE SyncInv'
  OBVIOUS
<1>1. ListsRight
  BY DEF BasicInv
<1>2. CASE UNCHANGED dashboardsVars
  <2>1. UNCHANGED <<dashboards, todo, disk, meddled>>
    BY <1>2 DEF dashboardsVars, rows
  <2>2. Mine' = Mine
    BY <2>1 DEF Mine, OfPlugin, Saved
  <2>3. \A q \in Threads : Marks(todo'[q]) /\ ~ meddled' => SyncRight(todo'[q], Mine', Files'[disk']) /\ SyncSeen(Head(todo'[q]), Mine')
    BY <2>1, <2>2 DEF SyncInv
  <2>4. ~ meddled' => \A q, r \in Threads : SyncingList(todo'[q]) /\ SyncingList(todo'[r]) => q = r
    BY <2>1 DEF SyncInv
  <2> QED BY <2>3, <2>4 DEF SyncInv, SyncingList, Syncs, Marks, SyncRight, SyncSeen, WithSlug, Saved
<1>3. CASE DashboardsNext
  BY <1>1, <1>3, SyncRestart, SyncReads, SyncSaveWrite, SyncDeleteWrite, SyncWrites, SyncLocked, SyncSetting,
     SyncValidate, SyncPlugin, SyncRemove, SyncRequest DEF DashboardsNext, Store, Handler
<1> QED BY <1>2, <1>3

LEMMA DashboardsSynced == DashboardsSpec => [](BasicInv /\ SyncInv)
<1>1. DashboardsInit => BasicInv /\ SyncInv
  BY BasicStart, SyncStart
<1>2. (BasicInv /\ SyncInv) /\ [DashboardsNext]_dashboardsVars => (BasicInv /\ SyncInv)'
  BY BasicNext, SyncNext
<1> QED BY <1>1, <1>2, PTL DEF DashboardsSpec

LEMMA MarksWhenSynced ==
  ASSUME BasicInv, SyncInv, NEW p \in Threads, UpdatePluginSettingVersion(p), ~ meddled
  PROVE  /\ \A f \in Files[disk] : \E d \in OfPlugin(dashboards) :
               dashboards[d].data.slug = f.slug /\ dashboards[d].data.rev = f.rev
         /\ \A d \in OfPlugin(dashboards) : \E f \in Files[disk] : f.slug = dashboards[d].data.slug
<1>1. todo[p] # <<>> /\ Head(todo[p]).op = "UpdatePluginSettingVersion" /\ ListsRight
  BY DEF UpdatePluginSettingVersion, At, BasicInv
<1>2. PICK S : todo[p] \in Seq(S)
  BY <1>1, ListFacts
<1>3. /\ DOMAIN todo[p] = 1..Len(todo[p]) /\ Len(todo[p]) \in Nat /\ Len(todo[p]) > 0
      /\ Head(todo[p]) = todo[p][1]
  BY <1>1, <1>2, ListFacts
<1>4. 1 \in DOMAIN todo[p] /\ todo[p][1].op = "UpdatePluginSettingVersion"
  BY <1>1, <1>3
<1>5. SyncRight(todo[p], Mine, Files[disk])
  BY <1>4 DEF SyncInv, Marks
<1>6. DOMAIN todo[p] = {1}
  BY <1>3, <1>4, <1>5 DEF SyncRight
<1>7. \A i \in DOMAIN todo[p] : todo[p][i].op = "UpdatePluginSettingVersion"
  BY <1>4, <1>6
<1>8. \A f \in Files[disk] : \E d \in DOMAIN Mine : Mine[d].slug = f.slug /\ Mine[d].rev = f.rev
  BY <1>5, <1>7 DEF SyncRight
<1>9. \A d \in DOMAIN Mine : \E f \in Files[disk] : f.slug = Mine[d].slug
  BY <1>5, <1>7 DEF SyncRight
<1> QED BY <1>8, <1>9, MineIs

\* MarkedMeansSynced: when a plugin's version is marked as processed, its
\* dashboards are those of that version, through crashes, retries and errors.
THEOREM MarkedAreSynced == DashboardsSpec => MarkedMeansSynced
<1> DEFINE Right == \A p \in Threads : UpdatePluginSettingVersion(p) /\ ~ meddled =>
             LET has(f) == \E d \in OfPlugin(dashboards) :
                   dashboards[d].data.slug = f.slug /\ dashboards[d].data.rev = f.rev
             IN /\ \A f \in Files[disk] : has(f)
                /\ \A d \in OfPlugin(dashboards) : \E f \in Files[disk] : f.slug = dashboards[d].data.slug
<1>1. BasicInv /\ SyncInv => [Right]_dashboardsVars
  BY MarksWhenSynced
<1>2. DashboardsSpec => [][Right]_dashboardsVars
  BY <1>1, DashboardsSynced, PTL
<1> QED BY <1>2 DEF MarkedMeansSynced

\* SavesKeep: the three together, as the run checks them.
THEOREM AllIsKept == DashboardsSpec => SavesKeep
BY VersionsAreKept, StatesSurvive, MarkedAreSynced DEF SavesKeep
=============================================================================
