---------------------------- MODULE KeepingProofs ----------------------------
(***************************************************************************)
(* Theorems about Outlets, for any number of goroutines, lines, days,      *)
(* counters, avatars and faults, and about Contents, for any number of     *)
(* requests, annotations, tags, playlists and users.                       *)
(***************************************************************************)
EXTENDS Contents, Outlets, FiniteSetTheorems, SequenceTheorems, WellFoundedInduction, TLAPS

\* A set of numbers that is not empty has a least one.
LEMMA LeastNumber ==
  ASSUME NEW T, T \subseteq Nat, T # {}
  PROVE  \E n \in T : \A k \in T : n <= k
<1>1. IsWellFoundedOn(OpToRel(<, Nat), Nat)
  BY NatLessThanWellFounded
<1>2. PICK n \in T : \A k \in T : ~ (<<k, n>> \in OpToRel(<, Nat))
  BY <1>1, WFMin
<1>3. \A k \in T : ~(k < n)
  BY <1>2 DEF OpToRel
<1> QED BY <1>3

(***************************************************************************)
(* The log file.                                                           *)
(***************************************************************************)
Writers == { c \in Clients : client[c].at = "write" }

Limit == MaxLines + Cardinality(Clients) - 1

FilesTyped ==
  /\ DOMAIN files \subseteq {Current} \cup (Nat \X (1 .. MaxNum))
  /\ \A n \in DOMAIN files : IsFiniteSet(files[n].lines) /\ files[n].day \in Nat

\* A line that is not yet too old is in a file that is not younger than it.
LinesHeld ==
  \A l \in lines :
    /\ l.day \in Nat /\ l.day <= day
    /\ l.day + KeepDays >= day =>
         \E n \in DOMAIN files : l.id \in files[n].lines /\ files[n].day >= l.day

\* An open descriptor is that of a file, and not of one that is about to be deleted.
Opened ==
  fdOpen => Current \in DOMAIN files /\ (tidying => files[Current].day = day)

\* What is written and what has been checked may exceed what was counted by as
\* many lines as there are other goroutines.
Checked ==
  ~ranOut =>
    /\ \A n \in DOMAIN files : Cardinality(files[n].lines) <= Limit
    /\ fdOpen =>
         /\ Cardinality(files[Current].lines) + Cardinality(Writers) <= Limit
         /\ Cardinality(files[Current].lines) + Cardinality(Writers)
              <= curLines + Cardinality(Clients) - 1

LogRight ==
  /\ day \in Nat /\ curLines \in Nat /\ DOMAIN client = Clients
  /\ FilesTyped /\ LinesHeld /\ Opened /\ Checked

LEMMA Counting ==
  /\ Cardinality(Clients) \in Nat \ {0} /\ Limit \in Nat
  /\ IsFiniteSet(Writers) /\ Cardinality(Writers) \in Nat /\ Cardinality(Writers) <= Cardinality(Clients)
<1>1. IsFiniteSet(Clients) /\ Clients # {} /\ Cardinality(Clients) \in Nat
  BY OutletsAssumption, FS_CardinalityType
<1>2. Cardinality(Clients) # 0
  BY <1>1, FS_EmptySet
<1>3. IsFiniteSet(Writers) /\ Cardinality(Writers) <= Cardinality(Clients)
  BY <1>1, FS_Subset DEF Writers
<1>4. Cardinality(Writers) \in Nat
  BY <1>3, FS_CardinalityType
<1> QED BY <1>1, <1>2, <1>3, <1>4, OutletsAssumption DEF Limit

\* The number of a rotated file is free.
LEMMA FreeNumberIsFree ==
  ASSUME NEW names, <<day, MaxNum + 1>> \notin names
  PROVE  FreeNumber(names) \in 1 .. (MaxNum + 1) /\ <<day, FreeNumber(names)>> \notin names
<1> DEFINE T == { n \in 1 .. (MaxNum + 1) : <<day, n>> \notin names }
<1>1. MaxNum \in Nat
  BY OutletsAssumption
<1>2. T \subseteq Nat /\ T # {}
  BY <1>1
<1>3. PICK n \in T : \A k \in T : n <= k
  BY <1>2, LeastNumber
<1>4. \A k \in 1 .. (n - 1) : <<day, k>> \in names
  <2> SUFFICES ASSUME NEW k \in 1 .. (n - 1) PROVE k \notin T
    BY <1>1, <1>3
  <2> QED BY <1>3
<1>5. \E m \in 1 .. (MaxNum + 1) : <<day, m>> \notin names /\ \A k \in 1 .. (m - 1) : <<day, k>> \in names
  BY <1>3, <1>4
<1> QED BY <1>5 DEF FreeNumber

\* A step that leaves the log alone, and no goroutine about to write that was not before.
LEMMA LogStays ==
  ASSUME LogRight, UNCHANGED <<day, logs>>, DOMAIN client' = Clients,
         \A c \in Clients : client'[c].at = "write" => client[c].at = "write"
  PROVE  LogRight'
<1>1. Writers' \subseteq Writers
  BY DEF Writers
<1>2. IsFiniteSet(Writers') /\ Cardinality(Writers') <= Cardinality(Writers) /\ Cardinality(Writers') \in Nat
  BY <1>1, Counting, FS_Subset, FS_CardinalityType
<1>3. Checked'
  <2> SUFFICES ASSUME ~ranOut'
               PROVE  /\ \A n \in DOMAIN files' : Cardinality(files'[n].lines) <= Limit
                      /\ fdOpen' =>
                           /\ Cardinality(files'[Current].lines) + Cardinality(Writers') <= Limit
                           /\ Cardinality(files'[Current].lines) + Cardinality(Writers')
                                <= curLines' + Cardinality(Clients) - 1
    BY DEF Checked, Limit
  <2>1. files' = files /\ ranOut' = ranOut /\ fdOpen' = fdOpen /\ curLines' = curLines
    BY DEF logs
  <2>2. CASE fdOpen
    <3>1. IsFiniteSet(files[Current].lines)
      BY <2>2 DEF LogRight, Opened, FilesTyped
    <3>2. Cardinality(files[Current].lines) \in Nat
      BY <3>1, FS_CardinalityType
    <3> QED BY <1>2, <2>1, <2>2, <3>2, Counting DEF LogRight, Checked
  <2>3. CASE ~fdOpen
    BY <2>1, <2>3 DEF LogRight, Checked
  <2> QED BY <2>2, <2>3
<1>4. FilesTyped' /\ LinesHeld' /\ Opened'
  BY DEF logs, LogRight, FilesTyped, LinesHeld, Opened, Current
<1> QED BY <1>3, <1>4 DEF logs, LogRight

\* What a rotation does.
LEMMA RotationCases ==
  ASSUME LogRight, NEW outcome, DoRotate(outcome)
  PROVE  \/ /\ outcome = "done" /\ Current \notin DOMAIN files
            /\ curLines' = curLines + 1 /\ UNCHANGED <<files, fdOpen, openDate, tidying>>
         \/ outcome = "no number" /\ UNCHANGED <<files, fdOpen, openDate, curLines, tidying>>
         \/ outcome = "not renamed" /\ fdOpen' = FALSE /\ UNCHANGED <<files, openDate, curLines, tidying>>
         \/ \E new \in Nat \X (1 .. MaxNum) :
              /\ Current \in DOMAIN files /\ new \notin DOMAIN files /\ new # Current
              /\ \/ /\ outcome = "not opened"
                    /\ files' = Renamed(new) /\ fdOpen' = FALSE /\ UNCHANGED <<openDate, curLines, tidying>>
                 \/ /\ outcome = "done"
                    /\ files' = WithCurrent(Renamed(new)) /\ tidying' = TRUE
                    /\ fdOpen' = TRUE /\ openDate' = day /\ curLines' = 1
<1> DEFINE n == FreeNumber(DOMAIN files)
<1>1. n \in 1 .. (MaxNum + 1) /\ <<day, n>> \notin DOMAIN files
  <2>1. <<day, MaxNum + 1>> \notin DOMAIN files
    BY OutletsAssumption DEF LogRight, FilesTyped, Current
  <2> QED BY <2>1, FreeNumberIsFree
<1>2. CASE Current \notin DOMAIN files
  BY <1>2 DEF DoRotate
<1>3. CASE Current \in DOMAIN files /\ n > MaxNum
  BY <1>3 DEF DoRotate
<1>4. CASE Current \in DOMAIN files /\ ~(n > MaxNum)
  <2>1. /\ <<day, n>> \in Nat \X (1 .. MaxNum) /\ <<day, n>> \notin DOMAIN files /\ <<day, n>> # Current
    BY <1>1, <1>4, OutletsAssumption DEF LogRight
  <2>2. \/ /\ outcome = "not renamed"
           /\ fdOpen' = FALSE /\ UNCHANGED <<files, openDate, curLines, tidying>>
        \/ /\ outcome = "not opened"
           /\ files' = Renamed(<<day, n>>) /\ fdOpen' = FALSE /\ UNCHANGED <<openDate, curLines, tidying>>
        \/ /\ outcome = "done"
           /\ files' = WithCurrent(Renamed(<<day, n>>)) /\ tidying' = TRUE
           /\ fdOpen' = TRUE /\ openDate' = day /\ curLines' = 1
    BY <1>4 DEF DoRotate
  <2> QED BY <1>4, <2>1, <2>2
<1> QED BY <1>2, <1>3, <1>4

LEMMA DocheckLog ==
  ASSUME LogRight, NEW c \in Clients, NEW outcome, docheck(c, outcome)
  PROVE  LogRight'
<1>1. /\ client' = [client EXCEPT ![c] = [at |-> "write", line |-> uses]] /\ client[c].at = "idle"
      /\ ranOut' = (ranOut \/ outcome = "no number")
      /\ day' = day /\ lines' = lines
  BY DEF docheck, GoesOn, Free
<1>2. /\ Writers' = Writers \cup {c} /\ c \notin Writers /\ DOMAIN client' = Clients
  <2>1. /\ DOMAIN client' = Clients /\ client'[c].at = "write"
        /\ \A e \in Clients \ {c} : client'[e] = client[e]
    BY <1>1 DEF LogRight
  <2> QED BY <1>1, <2>1 DEF Writers
<1>3. /\ IsFiniteSet(Writers') /\ Cardinality(Writers') = Cardinality(Writers) + 1
      /\ Cardinality(Writers') <= Cardinality(Clients) /\ Cardinality(Writers') \in Nat
  <2>1. IsFiniteSet(Writers') /\ Cardinality(Writers') = Cardinality(Writers) + 1
    BY <1>2, Counting, FS_AddElement
  <2>2. Writers' \subseteq Clients
    BY DEF Writers
  <2> QED BY <2>1, <2>2, OutletsAssumption, FS_Subset, FS_CardinalityType
<1>4. ASSUME \/ ~fdOpen' \/ ranOut'
             \/ /\ UNCHANGED <<fdOpen, files>> /\ curLines' = curLines + 1 /\ curLines < MaxLines
             \/ /\ files'[Current].lines = {} /\ curLines' = 1,
             ~ranOut' => \A n \in DOMAIN files' : Cardinality(files'[n].lines) <= Limit
      PROVE  Checked'
  <2> SUFFICES ASSUME ~ranOut', fdOpen'
               PROVE  /\ Cardinality(files'[Current].lines) + Cardinality(Writers') <= Limit
                      /\ Cardinality(files'[Current].lines) + Cardinality(Writers')
                           <= curLines' + Cardinality(Clients) - 1
    BY <1>4 DEF Checked, Limit
  <2>1. CASE UNCHANGED <<fdOpen, files>> /\ curLines' = curLines + 1 /\ curLines < MaxLines
    <3>1. ~ranOut /\ fdOpen
      BY <1>1, <2>1 DEF LogRight
    <3>2. Cardinality(files[Current].lines) \in Nat
      BY <3>1, FS_CardinalityType DEF LogRight, Opened, FilesTyped
    <3>3. Cardinality(files[Current].lines) + Cardinality(Writers) <= curLines + Cardinality(Clients) - 1
      BY <3>1 DEF LogRight, Checked
    <3>4. curLines \in Nat /\ MaxLines \in Nat
      BY OutletsAssumption DEF LogRight
    <3> QED BY <1>3, <2>1, <3>2, <3>3, <3>4, Counting DEF Limit
  <2>2. CASE files'[Current].lines = {} /\ curLines' = 1
    <3>1. Cardinality(files'[Current].lines) = 0
      BY <2>2, FS_EmptySet
    <3> QED BY <1>3, <2>2, <3>1, Counting, OutletsAssumption DEF Limit
  <2> QED BY <1>4, <2>1, <2>2
<1>5. CASE ~(curLines >= MaxLines \/ openDate # day)
  <2>1. outcome = "done" /\ curLines' = curLines + 1 /\ UNCHANGED <<files, fdOpen, openDate, tidying>>
    BY <1>5 DEF docheck
  <2>2. curLines \in Nat /\ MaxLines \in Nat /\ (~ranOut' => ~ranOut)
    BY <1>1, <2>1, OutletsAssumption DEF LogRight
  <2>3. Checked'
    BY <1>4, <1>5, <2>1, <2>2 DEF LogRight, Checked
  <2>4. FilesTyped' /\ LinesHeld' /\ Opened'
    BY <1>1, <2>1 DEF LogRight, FilesTyped, LinesHeld, Opened, Current
  <2> QED BY <1>1, <1>2, <2>1, <2>2, <2>3, <2>4 DEF LogRight
<1>6. ASSUME DoRotate(outcome) PROVE LogRight'
  <2>1. CASE UNCHANGED <<files, tidying>> /\ (fdOpen' = FALSE \/ fdOpen' = fdOpen)
             /\ curLines' \in {curLines, curLines + 1}
             /\ (~ranOut' => ~fdOpen')
    <3>1. FilesTyped' /\ LinesHeld' /\ Opened'
      <4>1. FilesTyped' /\ LinesHeld'
        BY <1>1, <2>1 DEF LogRight, FilesTyped, LinesHeld, Current
      <4>2. fdOpen' => fdOpen
        BY <2>1
      <4> QED BY <1>1, <2>1, <4>1, <4>2 DEF LogRight, Opened, Current
    <3>2. Checked'
      BY <1>1, <1>4, <2>1 DEF LogRight, Checked
    <3>3. curLines' \in Nat
      BY <2>1 DEF LogRight
    <3> QED BY <1>1, <1>2, <3>1, <3>2, <3>3 DEF LogRight
  <2>2. ASSUME NEW new \in Nat \X (1 .. MaxNum), Current \in DOMAIN files, new \notin DOMAIN files,
               new # Current,
               \/ files' = Renamed(new) /\ fdOpen' = FALSE /\ UNCHANGED <<openDate, curLines, tidying>>
               \/ /\ files' = WithCurrent(Renamed(new)) /\ tidying' = TRUE
                  /\ fdOpen' = TRUE /\ openDate' = day /\ curLines' = 1
        PROVE  LogRight'
    <3> DEFINE D == (DOMAIN files \ {Current}) \cup {new}
    <3>1. /\ DOMAIN Renamed(new) = D /\ Renamed(new)[new] = files[Current]
          /\ \A n \in DOMAIN files \ {Current} : Renamed(new)[n] = files[n]
      BY <2>2 DEF Renamed
    <3>2. /\ DOMAIN files' \in {D, D \cup {Current}}
          /\ files'[new] = files[Current]
          /\ \A n \in DOMAIN files \ {Current} : files'[n] = files[n]
          /\ Current \in DOMAIN files' => files'[Current] = NoLines
          /\ fdOpen' => Current \in DOMAIN files'
      BY <2>2, <3>1 DEF WithCurrent
    <3>3. NoLines.lines = {} /\ NoLines.day = day /\ day \in Nat
      BY DEF NoLines, LogRight
    <3> HIDE DEF D
    <3>4. FilesTyped'
      <4>1. DOMAIN files' \subseteq {Current} \cup (Nat \X (1 .. MaxNum))
        BY <2>2, <3>2 DEF LogRight, FilesTyped, D
      <4>2. \A n \in DOMAIN files' : n = new \/ n = Current \/ n \in DOMAIN files \ {Current}
        BY <3>2 DEF D
      <4>3. \A n \in DOMAIN files' : IsFiniteSet(files'[n].lines) /\ files'[n].day \in Nat
        BY <2>2, <3>2, <3>3, <4>2, FS_EmptySet DEF LogRight, FilesTyped
      <4> QED BY <4>1, <4>3 DEF FilesTyped, Current
    <3>5. LinesHeld'
      <4> SUFFICES ASSUME NEW l \in lines, l.day + KeepDays >= day
                   PROVE  \E n \in DOMAIN files' : l.id \in files'[n].lines /\ files'[n].day >= l.day
        BY <1>1 DEF LinesHeld, LogRight
      <4>1. PICK n \in DOMAIN files : l.id \in files[n].lines /\ files[n].day >= l.day
        BY DEF LinesHeld, LogRight
      <4>2. CASE n = Current
        BY <3>2, <4>1, <4>2 DEF D
      <4>3. CASE n # Current
        BY <3>2, <4>1, <4>3 DEF D
      <4> QED BY <4>2, <4>3
    <3>6. Opened'
      <4>1. fdOpen' => tidying' = TRUE /\ files'[Current].day = day
        BY <2>2, <3>2, <3>3
      <4> QED BY <1>1, <3>2, <4>1 DEF Opened, Current
    <3>7. Checked'
      <4>1. ~ranOut' => \A n \in DOMAIN files' : Cardinality(files'[n].lines) <= Limit
        <5> SUFFICES ASSUME ~ranOut', NEW n \in DOMAIN files' PROVE Cardinality(files'[n].lines) <= Limit
          OBVIOUS
        <5>1. ~ranOut
          BY <1>1 DEF LogRight
        <5>2. CASE n = Current
          <6>1. Cardinality(files'[n].lines) = 0
            BY <3>2, <3>3, <5>2, FS_EmptySet
          <6> QED BY <6>1, Counting
        <5>3. CASE n = new
          BY <2>2, <3>2, <5>1, <5>3 DEF LogRight, Checked
        <5>4. CASE n \in DOMAIN files \ {Current}
          BY <3>2, <5>1, <5>4 DEF LogRight, Checked
        <5> QED BY <3>2, <5>2, <5>3, <5>4 DEF D
      <4>2. fdOpen' => files'[Current].lines = {} /\ curLines' = 1
        BY <2>2, <3>2, <3>3
      <4> QED BY <1>4, <4>1, <4>2
    <3>8. curLines' \in Nat
      BY <2>2 DEF LogRight
    <3> QED BY <1>1, <1>2, <3>4, <3>5, <3>6, <3>7, <3>8 DEF LogRight
  <2>3. CASE outcome = "done" /\ Current \notin DOMAIN files
             /\ curLines' = curLines + 1 /\ UNCHANGED <<files, fdOpen, openDate, tidying>>
    BY <2>1, <2>3 DEF LogRight, Opened
  <2>4. CASE outcome = "no number" /\ UNCHANGED <<files, fdOpen, openDate, curLines, tidying>>
    BY <1>1, <2>1, <2>4
  <2>5. CASE outcome = "not renamed" /\ fdOpen' = FALSE /\ UNCHANGED <<files, openDate, curLines, tidying>>
    BY <2>1, <2>5
  <2> QED BY <1>6, <2>2, <2>3, <2>4, <2>5, RotationCases
<1> QED BY <1>5, <1>6 DEF docheck

LEMMA WriteLineLog ==
  ASSUME LogRight, NEW c \in Clients, WriteLine(c)
  PROVE  LogRight'
<1>1. /\ client[c].at = "write" /\ client' = [client EXCEPT ![c] = [at |-> "idle"]]
      /\ UNCHANGED <<day, fdOpen, curLines, ranOut, tidying>>
  BY DEF WriteLine, GoesOn
<1>2. Writers' = Writers \ {c} /\ c \in Writers /\ DOMAIN client' = Clients
  <2>1. /\ DOMAIN client' = Clients /\ client'[c].at = "idle"
        /\ \A e \in Clients \ {c} : client'[e] = client[e]
    BY <1>1 DEF LogRight
  <2> QED BY <1>1, <2>1 DEF Writers
<1>3. /\ IsFiniteSet(Writers') /\ Cardinality(Writers') \in Nat
      /\ Cardinality(Writers) = Cardinality(Writers') + 1
  <2>1. IsFiniteSet(Writers') /\ Cardinality(Writers') = Cardinality(Writers) - 1
    BY <1>2, Counting, FS_RemoveElement
  <2> QED BY <2>1, Counting, FS_CardinalityType
<1>4. CASE ~fdOpen
  <2>1. UNCHANGED <<files, lines>>
    BY <1>4 DEF WriteLine
  <2> QED BY <1>1, <1>2, <1>4, <2>1 DEF LogRight, FilesTyped, LinesHeld, Opened, Checked, Current, Limit
<1>5. CASE fdOpen
  <2> DEFINE more == files[Current].lines \cup {client[c].line}
  <2>1. /\ files' = [files EXCEPT ![Current] = [lines |-> more, day |-> day]]
        /\ lines' = lines \cup {[id |-> client[c].line, day |-> day]}
        /\ Current \in DOMAIN files
    BY <1>5 DEF WriteLine, LogRight, Opened
  <2>2. /\ DOMAIN files' = DOMAIN files /\ files'[Current].lines = more /\ files'[Current].day = day
        /\ \A n \in DOMAIN files \ {Current} : files'[n] = files[n]
    BY <2>1
  <2>3. IsFiniteSet(files[Current].lines) /\ Cardinality(files[Current].lines) \in Nat
    BY <2>1, FS_CardinalityType DEF LogRight, FilesTyped
  <2>4. /\ IsFiniteSet(more) /\ Cardinality(more) \in Nat
        /\ Cardinality(more) <= Cardinality(files[Current].lines) + 1
    <3>1. /\ IsFiniteSet(more)
          /\ Cardinality(more) = IF client[c].line \in files[Current].lines
                                 THEN Cardinality(files[Current].lines)
                                 ELSE Cardinality(files[Current].lines) + 1
      BY <2>3, FS_AddElement
    <3> QED BY <2>3, <3>1
  <2> HIDE DEF more
  <2>5. FilesTyped'
    BY <2>2, <2>4 DEF LogRight, FilesTyped, Current
  <2>6. LinesHeld'
    <3> SUFFICES ASSUME NEW l \in lines'
                 PROVE  /\ l.day \in Nat /\ l.day <= day
                        /\ l.day + KeepDays >= day =>
                             \E n \in DOMAIN files' : l.id \in files'[n].lines /\ files'[n].day >= l.day
      BY <1>1 DEF LinesHeld
    <3>1. CASE l = [id |-> client[c].line, day |-> day]
      <4>1. l.id \in files'[Current].lines /\ files'[Current].day >= l.day /\ l.day = day
        BY <2>2, <3>1 DEF LogRight, more
      <4> QED BY <2>1, <2>2, <4>1 DEF LogRight
    <3>2. CASE l \in lines
      <4>1. l.day \in Nat /\ l.day <= day
        BY <3>2 DEF LogRight, LinesHeld
      <4>2. ASSUME l.day + KeepDays >= day
            PROVE  \E n \in DOMAIN files' : l.id \in files'[n].lines /\ files'[n].day >= l.day
        <5>1. PICK n \in DOMAIN files : l.id \in files[n].lines /\ files[n].day >= l.day
          BY <3>2, <4>2 DEF LogRight, LinesHeld
        <5>2. CASE n = Current
          BY <2>2, <4>1, <5>1, <5>2 DEF more
        <5>3. CASE n # Current
          BY <2>2, <5>1, <5>3
        <5> QED BY <5>2, <5>3
      <4> QED BY <4>1, <4>2
    <3> QED BY <2>1, <3>1, <3>2
  <2>7. Opened'
    BY <1>1, <2>1, <2>2 DEF Opened, Current
  <2>8. Checked'
    <3> SUFFICES ASSUME ~ranOut
                 PROVE  /\ \A n \in DOMAIN files' : Cardinality(files'[n].lines) <= Limit
                        /\ Cardinality(files'[Current].lines) + Cardinality(Writers') <= Limit
                        /\ Cardinality(files'[Current].lines) + Cardinality(Writers')
                             <= curLines + Cardinality(Clients) - 1
      BY <1>1 DEF Checked, Limit
    <3>1. /\ Cardinality(files[Current].lines) + Cardinality(Writers) <= Limit
          /\ Cardinality(files[Current].lines) + Cardinality(Writers) <= curLines + Cardinality(Clients) - 1
      BY <1>5 DEF LogRight, Checked
    <3>2. /\ Cardinality(more) + Cardinality(Writers') <= Limit
          /\ Cardinality(more) + Cardinality(Writers') <= curLines + Cardinality(Clients) - 1
      <4>1. curLines \in Nat
        BY DEF LogRight
      <4> QED BY <1>3, <2>3, <2>4, <3>1, <4>1, Counting
    <3>3. \A n \in DOMAIN files' : Cardinality(files'[n].lines) <= Limit
      <4>1. Cardinality(more) <= Limit
        BY <1>3, <2>4, <3>2, Counting
      <4> QED BY <2>2, <4>1 DEF LogRight, Checked
    <3> QED BY <2>2, <3>2, <3>3
  <2> QED BY <1>1, <1>2, <2>5, <2>6, <2>7, <2>8 DEF LogRight
<1> QED BY <1>4, <1>5

\* Only files that are older than every line to be kept are deleted.
LEMMA DeleteLog ==
  ASSUME LogRight, deleteOldLog
  PROVE  LogRight'
<1> DEFINE young == { f \in DOMAIN files : files[f].day + KeepDays >= day }
<1>1. /\ UNCHANGED <<day, client, fdOpen, curLines, lines, ranOut>> /\ tidying = TRUE /\ tidying' = FALSE
      /\ files' = [n \in young |-> files[n]]
  BY DEF deleteOldLog
<1>2. DOMAIN files' = young /\ young \subseteq DOMAIN files /\ \A n \in young : files'[n] = files[n]
  BY <1>1
<1>3. fdOpen => Current \in young
  BY <1>1, OutletsAssumption DEF LogRight, Opened
<1>4. FilesTyped'
  BY <1>2 DEF LogRight, FilesTyped, Current
<1>5. LinesHeld'
  <2> SUFFICES ASSUME NEW l \in lines, l.day + KeepDays >= day
               PROVE  \E n \in young : l.id \in files[n].lines /\ files[n].day >= l.day
    BY <1>1, <1>2 DEF LogRight, LinesHeld
  <2>1. PICK n \in DOMAIN files : l.id \in files[n].lines /\ files[n].day >= l.day
    BY DEF LogRight, LinesHeld
  <2>2. files[n].day \in Nat /\ l.day \in Nat /\ day \in Nat
    BY DEF LogRight, FilesTyped, LinesHeld
  <2> QED BY <2>1, <2>2, OutletsAssumption
<1>6. Opened'
  BY <1>1, <1>2, <1>3 DEF Opened, Current
<1>7. Checked'
  <2> HIDE DEF young
  <2>1. Writers' = Writers
    BY <1>1 DEF Writers
  <2> QED BY <1>1, <1>2, <1>3, <2>1 DEF LogRight, Checked, Current, Limit
<1> QED BY <1>1, <1>4, <1>5, <1>6, <1>7 DEF LogRight

LEMMA RestartRight ==
  ASSUME LogRight, RestartLog
  PROVE  LogRight'
<1>1. /\ client' = [c \in Clients |-> [at |-> "idle"]] /\ UNCHANGED <<day, lines, ranOut>>
      /\ files' = IF Current \in DOMAIN files THEN files ELSE WithCurrent(files)
      /\ fdOpen' = TRUE /\ tidying' = FALSE /\ curLines' = Cardinality(files'[Current].lines)
  BY DEF RestartLog, StartLogger
<1>2. Cardinality(Writers') = 0
  <2>1. Writers' = {}
    BY <1>1 DEF Writers
  <2> QED BY <2>1, FS_EmptySet
<1>3. NoLines.lines = {} /\ NoLines.day = day /\ day \in Nat
  BY DEF NoLines, LogRight
<1>4. /\ DOMAIN files' = DOMAIN files \cup {Current}
      /\ \A n \in DOMAIN files : files'[n] = files[n]
      /\ Current \notin DOMAIN files => files'[Current] = NoLines
  BY <1>1 DEF WithCurrent
<1>5. FilesTyped'
  BY <1>3, <1>4, FS_EmptySet DEF LogRight, FilesTyped, Current
<1>6. LinesHeld'
  BY <1>1, <1>4 DEF LogRight, LinesHeld
<1>7. Opened'
  BY <1>1, <1>4 DEF Opened, Current
<1>8. Cardinality(files'[Current].lines) \in Nat
  BY <1>4, <1>5, FS_CardinalityType DEF FilesTyped, Current
<1>9. Checked'
  <2>1. ASSUME NEW n \in DOMAIN files', ~ranOut PROVE Cardinality(files'[n].lines) <= Limit
    <3>1. CASE n \in DOMAIN files
      BY <1>4, <2>1, <3>1 DEF LogRight, Checked
    <3>2. CASE n = Current /\ Current \notin DOMAIN files
      <4>1. Cardinality(files'[n].lines) = 0
        BY <1>3, <1>4, <3>2, FS_EmptySet
      <4> QED BY <4>1, Counting
    <3> QED BY <1>4, <3>1, <3>2
  <2> QED BY <1>1, <1>2, <1>4, <1>8, <2>1, Counting DEF Checked, Current, Limit
<1> QED BY <1>1, <1>5, <1>6, <1>7, <1>8, <1>9 DEF LogRight, Current

LEMMA LogStep ==
  ASSUME LogRight, [OutletsNext]_outletVars
  PROVE  LogRight'
<1>1. ASSUME UNCHANGED <<day, logs, client>> PROVE LogRight'
  BY <1>1, LogStays DEF LogRight
<1>2. ASSUME NEW c \in Clients, NEW place, place.at # "write", GoesOn(c, place), UNCHANGED <<day, logs>>
      PROVE  LogRight'
  <2>1. DOMAIN client' = Clients /\ client'[c] = place /\ \A e \in Clients \ {c} : client'[e] = client[e]
    BY <1>2 DEF GoesOn, LogRight
  <2> QED BY <1>2, <2>1, LogStays
<1>3. ASSUME NEW c \in Clients, NEW builds, sendEmail(c, builds) PROVE LogRight'
  BY <1>1, <1>2, <1>3 DEF sendEmail
<1>4. ASSUME NEW c \in Clients, addToMailQueue(c) PROVE LogRight'
  BY <1>2, <1>4 DEF addToMailQueue
<1>5. ASSUME NEW c \in Clients, NEW h, Handler(c, h) PROVE LogRight'
  <2>1. PICK place : GoesOn(c, place) /\ place.at # "write"
    BY <1>5 DEF Handler, Page
  <2> QED BY <1>2, <1>5, <2>1 DEF Handler
<1>6. ASSUME NEW c \in Clients, NEW t, NEW error, Updated(c, t, error) PROVE LogRight'
  <2>1. PICK place : GoesOn(c, place) /\ place.at # "write"
    BY <1>6 DEF Updated, Page
  <2> QED BY <1>2, <1>6, <2>1 DEF Updated
<1>7. ASSUME NEW c \in Clients, Encode(c) PROVE LogRight'
  BY <1>2, <1>7 DEF Encode
<1>8. ASSUME NextDay PROVE LogRight'
  <2>1. UNCHANGED <<logs, client>> /\ day' = day + 1 /\ ~tidying
    BY <1>8 DEF NextDay
  <2>2. Writers' = Writers
    BY <2>1 DEF Writers
  <2>3. LinesHeld'
    BY <2>1, OutletsAssumption DEF logs, LogRight, LinesHeld
  <2>4. FilesTyped' /\ Opened'
    BY <2>1 DEF logs, LogRight, FilesTyped, Opened, Current
  <2>5. Checked'
    BY <2>1, <2>2 DEF logs, LogRight, Checked, Current, Limit
  <2> QED BY <2>1, <2>3, <2>4, <2>5 DEF logs, LogRight
<1> QED BY <1>1, <1>3, <1>4, <1>5, <1>6, <1>7, <1>8, DocheckLog, WriteLineLog, DeleteLog, RestartRight
        DEF OutletsNext, outletVars, Increase, Push, writeMetric, RestartMetrics, processMailQueue,
            FallsSilent, DialAndSend, FetchBegins, FetchAnswered, FetchEnds, Expire

(***************************************************************************)
(* The counters.                                                           *)
(***************************************************************************)
MetricsRight ==
  /\ counter \in [MetricNames -> Nat] /\ lastValue \in [MetricNames -> Nat]
  /\ graphite \in [MetricNames -> Int] /\ counted \in [MetricNames -> Nat]
  /\ broken \in [MetricNames -> Int]
  /\ pushing \in Seq([metric : MetricNames, value : Nat])
  /\ DeltasAdd

LEMMA MetricsStep ==
  ASSUME MetricsRight, [OutletsNext]_outletVars
  PROVE  MetricsRight'
<1>1. CASE UNCHANGED metrics
  BY <1>1 DEF metrics, MetricsRight, DeltasAdd
<1>2. ASSUME NEW m \in DOMAIN counter, Increase(m) PROVE MetricsRight'
  BY <1>2 DEF Increase, MetricsRight, DeltasAdd
<1>3. ASSUME NEW dials \in BOOLEAN, Push(dials) PROVE MetricsRight'
  <2> DEFINE read == [i \in DOMAIN Metrics |-> [metric |-> Metrics[i], value |-> counter[Metrics[i]]]]
  <2>1. read \in Seq([metric : MetricNames, value : Nat])
    <3>1. DOMAIN Metrics = 1 .. Len(Metrics) /\ Len(Metrics) \in Nat
      BY OutletsAssumption
    <3>2. \A i \in DOMAIN Metrics : read[i] \in [metric : MetricNames, value : Nat]
      BY DEF MetricNames, MetricsRight
    <3> QED BY <3>1, <3>2
  <2> HIDE DEF read
  <2>2. pushing' \in {read, <<>>}
    BY <1>3 DEF Push, read
  <2>3. UNCHANGED <<counter, lastValue, graphite, counted, broken>>
    BY <1>3 DEF Push
  <2>4. pushing' \in Seq([metric : MetricNames, value : Nat])
    BY <2>1, <2>2, EmptySeq
  <2> QED BY <2>3, <2>4 DEF MetricsRight, DeltasAdd
<1>4. ASSUME NEW fails \in BOOLEAN, NEW arrives \in BOOLEAN, writeMetric(fails, arrives) PROVE MetricsRight'
  <2> DEFINE m == Head(pushing).metric
             v == Head(pushing).value
             delta == v - lastValue[m]
  <2>1. m \in MetricNames /\ v \in Nat /\ pushing # <<>>
    <3>1. pushing # <<>> /\ pushing \in Seq([metric : MetricNames, value : Nat])
      BY <1>4 DEF writeMetric, MetricsRight
    <3>2. Head(pushing) \in [metric : MetricNames, value : Nat]
      BY <3>1, HeadTailProperties
    <3> QED BY <3>1, <3>2
  <2>2. /\ lastValue' = [lastValue EXCEPT ![m] = v]
        /\ graphite' = IF arrives THEN [graphite EXCEPT ![m] = @ + delta] ELSE graphite
        /\ broken' = IF arrives THEN broken ELSE [broken EXCEPT ![m] = @ + delta]
        /\ pushing' \in {<<>>, Tail(pushing)}
        /\ UNCHANGED <<counter, counted>>
    BY <1>4 DEF writeMetric, returnDelta
  <2>3. pushing' \in Seq([metric : MetricNames, value : Nat])
    <3>1. Tail(pushing) \in Seq([metric : MetricNames, value : Nat])
      BY <2>1 DEF MetricsRight
    <3> QED BY <2>2, <3>1, EmptySeq
  <2> HIDE DEF m, v
  <2>4. lastValue' \in [MetricNames -> Nat] /\ graphite' \in [MetricNames -> Int] /\ broken' \in [MetricNames -> Int]
    <3>1. delta \in Int
      BY <2>1 DEF MetricsRight
    <3>2. lastValue' \in [MetricNames -> Nat]
      BY <2>1, <2>2 DEF MetricsRight
    <3> HIDE DEF delta
    <3>3. CASE arrives
      <4>1. graphite' = [graphite EXCEPT ![m] = graphite[m] + delta] /\ broken' = broken
        BY <2>2, <3>3
      <4>2. graphite \in [MetricNames -> Int]
        BY DEF MetricsRight
      <4>3. graphite[m] \in Int
        BY <2>1, <4>2
      <4>4. graphite[m] + delta \in Int
        BY <3>1, <4>3
      <4>5. graphite' \in [MetricNames -> Int]
        BY <4>1, <4>2, <4>4
      <4> QED BY <3>2, <4>1, <4>5 DEF MetricsRight
    <3>4. CASE ~arrives
      <4>1. broken' = [broken EXCEPT ![m] = broken[m] + delta] /\ graphite' = graphite
        BY <2>2, <3>4
      <4>2. broken \in [MetricNames -> Int]
        BY DEF MetricsRight
      <4>3. broken[m] \in Int
        BY <2>1, <4>2
      <4>4. broken[m] + delta \in Int
        BY <3>1, <4>3
      <4>5. broken' \in [MetricNames -> Int]
        BY <4>1, <4>2, <4>4
      <4> QED BY <3>2, <4>1, <4>5 DEF MetricsRight
    <3> QED BY <3>3, <3>4
  <2>5. DeltasAdd'
    <3> SUFFICES ASSUME NEW k \in MetricNames
                 PROVE  graphite'[k] + broken'[k] = counted[k] + lastValue'[k]
      BY <2>2 DEF DeltasAdd, MetricsRight
    <3>1. graphite[k] + broken[k] = counted[k] + lastValue[k]
      BY DEF DeltasAdd, MetricsRight
    <3>2. graphite[k] \in Int /\ broken[k] \in Int /\ counted[k] \in Int /\ lastValue[k] \in Int
      BY DEF MetricsRight
    <3>3. CASE k = m
      <4>1. lastValue'[k] = v /\ delta = v - lastValue[k] /\ v \in Int /\ delta \in Int
        BY <2>1, <2>2, <3>2, <3>3 DEF MetricsRight
      <4> HIDE DEF delta
      <4>2. CASE arrives
        <5>1. graphite'[k] = graphite[k] + delta /\ broken'[k] = broken[k]
          BY <2>1, <2>2, <3>3, <4>2 DEF MetricsRight
        <5> QED BY <3>1, <3>2, <4>1, <5>1
      <4>3. CASE ~arrives
        <5>1. graphite'[k] = graphite[k] /\ broken'[k] = broken[k] + delta
          BY <2>1, <2>2, <3>3, <4>3 DEF MetricsRight
        <5> QED BY <3>1, <3>2, <4>1, <5>1
      <4> QED BY <4>2, <4>3
    <3>4. CASE k # m
      BY <2>2, <3>1, <3>4 DEF MetricsRight
    <3> QED BY <3>3, <3>4
  <2> QED BY <2>2, <2>3, <2>4, <2>5 DEF MetricsRight
<1>5. ASSUME RestartMetrics PROVE MetricsRight'
  BY <1>5 DEF RestartMetrics, MetricsRight, DeltasAdd
<1> QED BY <1>1, <1>2, <1>3, <1>4, <1>5, ZenonT(60)
        DEF OutletsNext, outletVars, docheck, WriteLine, sendEmail, addToMailQueue, Handler, Updated,
            Encode, deleteOldLog, RestartLog, NextDay, processMailQueue, FallsSilent, DialAndSend, FetchBegins,
            FetchAnswered, FetchEnds, Expire

(***************************************************************************)
(* Nothing that is given out is lost or given out twice.                   *)
(***************************************************************************)
THEOREM NothingIsLost == OutletsSpec => []NothingLost
<1>1. OutletsInit => LogRight /\ MetricsRight
  <2> SUFFICES ASSUME OutletsInit PROVE LogRight /\ MetricsRight
    OBVIOUS
  <2>1. DOMAIN files = {Current} /\ files[Current].lines = {} /\ files[Current].day = 0
        /\ day = 0 /\ curLines = 0 /\ lines = {} /\ tidying = FALSE /\ client = [c \in Clients |-> [at |-> "idle"]]
    BY DEF OutletsInit
  <2>2. Cardinality({}) = 0 /\ IsFiniteSet({})
    BY FS_EmptySet
  <2>3. Cardinality(Writers) = 0
    <3>1. Writers = {}
      BY <2>1 DEF Writers
    <3> QED BY <2>2, <3>1
  <2>4. FilesTyped /\ LinesHeld /\ Opened
    BY <2>1, <2>2 DEF FilesTyped, LinesHeld, Opened
  <2>5. Checked
    <3>1. Cardinality(files[Current].lines) = 0 /\ \A n \in DOMAIN files : n = Current
      BY <2>1, <2>2
    <3>2. \A n \in DOMAIN files : Cardinality(files[n].lines) = 0
      BY <3>1
    <3>3. 0 <= Limit /\ 0 + 0 <= Limit /\ 0 + 0 <= 0 + Cardinality(Clients) - 1
      BY Counting
    <3> QED BY <2>1, <2>3, <3>1, <3>2, <3>3 DEF Checked
  <2>6. MetricsRight
    BY DEF OutletsInit, MetricsRight, DeltasAdd
  <2> QED BY <2>1, <2>4, <2>5, <2>6 DEF LogRight
<1>2. LogRight /\ MetricsRight /\ [OutletsNext]_outletVars => LogRight' /\ MetricsRight'
  BY LogStep, MetricsStep
<1>3. LogRight /\ MetricsRight => NothingLost
  <2> SUFFICES ASSUME LogRight, MetricsRight PROVE NothingLost
    OBVIOUS
  <2>1. LinesKept
    BY DEF LogRight, LinesHeld, LinesKept
  <2>2. FilesBounded
    <3> SUFFICES ASSUME ~ranOut, NEW n \in DOMAIN files
                 PROVE  Cardinality(files[n].lines) < MaxLines + Cardinality(Clients)
      BY DEF FilesBounded
    <3>1. Cardinality(files[n].lines) <= Limit /\ Cardinality(files[n].lines) \in Nat
      BY FS_CardinalityType DEF LogRight, Checked, FilesTyped
    <3> QED BY <3>1, Counting, OutletsAssumption DEF Limit
  <2> QED BY <2>1, <2>2 DEF NothingLost, MetricsRight
<1> QED BY <1>1, <1>2, <1>3, PTL DEF OutletsSpec

(***************************************************************************)
(* Avatars.                                                                *)
(***************************************************************************)
HasData(a) == avatar[a].data # 0
HasDataNext(a) == avatar'[a].data # 0

AvatarType == [hash : Hashes, data : Nat, notFound : BOOLEAN, fresh : BOOLEAN]

FetchType == [id : Nat \ {0}, avatar : Avatars, for : Clients \cup {0},
              at : {"queued", "asked", "filling", "got", "failed"}]

\* What became of a buffer, or is becoming of it.
Filling(d) == \E t \in fetches : t.id = d /\ t.at = "filling"
Accounted(d) == d \in full \/ d \in cut \/ Filling(d)
AccountedNext(d) == d \in full' \/ d \in cut' \/ \E t \in fetches' : t.id = d /\ t.at = "filling"

\* An avatar whose bytes came once is never without a buffer, every buffer is filled, filling or
\* cut, and only avatars with a buffer are cached and served.
AvatarsRight ==
  /\ uses \in Nat /\ avatar \in Seq(AvatarType) /\ fetches \subseteq FetchType
  /\ DOMAIN client = Clients
  /\ \A a \in Avatars : HasData(a) => Accounted(avatar[a].data)
  /\ \A h \in DOMAIN cache : cache[h] \in Avatars /\ HasData(cache[h])
  /\ \A t \in fetches : /\ t.at \in {"filling", "got"} => HasData(t.avatar)
                        /\ t.at = "got" => t.id \in full
  /\ \A c \in Clients : client[c].at = "page" =>
       /\ client[c].avatar = 0 \/ (client[c].avatar \in Avatars /\ HasData(client[c].avatar))
       /\ client[c].avatar # 0 => client[c].own = 0 \/ client[c].own \in full

\* What a step may do to the avatars: new bytes are those of a fetch that then fills its buffer.
LEMMA BytesStay ==
  ASSUME AvatarsRight, [OutletsNext]_outletVars
  PROVE  /\ uses' \in Nat /\ avatar' \in Seq(AvatarType) /\ Avatars \subseteq Avatars'
         /\ full \subseteq full' /\ cut \subseteq cut'
         /\ \A a \in Avatars : HasData(a) => HasDataNext(a)
<1>0. UNCHANGED uses \/ Uses
  BY ZenonT(60) DEF OutletsNext, outletVars, docheck, WriteLine, sendEmail, addToMailQueue, Handler, Updated,
         Encode, deleteOldLog, RestartLog, NextDay, Increase, Push, writeMetric, RestartMetrics,
         processMailQueue, FallsSilent, DialAndSend, FetchBegins, FetchAnswered, FetchEnds, Expire,
         avatars
<1>1. full \subseteq full' /\ cut \subseteq cut'
  BY ZenonT(60) DEF OutletsNext, outletVars, docheck, WriteLine, sendEmail, addToMailQueue, Handler, Updated,
         Encode, deleteOldLog, RestartLog, NextDay, Increase, Push, writeMetric, RestartMetrics,
         processMailQueue, FallsSilent, DialAndSend, FetchBegins, FetchAnswered, FetchEnds, Expire, avatars
<1> DEFINE Stay == avatar' \in Seq(AvatarType) /\ Avatars \subseteq Avatars' /\ \A a \in Avatars : HasData(a) => HasDataNext(a)
<1>2. ASSUME UNCHANGED avatar PROVE Stay
  BY <1>2 DEF AvatarsRight, Avatars, HasData, HasDataNext
<1>3. ASSUME NEW c \in Clients, NEW h \in Hashes, Handler(c, h) PROVE Stay
  <2> DEFINE new == [hash |-> h, data |-> 0, notFound |-> FALSE, fresh |-> FALSE]
  <2>1. new \in AvatarType
    BY DEF AvatarType
  <2>2. avatar' \in {avatar, Append(avatar, new)}
    BY <1>3 DEF Handler
  <2> HIDE DEF new
  <2> QED BY <2>1, <2>2 DEF AvatarsRight, Avatars, HasData, HasDataNext
<1>4. ASSUME NEW a \in Avatars, NEW r \in AvatarType, avatar' = [avatar EXCEPT ![a] = r],
             HasData(a) => r.data # 0
      PROVE  Stay
  BY <1>4 DEF AvatarsRight, Avatars, HasData, HasDataNext
<1>5. \A a \in Avatars : avatar[a] \in AvatarType
  BY DEF AvatarsRight, Avatars
<1>6. ASSUME NEW t \in fetches, FetchBegins(t) PROVE Stay
  <2>1. t.avatar \in Avatars
    BY DEF AvatarsRight, FetchType
  <2> DEFINE r == [avatar[t.avatar] EXCEPT !.fresh = TRUE]
  <2>2. avatar' = [avatar EXCEPT ![t.avatar] = r]
    BY <1>6 DEF FetchBegins
  <2>3. r \in AvatarType /\ r.data = avatar[t.avatar].data
    BY <1>5, <2>1 DEF AvatarType
  <2> QED BY <1>4, <2>1, <2>2, <2>3 DEF HasData
<1>7. ASSUME NEW t \in fetches, NEW ok \in BOOLEAN, FetchAnswered(t, ok) PROVE Stay
  <2>1. t.avatar \in Avatars /\ t.id \in Nat /\ t.id # 0
    BY DEF AvatarsRight, FetchType
  <2>2. CASE ok
    <3> DEFINE r == [avatar[t.avatar] EXCEPT !.data = t.id]
    <3>1. avatar' = [avatar EXCEPT ![t.avatar] = r]
      BY <1>7, <2>2 DEF FetchAnswered
    <3>2. r \in AvatarType /\ r.data = t.id
      BY <1>5, <2>1 DEF AvatarType
    <3> QED BY <1>4, <2>1, <3>1, <3>2
  <2>3. CASE ~ok
    <3> DEFINE r == [avatar[t.avatar] EXCEPT !.notFound = TRUE]
    <3>1. avatar' = [avatar EXCEPT ![t.avatar] = r]
      BY <1>7, <2>3 DEF FetchAnswered
    <3>2. r \in AvatarType /\ r.data = avatar[t.avatar].data
      BY <1>5, <2>1 DEF AvatarType
    <3> QED BY <1>4, <2>1, <3>1, <3>2 DEF HasData
  <2> QED BY <2>2, <2>3
<1>8. ASSUME NEW b \in Avatars, Expire(b) PROVE Stay
  <2> DEFINE r == [avatar[b] EXCEPT !.fresh = FALSE]
  <2>1. avatar' = [avatar EXCEPT ![b] = r]
    BY <1>8 DEF Expire
  <2>2. r \in AvatarType /\ r.data = avatar[b].data
    BY <1>5 DEF AvatarType
  <2> QED BY <1>4, <2>1, <2>2 DEF HasData
<1>9. Stay
  BY <1>2, <1>3, <1>6, <1>7, <1>8
     DEF OutletsNext, outletVars, docheck, WriteLine, sendEmail, addToMailQueue, Updated,
         Encode, deleteOldLog, RestartLog, NextDay, Increase, Push, writeMetric, RestartMetrics,
         processMailQueue, FallsSilent, DialAndSend, FetchEnds, avatars
<1>10. uses' \in Nat
  BY <1>0 DEF Uses, AvatarsRight
<1> QED BY <1>1, <1>9, <1>10

\* A buffer that is being filled goes on, or is full, or is cut.
LEMMA FillingEnds ==
  ASSUME AvatarsRight, [OutletsNext]_outletVars, NEW d, Accounted(d)
  PROVE  AccountedNext(d)
<1>1. CASE d \in full \/ d \in cut
  BY <1>1, BytesStay DEF AccountedNext
<1>2. ASSUME NEW t \in fetches, t.id = d, t.at = "filling" PROVE AccountedNext(d)
  <2>1. t \in FetchType
    BY DEF AvatarsRight
  <2>2. CASE t \in fetches'
    BY <1>2, <2>2 DEF AccountedNext
  <2>3. ASSUME NEW u \in fetches, FetchEnds(u, TRUE) \/ FetchEnds(u, FALSE) PROVE AccountedNext(d)
    <3>1. CASE u = t
      BY <1>2, <2>3, <3>1 DEF FetchEnds, AccountedNext
    <3>2. CASE u # t
      BY <2>2, <2>3, <3>2 DEF FetchEnds, Becomes, Others
    <3> QED BY <3>1, <3>2
  <2>4. ASSUME NEW c \in Clients, NEW u \in fetches, NEW error \in BOOLEAN, Updated(c, u, error)
        PROVE  AccountedNext(d)
    <3> DEFINE y == [u EXCEPT !.for = 0]
    <3>1. CASE u = t
      <4>1. y.at = "filling" /\ y.id = d
        BY <1>2, <2>1, <3>1 DEF FetchType
      <4>2. ~Over(y)
        BY <4>1 DEF Over
      <4>3. y \in fetches'
        BY <2>4, <3>1, <4>2 DEF Updated
      <4> QED BY <4>1, <4>3 DEF AccountedNext
    <3>2. CASE u # t
      BY <2>2, <2>4, <3>2 DEF Updated, Others
    <3> QED BY <3>1, <3>2
  <2>5. ASSUME NEW u \in fetches, FetchBegins(u) PROVE AccountedNext(d)
    <3>1. u # t
      BY <1>2, <2>5 DEF FetchBegins
    <3> QED BY <2>2, <2>5, <3>1 DEF FetchBegins, Becomes, Others
  <2>6. ASSUME NEW u \in fetches, NEW ok \in BOOLEAN, FetchAnswered(u, ok) PROVE AccountedNext(d)
    <3>1. u # t
      BY <1>2, <2>6 DEF FetchAnswered
    <3> QED BY <2>2, <2>6, <3>1 DEF FetchAnswered, Becomes, Others
  <2>7. ASSUME NEW c \in Clients, NEW h \in Hashes, Handler(c, h) PROVE t \in fetches'
    BY <2>7 DEF Handler
  <2>8. fetches \subseteq fetches' \/ AccountedNext(d)
    BY <2>2, <2>3, <2>4, <2>5, <2>6, <2>7
       DEF OutletsNext, outletVars, docheck, WriteLine, sendEmail, addToMailQueue,
           Encode, deleteOldLog, RestartLog, NextDay, Increase, Push, writeMetric, RestartMetrics,
           processMailQueue, FallsSilent, DialAndSend, Expire, avatars
  <2> QED BY <2>2, <2>8
<1> QED BY <1>1, <1>2 DEF Accounted, Filling

\* The bytes of an avatar are those it had, or of a fetch that fills them.
LEMMA BuffersKnown ==
  ASSUME AvatarsRight, [OutletsNext]_outletVars
  PROVE  \A a \in Avatars' : HasDataNext(a) => AccountedNext(avatar'[a].data)
<1>1. ASSUME NEW a \in Avatars, avatar'[a].data = avatar[a].data, HasDataNext(a)
      PROVE  AccountedNext(avatar'[a].data)
  <2>1. HasData(a)
    BY <1>1 DEF HasData, HasDataNext
  <2>2. Accounted(avatar[a].data)
    BY <2>1 DEF AvatarsRight
  <2>3. PICK d : d = avatar[a].data
    OBVIOUS
  <2>4. AccountedNext(d)
    BY <2>2, <2>3, FillingEnds
  <2> QED BY <1>1, <2>3, <2>4
<1>2. CASE UNCHANGED avatar
  <2>1. Avatars' = Avatars /\ \A a \in Avatars : avatar'[a].data = avatar[a].data
    BY <1>2 DEF Avatars
  <2> QED BY <1>1, <2>1
<1>3. ASSUME NEW c \in Clients, NEW h \in Hashes, Handler(c, h), avatar' # avatar
      PROVE  \A a \in Avatars' : HasDataNext(a) => AccountedNext(avatar'[a].data)
  <2> DEFINE new == [hash |-> h, data |-> 0, notFound |-> FALSE, fresh |-> FALSE]
  <2>1. avatar' = Append(avatar, new)
    BY <1>3 DEF Handler
  <2>2. Avatars' = Avatars \cup {Len(avatar) + 1} /\ avatar'[Len(avatar) + 1].data = 0
        /\ \A a \in Avatars : avatar'[a] = avatar[a]
    BY <2>1 DEF AvatarsRight, Avatars
  <2> QED BY <1>1, <2>2 DEF HasDataNext
<1>4. ASSUME NEW b \in Avatars, NEW r \in AvatarType, avatar' = [avatar EXCEPT ![b] = r],
             r.data = avatar[b].data \/ AccountedNext(r.data)
      PROVE  \A a \in Avatars' : HasDataNext(a) => AccountedNext(avatar'[a].data)
  <2>1. Avatars' = Avatars /\ avatar'[b] = r /\ \A a \in Avatars \ {b} : avatar'[a] = avatar[a]
    BY <1>4 DEF AvatarsRight, Avatars
  <2>2. \A a \in Avatars \ {b} : avatar'[a].data = avatar[a].data
    BY <2>1
  <2>3. avatar'[b].data = avatar[b].data \/ AccountedNext(avatar'[b].data)
    <3>1. CASE r.data = avatar[b].data
      BY <2>1, <3>1
    <3>2. CASE AccountedNext(r.data)
      <4>1. PICK d : d = avatar'[b].data
        OBVIOUS
      <4>2. d = r.data
        BY <2>1, <4>1
      <4> QED BY <3>2, <4>1, <4>2
    <3> QED BY <1>4, <3>1, <3>2
  <2> QED BY <1>1, <2>1, <2>2, <2>3
<1>5. \A a \in Avatars : avatar[a] \in AvatarType
  BY DEF AvatarsRight, Avatars
<1>6. ASSUME NEW t \in fetches, FetchBegins(t)
      PROVE  \A a \in Avatars' : HasDataNext(a) => AccountedNext(avatar'[a].data)
  <2>1. t.avatar \in Avatars
    BY DEF AvatarsRight, FetchType
  <2> DEFINE r == [avatar[t.avatar] EXCEPT !.fresh = TRUE]
  <2>2. avatar' = [avatar EXCEPT ![t.avatar] = r]
    BY <1>6 DEF FetchBegins
  <2>3. r \in AvatarType /\ r.data = avatar[t.avatar].data
    BY <1>5, <2>1 DEF AvatarType
  <2> HIDE DEF r
  <2> QED BY <1>4, <2>1, <2>2, <2>3
<1>7. ASSUME NEW t \in fetches, NEW ok \in BOOLEAN, FetchAnswered(t, ok)
      PROVE  \A a \in Avatars' : HasDataNext(a) => AccountedNext(avatar'[a].data)
  <2>1. t.avatar \in Avatars /\ t.id \in Nat /\ t \in FetchType
    BY DEF AvatarsRight, FetchType
  <2>2. CASE ok
    <3> DEFINE r == [avatar[t.avatar] EXCEPT !.data = t.id]
               y == [t EXCEPT !.at = "filling"]
    <3>1. avatar' = [avatar EXCEPT ![t.avatar] = r] /\ Becomes(t, "filling")
      BY <1>7, <2>2 DEF FetchAnswered
    <3>2. r \in AvatarType /\ r.data = t.id
      BY <1>5, <2>1 DEF AvatarType
    <3>3. y.at = "filling" /\ y.id = t.id
      BY <2>1 DEF FetchType
    <3>4. y \in fetches'
      BY <3>1, <3>3 DEF Becomes, Over
    <3>5. AccountedNext(t.id)
      BY <3>3, <3>4 DEF AccountedNext
    <3> HIDE DEF r
    <3>6. AccountedNext(r.data)
      BY <3>2, <3>5
    <3> QED BY <1>4, <2>1, <3>1, <3>2, <3>6
  <2>3. CASE ~ok
    <3> DEFINE r == [avatar[t.avatar] EXCEPT !.notFound = TRUE]
    <3>1. avatar' = [avatar EXCEPT ![t.avatar] = r]
      BY <1>7, <2>3 DEF FetchAnswered
    <3>2. r \in AvatarType /\ r.data = avatar[t.avatar].data
      BY <1>5, <2>1 DEF AvatarType
    <3> HIDE DEF r
    <3> QED BY <1>4, <2>1, <3>1, <3>2
  <2> QED BY <2>2, <2>3
<1>8. ASSUME NEW b \in Avatars, Expire(b)
      PROVE  \A a \in Avatars' : HasDataNext(a) => AccountedNext(avatar'[a].data)
  <2> DEFINE r == [avatar[b] EXCEPT !.fresh = FALSE]
  <2>1. avatar' = [avatar EXCEPT ![b] = r]
    BY <1>8 DEF Expire
  <2>2. r \in AvatarType /\ r.data = avatar[b].data
    BY <1>5 DEF AvatarType
  <2> HIDE DEF r
  <2> QED BY <1>4, <2>1, <2>2
<1> QED BY <1>2, <1>3, <1>6, <1>7, <1>8
        DEF OutletsNext, outletVars, docheck, WriteLine, sendEmail, addToMailQueue, Updated,
            Encode, deleteOldLog, RestartLog, NextDay, Increase, Push, writeMetric, RestartMetrics,
            processMailQueue, FallsSilent, DialAndSend, FetchEnds, avatars

LEMMA FetchesStay ==
  ASSUME AvatarsRight, [OutletsNext]_outletVars
  PROVE  /\ fetches' \subseteq FetchType'
         /\ \A t \in fetches' : /\ t.at \in {"filling", "got"} => HasDataNext(t.avatar)
                                /\ t.at = "got" => t.id \in full'
<1> DEFINE Fetched(t) == /\ t \in FetchType' /\ (t.at \in {"filling", "got"} => HasDataNext(t.avatar))
                         /\ (t.at = "got" => t.id \in full')
<1>1. /\ Avatars \subseteq Avatars' /\ full \subseteq full' /\ \A a \in Avatars : HasData(a) => HasDataNext(a)
  BY BytesStay
<1>2. \A t \in fetches : t.avatar \in Avatars /\ Fetched(t)
  BY <1>1 DEF AvatarsRight, FetchType
<1>3. ASSUME NEW t \in fetches, NEW place \in {"queued", "asked", "filling", "got", "failed"},
             place \in {"filling", "got"} => HasDataNext(t.avatar), place = "got" => t.id \in full',
             Becomes(t, place)
      PROVE  \A x \in fetches' : Fetched(x)
  <2> DEFINE y == [t EXCEPT !.at = place]
  <2>1. y \in FetchType /\ y.avatar = t.avatar /\ y.at = place /\ y.id = t.id
    BY DEF AvatarsRight, FetchType
  <2>2. Fetched(y)
    BY <1>1, <1>3, <2>1 DEF FetchType
  <2>3. fetches' \subseteq fetches \cup {y}
    BY <1>3 DEF Becomes, Others
  <2> QED BY <1>2, <2>2, <2>3
<1>4. CASE UNCHANGED fetches
  BY <1>2, <1>4
<1>5. ASSUME NEW c \in Clients, NEW h \in Hashes, Handler(c, h) PROVE \A x \in fetches' : Fetched(x)
  <2> DEFINE anew == h \notin DOMAIN cache
             a == IF anew THEN Len(avatar) + 1 ELSE cache[h]
             y == [id |-> uses', avatar |-> a, for |-> c, at |-> "queued"]
  <2>1. fetches' \subseteq fetches \cup {y} /\ (anew => Len(avatar') = Len(avatar) + 1)
    BY <1>5 DEF Handler, AvatarsRight
  <2>2. a \in Avatars'
    <3>1. CASE anew
      BY <2>1, <3>1, BytesStay DEF Avatars, AvatarsRight
    <3>2. CASE ~anew
      BY <1>1, <3>2 DEF AvatarsRight
    <3> QED BY <3>1, <3>2
  <2>3. uses' \in Nat \ {0}
    BY <1>5 DEF Handler, Uses, AvatarsRight
  <2> HIDE DEF a
  <2>4. y \in FetchType' /\ y.at = "queued"
    BY <2>2, <2>3 DEF FetchType
  <2> HIDE DEF y
  <2> QED BY <1>2, <2>1, <2>4
<1>6. ASSUME NEW t \in fetches, FetchBegins(t) PROVE \A x \in fetches' : Fetched(x)
  BY <1>3, <1>6 DEF FetchBegins
<1>7. ASSUME NEW t \in fetches, NEW found \in BOOLEAN, FetchAnswered(t, found) PROVE \A x \in fetches' : Fetched(x)
  <2>1. avatar' = (IF found THEN [avatar EXCEPT ![t.avatar].data = t.id]
                  ELSE [avatar EXCEPT ![t.avatar].notFound = TRUE])
        /\ Becomes(t, IF found THEN "filling" ELSE "failed")
    BY <1>7 DEF FetchAnswered
  <2>2. CASE found
    <3>1. avatar'[t.avatar].data = t.id /\ t.id # 0
      <4>1. avatar \in Seq(AvatarType) /\ t.avatar \in 1 .. Len(avatar) /\ avatar[t.avatar] \in AvatarType
        BY <1>2 DEF AvatarsRight, Avatars
      <4>2. avatar'[t.avatar] = [avatar[t.avatar] EXCEPT !.data = t.id]
        BY <2>1, <2>2, <4>1
      <4> QED BY <4>1, <4>2 DEF AvatarType, AvatarsRight, FetchType
    <3> QED BY <1>3, <2>1, <2>2, <3>1 DEF HasDataNext
  <2>3. CASE ~found
    BY <1>3, <2>1, <2>3
  <2> QED BY <2>2, <2>3
<1>8. ASSUME NEW t \in fetches, NEW whole \in BOOLEAN, FetchEnds(t, whole) PROVE \A x \in fetches' : Fetched(x)
  <2>1. HasDataNext(t.avatar) /\ Becomes(t, IF whole THEN "got" ELSE "failed") /\ (whole => t.id \in full')
    BY <1>1, <1>2, <1>8 DEF FetchEnds, AvatarsRight
  <2>2. CASE whole
    BY <1>3, <2>1, <2>2
  <2>3. CASE ~whole
    BY <1>3, <2>1, <2>3
  <2> QED BY <2>2, <2>3
<1>9. ASSUME NEW c \in Clients, NEW t \in fetches, NEW error \in BOOLEAN, Updated(c, t, error)
      PROVE  \A x \in fetches' : Fetched(x)
  <2> DEFINE y == [t EXCEPT !.for = 0]
  <2>1. y \in FetchType /\ y.avatar = t.avatar /\ y.at = t.at /\ y.id = t.id
    BY DEF AvatarsRight, FetchType
  <2>2. Fetched(y)
    BY <1>1, <1>2, <2>1 DEF FetchType
  <2>3. fetches' \subseteq fetches \cup {y}
    BY <1>9 DEF Updated, Others
  <2> QED BY <1>2, <2>2, <2>3
<1>10. \A x \in fetches' : Fetched(x)
  BY <1>4, <1>5, <1>6, <1>7, <1>8, <1>9
     DEF OutletsNext, outletVars, docheck, WriteLine, sendEmail, addToMailQueue,
         Encode, deleteOldLog, RestartLog, NextDay, Increase, Push, writeMetric, RestartMetrics,
         processMailQueue, FallsSilent, DialAndSend, Expire, avatars
<1> QED BY <1>10

LEMMA CacheStays ==
  ASSUME AvatarsRight, [OutletsNext]_outletVars
  PROVE  \A h \in DOMAIN cache' : cache'[h] \in Avatars' /\ HasDataNext(cache'[h])
<1>1. /\ Avatars \subseteq Avatars' /\ \A a \in Avatars : HasData(a) => HasDataNext(a)
  BY BytesStay
<1>2. CASE UNCHANGED cache
  BY <1>1, <1>2 DEF AvatarsRight
<1>3. ASSUME NEW c \in Clients, NEW t \in fetches, NEW error \in BOOLEAN, Updated(c, t, error), cache' # cache
      PROVE  \A h \in DOMAIN cache' : cache'[h] \in Avatars' /\ HasDataNext(cache'[h])
  <2>1. /\ ~error /\ t.at = "got"
        /\ cache' = [x \in DOMAIN cache \cup {avatar[t.avatar].hash} |->
                       IF x = avatar[t.avatar].hash THEN t.avatar ELSE cache[x]]
    BY <1>3 DEF Updated, Cached
  <2>2. t.avatar \in Avatars /\ HasData(t.avatar)
    BY <2>1 DEF AvatarsRight, FetchType
  <2>3. \A h \in DOMAIN cache' : cache'[h] = t.avatar \/ (h \in DOMAIN cache /\ cache'[h] = cache[h])
    BY <2>1
  <2> QED BY <1>1, <2>2, <2>3 DEF AvatarsRight
<1> QED BY <1>2, <1>3
        DEF OutletsNext, outletVars, docheck, WriteLine, sendEmail, addToMailQueue, Handler,
            Encode, deleteOldLog, RestartLog, NextDay, Increase, Push, writeMetric, RestartMetrics,
            processMailQueue, FallsSilent, DialAndSend, FetchBegins, FetchAnswered, FetchEnds, Expire, avatars

\* A goroutine comes to a page from the cache or from an update that went well.
LEMMA PagesStay ==
  ASSUME AvatarsRight, [OutletsNext]_outletVars
  PROVE  /\ DOMAIN client' = Clients
         /\ \A c \in Clients : client'[c].at = "page" =>
              /\ client'[c].avatar = 0 \/ (client'[c].avatar \in Avatars' /\ HasDataNext(client'[c].avatar))
              /\ client'[c].avatar # 0 => client'[c].own = 0 \/ client'[c].own \in full'
<1> DEFINE Shown(place) == place.at = "page" =>
             /\ place.avatar = 0 \/ (place.avatar \in Avatars' /\ HasDataNext(place.avatar))
             /\ place.avatar # 0 => place.own = 0 \/ place.own \in full'
<1>1. /\ Avatars \subseteq Avatars' /\ full \subseteq full' /\ \A a \in Avatars : HasData(a) => HasDataNext(a)
  BY BytesStay
<1>2. DOMAIN client = Clients /\ \A c \in Clients : Shown(client[c])
  BY <1>1 DEF AvatarsRight
<1>3. ASSUME NEW c \in Clients, NEW place, GoesOn(c, place), Shown(place)
      PROVE  DOMAIN client' = Clients /\ \A e \in Clients : Shown(client'[e])
  <2>1. DOMAIN client' = Clients /\ client'[c] = place /\ \A e \in Clients \ {c} : client'[e] = client[e]
    BY <1>2, <1>3 DEF GoesOn
  <2> HIDE DEF Shown
  <2> QED BY <1>2, <1>3, <2>1
<1>4. CASE UNCHANGED client
  BY <1>2, <1>4
<1>5. ASSUME NEW c \in Clients, NEW place, GoesOn(c, place), place.at # "page"
      PROVE  DOMAIN client' = Clients /\ \A e \in Clients : Shown(client'[e])
  BY <1>3, <1>5
<1>6. ASSUME NEW c \in Clients, NEW h \in Hashes, Handler(c, h)
      PROVE  DOMAIN client' = Clients /\ \A e \in Clients : Shown(client'[e])
  <2> DEFINE anew == h \notin DOMAIN cache
             a == IF anew THEN Len(avatar) + 1 ELSE cache[h]
             old == anew \/ ~avatar[a].fresh
  <2>1. GoesOn(c, IF old THEN [at |-> "update"] ELSE Page(a, FALSE, 0))
    BY <1>6 DEF Handler
  <2>2. CASE old
    BY <1>5, <2>1, <2>2
  <2>3. CASE ~old
    <3>1. a \in Avatars' /\ HasDataNext(a)
      BY <1>1, <2>3 DEF AvatarsRight
    <3> HIDE DEF a
    <3>2. Shown(Page(a, FALSE, 0))
      BY <3>1 DEF Page
    <3>3. GoesOn(c, Page(a, FALSE, 0))
      BY <2>1, <2>3
    <3> QED BY <1>3, <3>2, <3>3
  <2> QED BY <2>2, <2>3
<1>7. ASSUME NEW c \in Clients, NEW t \in fetches, NEW error \in BOOLEAN, Updated(c, t, error)
      PROVE  DOMAIN client' = Clients /\ \A e \in Clients : Shown(client'[e])
  <2>1. GoesOn(c, Page(t.avatar, error, t.id)) /\ (~error => t.at = "got")
    BY <1>7 DEF Updated
  <2>2. t.avatar \in Avatars' /\ (~error => HasDataNext(t.avatar) /\ t.id \in full')
    BY <1>1, <2>1 DEF AvatarsRight, FetchType
  <2>3. Shown(Page(t.avatar, error, t.id))
    BY <2>2 DEF Page
  <2> QED BY <1>3, <2>1, <2>3
<1>8. ASSUME NEW c \in Clients, WriteLine(c) \/ addToMailQueue(c) \/ Encode(c)
      PROVE  DOMAIN client' = Clients /\ \A e \in Clients : Shown(client'[e])
  BY <1>5, <1>8 DEF WriteLine, addToMailQueue, Encode
<1>9. ASSUME NEW c \in Clients, NEW outcome, docheck(c, outcome)
      PROVE  DOMAIN client' = Clients /\ \A e \in Clients : Shown(client'[e])
  BY <1>5, <1>9 DEF docheck
<1>10. ASSUME NEW c \in Clients, NEW builds, sendEmail(c, builds)
       PROVE  DOMAIN client' = Clients /\ \A e \in Clients : Shown(client'[e])
  BY <1>4, <1>5, <1>10 DEF sendEmail
<1>11. ASSUME RestartLog
       PROVE  DOMAIN client' = Clients /\ \A e \in Clients : Shown(client'[e])
  BY <1>11 DEF RestartLog
<1> QED BY <1>4, <1>6, <1>7, <1>8, <1>9, <1>10, <1>11
        DEF OutletsNext, outletVars, deleteOldLog, NextDay, Increase, Push, writeMetric, RestartMetrics,
            processMailQueue, FallsSilent, DialAndSend, FetchBegins, FetchAnswered, FetchEnds, Expire

(***************************************************************************)
(* A page is given a whole image, unless the avatar is fetched anew        *)
(* meanwhile, or such a fetch broke off.                                   *)
(***************************************************************************)
THEOREM AlwaysAnImage == OutletsSpec => []ServesAnImage
<1>1. OutletsInit => AvatarsRight
  <2> SUFFICES ASSUME OutletsInit PROVE AvatarsRight
    OBVIOUS
  <2>1. avatar = <<>> /\ avatar \in Seq(AvatarType) /\ Avatars = {}
    BY EmptySeq DEF OutletsInit, Avatars
  <2> QED BY <2>1 DEF OutletsInit, AvatarsRight
<1>2. AvatarsRight /\ [OutletsNext]_outletVars => AvatarsRight'
  <2> SUFFICES ASSUME AvatarsRight, [OutletsNext]_outletVars PROVE AvatarsRight'
    OBVIOUS
  <2>1. uses' \in Nat /\ avatar' \in Seq(AvatarType)
    BY BytesStay
  <2>2. \A a \in Avatars' : HasData(a)' => Accounted(avatar[a].data)'
    BY BuffersKnown DEF HasData, HasDataNext, Accounted, AccountedNext, Filling
  <2> QED BY <2>1, <2>2, CacheStays, FetchesStay, PagesStay DEF AvatarsRight, HasData, HasDataNext
<1>3. AvatarsRight => ServesAnImage
  <2> SUFFICES ASSUME AvatarsRight, NEW c \in Clients, client[c].at = "page", client[c].avatar # 0
               PROVE  LET a == client[c].avatar IN
                      \/ avatar[a].data \in full
                      \/ /\ avatar[a].data # client[c].own
                         /\ \/ avatar[a].data \in cut
                            \/ \E t \in fetches : t.id = avatar[a].data /\ t.at = "filling"
    BY DEF ServesAnImage
  <2>1. PICK a \in Avatars : a = client[c].avatar /\ HasData(a)
    BY DEF AvatarsRight
  <2>2. Accounted(avatar[a].data)
    BY <2>1 DEF AvatarsRight
  <2>3. client[c].own = 0 \/ client[c].own \in full
    BY DEF AvatarsRight
  <2> QED BY <2>1, <2>2, <2>3 DEF Accounted, Filling, HasData
<1> QED BY <1>1, <1>2, <1>3, PTL DEF OutletsSpec

(***************************************************************************)
(* What users save.                                                        *)
(***************************************************************************)
TagSets == (SUBSET Tags) \cup {Nil}

AnnotationRows ==
  [text : Nat, side : {"from", "to"}, region : Nat, dash : Panels, tags : TagSets]

Posts == [at : {"save", "mark", "saveEnd"}, id : Nat, v : Nat, region : BOOLEAN,
          tags : TagSets, dash : Panels]
Updates == [at : {"update", "updateEnd"}, id : Nat, v : Nat, region : BOOLEAN, tags : TagSets]
SavedLists == Lists \cup { Numbered(items) : items \in Lists }
Writes == [at : {"updateRow", "deleteItems", "insertItems"}, id : Nat, v : Nat, items : SavedLists]
Deletions == [at : {"delete"}, id : Nat]
Waiting == [at : {"idle"}, id : {0}]

OfAnnotations == Posts \cup Updates \cup Waiting
OfPlaylists == Writes \cup Deletions \cup Waiting

\* A behaviour is about one topic, and ids are not used twice.
ContentsTyped ==
  /\ made \in Nat /\ lastId \in Nat
  /\ req \in [Procs -> IF topic = "annotations" THEN OfAnnotations
                       ELSE IF topic = "playlists" THEN OfPlaylists ELSE Waiting]
  /\ \A p \in Procs :
       /\ req[p].id <= lastId /\ (req[p].id = 0 => req[p].at \in {"idle", "save", "insertItems"})
       /\ req[p].at \in {"idle", "save"} => req[p].id = 0

AnnotationsTyped ==
  /\ annotation \in [DOMAIN annotation -> AnnotationRows]
  /\ DOMAIN annotation \subseteq 1..lastId
  /\ \A id \in DOMAIN annotation : Row(id).region <= lastId
  /\ \A pair \in annotation_tag : pair[1] \in Nat /\ pair[1] <= lastId
  /\ topic # "annotations" => DOMAIN annotation = {}

PlaylistsTyped ==
  /\ playlist \in [DOMAIN playlist -> SavedLists]
  /\ DOMAIN playlist \subseteq 1..lastId
  /\ \A item \in playlist_item : item.playlist \in Nat /\ item.playlist <= lastId
  /\ topic # "playlists" => DOMAIN playlist = {}

\* Two requests for one thing are told.
Apart ==
  \A p \in Procs, q \in Procs : p # q /\ req[p].id = req[q].id /\ req[p].id # 0 => req[p].id \in torn

\* An annotation that is no region, the first row of one, and both its rows.
Point(s) == s \in DOMAIN annotation /\ Row(s).region = 0 /\ InRegion(s) = {}
Begun(s) == InRegion(s) = {s} /\ Row(s).side = "from"
Paired(s) ==
  /\ s \in InRegion(s) /\ Row(s).side = "from"
  /\ \E e \in InRegion(s) : EndOf(s) = {e} /\ Row(e).side = "to" /\ Row(e).dash = Row(s).dash
Alike(s) == \A e \in EndOf(s) : Row(e).text = Row(s).text /\ Row(e).tags = Row(s).tags
Says(s, r) == Row(s).text = r.v /\ Row(s).tags = r.tags
ForRegion(r) == r.region

\* What a request for s has come to.
Underway(p, s) ==
  LET r == req[p] IN
  /\ r.at = "mark" => Point(s) /\ Row(s).dash = r.dash
  /\ r.at = "saveEnd" => Begun(s) /\ Says(s, r) /\ Row(s).dash = r.dash
  /\ r.at = "update" => IF ForRegion(r) THEN Paired(s) ELSE Point(s)
  /\ r.at = "updateEnd" => Paired(s) /\ Says(s, r)

\* The region s has its two rows, as far as a request for it has come.
RegionRight(s) ==
  s \in torn \/
    /\ \A p \in Procs : req[p].id = s => Underway(p, s)
    /\ Busy(s) \/ InRegion(s) = {} \/ (Paired(s) /\ Alike(s))

RegionsRight == \A s \in Nat \ {0} : RegionRight(s)

\* The tags of an annotation are those of annotation_tag.
TagsRight ==
  \A id \in DOMAIN annotation : Row(id).tags # Nil =>
    \A t \in Tags : <<id, t>> \in annotation_tag <=> t \in Row(id).tags
PairsRight == annotation_tag \subseteq Nat \X Tags

\* The items of playlist pl, as far as a request for it has come.
ListAs(p, pl) ==
  CASE req[p].at = "deleteItems" -> playlist[pl] = req[p].items
    [] req[p].at = "insertItems" -> playlist[pl] = req[p].items /\ Items(pl) = {}
    [] OTHER -> HasItems(pl)
ListRight(pl) ==
  pl \in torn \/
    /\ \A p \in Procs : req[p].id = pl => ListAs(p, pl)
    /\ Busy(pl) \/ HasItems(pl)
ListsRight == \A pl \in DOMAIN playlist : ListRight(pl)

Prefs == [theme : Themes, home : Dashboards \cup {0}]
PrefsRight ==
  /\ asked \in [Users -> Prefs] /\ dashboards \subseteq Dashboards
  /\ preferences \in [DOMAIN preferences -> Prefs] /\ DOMAIN preferences \subseteq Users
  /\ \A u \in Users : PrefsOf(u) = asked[u]

\* What a request marks or updates begins a region, or is in none.
Own(p) ==
  req[p].at \in {"mark", "update"} /\ req[p].id \in DOMAIN annotation =>
    Row(req[p].id).region \in {0, req[p].id}
OwnRows == \A p \in Procs : Own(p)

\* The tags of a region are known before its second row is.
TagsKnown ==
  \A p \in Procs : req[p].at \in {"mark", "saveEnd"} =>
    req[p].tags \in SUBSET Tags /\ (req[p].tags = Nil => req[p].tags = {})

\* What a step keeps of annotations, and of playlists.
AnnotationsRight == AnnotationsTyped /\ RegionsRight /\ OwnRows /\ TagsKnown /\ TagsRight /\ PairsRight
PlaylistsRight == PlaylistsTyped /\ ListsRight

ContentsInv == ContentsTyped /\ AnnotationsRight /\ PlaylistsRight /\ Apart /\ PrefsRight
-----------------------------------------------------------------------------
LEMMA RequestKinds ==
  ASSUME ContentsTyped, NEW p \in Procs
  PROVE  /\ req[p].id \in Nat /\ req[p].id <= lastId
         /\ req[p].at \in {"save", "mark", "saveEnd"} => topic = "annotations" /\ req[p] \in Posts
         /\ req[p].at \in {"update", "updateEnd"} => topic = "annotations" /\ req[p] \in Updates
         /\ req[p].at \in {"updateRow", "deleteItems", "insertItems"} =>
              topic = "playlists" /\ req[p] \in Writes
         /\ req[p].at = "delete" => topic = "playlists" /\ req[p] \in Deletions
         /\ req[p].at \in {"save", "mark", "saveEnd", "update", "updateEnd", "updateRow", "deleteItems",
                           "insertItems", "delete", "idle"}
         /\ req[p].at = "idle" => req[p].id = 0
         /\ req[p].id = 0 => req[p].at \in {"idle", "save", "insertItems"}
         /\ req[p].at \in {"idle", "save"} => req[p].id = 0
  BY DEF ContentsTyped, OfAnnotations, OfPlaylists, Posts, Updates, Writes, Deletions, Waiting

LEMMA IdleWaits == Idle \in Waiting /\ Idle.at = "idle" /\ Idle.id = 0
  BY DEF Idle, Waiting

\* The types of a step of one request.
LEMMA OneTyped ==
  ASSUME ContentsTyped, NEW p \in Procs, NEW r, req' = [req EXCEPT ![p] = r],
         made' \in Nat, lastId' \in Nat, lastId' >= lastId, UNCHANGED topic,
         \/ topic = "annotations" /\ r \in OfAnnotations
         \/ topic = "playlists" /\ r \in OfPlaylists,
         r.id <= lastId', r.id = 0 => r.at \in {"idle", "save", "insertItems"},
         r.at \in {"idle", "save"} => r.id = 0
  PROVE  ContentsTyped'
<1>1. req' \in [Procs -> IF topic' = "annotations" THEN OfAnnotations
                         ELSE IF topic' = "playlists" THEN OfPlaylists ELSE Waiting]
  BY DEF ContentsTyped
<1>2. ASSUME NEW q \in Procs
      PROVE  /\ req'[q].id <= lastId' /\ (req'[q].id = 0 => req'[q].at \in {"idle", "save", "insertItems"})
             /\ req'[q].at \in {"idle", "save"} => req'[q].id = 0
  <2>1. CASE q = p
    BY <2>1 DEF ContentsTyped
  <2>2. CASE q # p
    <3>1. req'[q] = req[q]
      BY <2>2 DEF ContentsTyped
    <3> QED BY <3>1, RequestKinds DEF ContentsTyped
  <2> QED BY <2>1, <2>2
<1> QED BY <1>1, <1>2 DEF ContentsTyped

LEMMA AnswerTyped ==
  ASSUME ContentsTyped, NEW p \in Procs, Answers(p), topic \in {"annotations", "playlists"},
         lastId' \in Nat, lastId' >= lastId, UNCHANGED topic
  PROVE  ContentsTyped' /\ req' = [req EXCEPT ![p] = Idle] /\ req'[p] = Idle
<1>1. lastId' >= 0 /\ Idle.id <= lastId'
  BY IdleWaits
<1>2. made' \in Nat
  BY DEF Answers, ContentsTyped
<1>3. \/ topic = "annotations" /\ Idle \in OfAnnotations
      \/ topic = "playlists" /\ Idle \in OfPlaylists
  BY IdleWaits DEF OfAnnotations, OfPlaylists
<1>4. req' = [req EXCEPT ![p] = Idle] /\ req'[p] = Idle
  BY DEF Answers, ContentsTyped
<1>5. Idle.id = 0 /\ Idle.at \in {"idle", "save"}
  BY IdleWaits
<1> QED BY ONLY <1>1, <1>2, <1>3, <1>4, <1>5, OneTyped, ContentsTyped, lastId' \in Nat, lastId' >= lastId, UNCHANGED topic

\* The next step of a request.
LEMMA MoveTyped ==
  ASSUME ContentsTyped, NEW p \in Procs, NEW step, Moves(p, step),
         \/ req[p] \in Posts /\ step \in {"mark", "saveEnd"}
         \/ req[p] \in Updates /\ step = "updateEnd"
         \/ req[p] \in Writes /\ step \in {"updateRow", "deleteItems", "insertItems"},
         req[p].id # 0, lastId' \in Nat, lastId' >= lastId, UNCHANGED topic
  PROVE  ContentsTyped' /\ req' = [req EXCEPT ![p] = [req[p] EXCEPT !.at = step]]
         /\ req'[p].at = step /\ req'[p].id = req[p].id
<1> DEFINE r == [req[p] EXCEPT !.at = step]
<1>1. req' = [req EXCEPT ![p] = r] /\ req'[p] = r
  BY DEF Moves, ContentsTyped
<1>2. \/ topic = "annotations" /\ req[p] \in Posts \cup Updates
      \/ topic = "playlists" /\ req[p] \in Writes
  BY RequestKinds DEF Posts, Updates, Writes
<1>3. \/ req[p] \in Posts /\ r \in Posts
      \/ req[p] \in Updates /\ r \in Updates
      \/ req[p] \in Writes /\ r \in Writes
  BY DEF Posts, Updates, Writes
<1>4. r.at = step /\ r.id = req[p].id
  BY <1>3 DEF Posts, Updates, Writes
<1>5. \/ topic = "annotations" /\ r \in OfAnnotations
      \/ topic = "playlists" /\ r \in OfPlaylists
  BY <1>2, <1>3 DEF OfAnnotations, OfPlaylists, Posts, Updates, Writes
<1>6. r.id <= lastId' /\ r.id # 0
  BY <1>4, RequestKinds DEF ContentsTyped
<1>7. made' \in Nat
  BY DEF Moves, ContentsTyped
<1> HIDE DEF r
<1>8. ContentsTyped'
  <2>1. r.id = 0 <=> r.at \in {"idle", "save"}
    BY <1>4, <1>6
  <2> QED BY <1>1, <1>5, <1>6, <1>7, <2>1, OneTyped
<1> QED BY <1>1, <1>4, <1>8 DEF r

-----------------------------------------------------------------------------
(* Regions *)

LEMMA BusyIs ==
  ASSUME ContentsTyped, NEW s \in Nat \ {0}
  PROVE  Busy(s) <=> \E p \in Procs : req[p].id = s
  BY RequestKinds DEF Busy

LEMMA BusyThen ==
  ASSUME ContentsTyped', NEW s \in Nat \ {0}
  PROVE  Busy(s)' <=> \E p \in Procs : req'[p].id = s
  BY DEF Busy, ContentsTyped, OfAnnotations, OfPlaylists, Posts, Updates, Writes, Deletions, Waiting

\* The rows of s, and its first row, are as they were.
Untouched(s) ==
  /\ InRegion(s)' = InRegion(s)
  /\ s \in DOMAIN annotation' <=> s \in DOMAIN annotation
  /\ s \in DOMAIN annotation => annotation'[s] = annotation[s]
  /\ \A id \in InRegion(s) : annotation'[id] = annotation[id]

\* Nothing is of s.
Unused(s) == InRegion(s)' = {} /\ ~Busy(s)'

\* A request for s, or none.
Asking(s) == \A p \in Procs : req'[p].id = s => req'[p] = req[p]

LEMMA SameRegion ==
  ASSUME NEW s, Untouched(s)
  PROVE  /\ Point(s) => Point(s)'
         /\ Begun(s) => Begun(s)'
         /\ Paired(s) => Paired(s)'
         /\ s \in DOMAIN annotation /\ Alike(s) => Alike(s)'
         /\ s \in DOMAIN annotation => Row(s)' = Row(s)
         /\ Begun(s) \/ Paired(s) \/ Point(s) => s \in DOMAIN annotation
<1>1. EndOf(s)' = EndOf(s)
  BY DEF EndOf, Untouched
<1>2. \A id \in InRegion(s) : Row(id)' = Row(id)
  BY DEF Row, Untouched
<1>3. s \in DOMAIN annotation => Row(s)' = Row(s)
  BY DEF Row, Untouched
<1>4. \A id \in InRegion(s) : id \in DOMAIN annotation
  BY DEF InRegion
<1>5. EndOf(s) \subseteq InRegion(s)
  BY DEF EndOf
<1>6. InRegion(s)' = InRegion(s) /\ (s \in DOMAIN annotation' <=> s \in DOMAIN annotation)
  BY DEF Untouched
<1>7. Point(s) => Point(s)'
  BY <1>3, <1>6 DEF Point
<1>8. Begun(s) => Begun(s)'
  BY <1>2, <1>6 DEF Begun
<1>9. ASSUME Paired(s) PROVE Paired(s)'
  <2>1. PICK e \in InRegion(s) : EndOf(s) = {e} /\ Row(e).side = "to" /\ Row(e).dash = Row(s).dash
    BY <1>9 DEF Paired
  <2>2. s \in InRegion(s) /\ Row(s).side = "from"
    BY <1>9 DEF Paired
  <2>3. Row(e)' = Row(e) /\ Row(s)' = Row(s)
    BY <1>2, <2>1, <2>2
  <2>4. EndOf(s)' = {e} /\ Row(e)'.side = "to" /\ Row(e)'.dash = Row(s)'.dash /\ e \in InRegion(s)'
    BY <1>1, <1>6, <2>1, <2>3
  <2> QED BY <1>6, <2>2, <2>3, <2>4 DEF Paired
<1>10. ASSUME Alike(s), NEW e \in EndOf(s) PROVE Row(e)' = Row(e)
  BY <1>2, <1>5
<1>11. ASSUME Alike(s), s \in DOMAIN annotation PROVE Alike(s)'
  BY <1>1, <1>3, <1>10, <1>11 DEF Alike
<1>12. Begun(s) \/ Paired(s) \/ Point(s) => s \in DOMAIN annotation
  BY <1>4 DEF Begun, Paired, Point
<1> QED BY <1>3, <1>7, <1>8, <1>9, <1>11, <1>12

\* What a request has come to does not change with what is not of its region.
LEMMA UnderwayStays ==
  ASSUME NEW s, Untouched(s), NEW p \in Procs, req'[p] = req[p], Underway(p, s)
  PROVE  Underway(p, s)'
<1>1. \A r : s \in DOMAIN annotation => (Says(s, r)' <=> Says(s, r))
  BY SameRegion DEF Says
<1>2. ASSUME req[p].at = "mark" PROVE Point(s)' /\ Row(s)'.dash = req[p].dash
  BY <1>2, SameRegion DEF Underway
<1>3. ASSUME req[p].at = "saveEnd" PROVE Begun(s)' /\ Says(s, req[p])' /\ Row(s)'.dash = req[p].dash
  <2>1. Begun(s) /\ Says(s, req[p]) /\ Row(s).dash = req[p].dash
    BY <1>3 DEF Underway
  <2>2. s \in DOMAIN annotation /\ Row(s)' = Row(s) /\ Begun(s)'
    BY <2>1, SameRegion
  <2> QED BY <2>1, <2>2, req'[p] = req[p] DEF Says
<1>4. ASSUME req[p].at = "update" PROVE IF ForRegion(req[p]) THEN Paired(s)' ELSE Point(s)'
  BY <1>4, SameRegion DEF Underway
<1>5. ASSUME req[p].at = "updateEnd" PROVE Paired(s)' /\ Says(s, req[p])'
  <2>1. Paired(s) /\ Says(s, req[p])
    BY <1>5 DEF Underway
  <2>2. s \in DOMAIN annotation /\ Row(s)' = Row(s) /\ Paired(s)'
    BY <2>1, SameRegion
  <2> QED BY <2>1, <2>2, req'[p] = req[p] DEF Says
<1> QED BY <1>2, <1>3, <1>4, <1>5, req'[p] = req[p] DEF Underway, Says, ForRegion

LEMMA RegionStays ==
  ASSUME ContentsTyped, ContentsTyped', NEW s \in Nat \ {0}, RegionRight(s), torn \subseteq torn',
         Untouched(s), Asking(s), \A p \in Procs : req[p].id = s => req'[p] = req[p]
  PROVE  RegionRight(s)'
<1> SUFFICES ASSUME s \notin torn'
             PROVE  RegionRight(s)'
  BY DEF RegionRight
<1>1. (\A p \in Procs : req[p].id = s => Underway(p, s)) /\ (Busy(s) \/ InRegion(s) = {} \/ (Paired(s) /\ Alike(s)))
  BY DEF RegionRight
<1>2. ASSUME NEW p \in Procs, req'[p].id = s
      PROVE  Underway(p, s)'
  <2>1. req'[p] = req[p]
    BY <1>2 DEF Asking
  <2> QED BY <1>1, <1>2, <2>1, UnderwayStays
<1>3. Busy(s) => Busy(s)'
  BY BusyIs, BusyThen
<1>4. InRegion(s) = {} => InRegion(s)' = {}
  BY DEF Untouched
<1>5. Paired(s) /\ Alike(s) => (Paired(s) /\ Alike(s))'
  BY SameRegion
<1>6. Busy(s)' \/ InRegion(s)' = {} \/ (Paired(s) /\ Alike(s))'
  BY <1>1, <1>3, <1>4, <1>5
<1> QED BY <1>2, <1>6 DEF RegionRight

LEMMA UnusedRight ==
  ASSUME ContentsTyped', NEW s \in Nat \ {0}, Unused(s)
  PROVE  RegionRight(s)'
  BY BusyThen DEF Unused, RegionRight

\* Another region than s, as a request for s leaves it.
Elsewhere(s) ==
  \A t \in Nat \ {0} : t # s => t \in torn' \/ Untouched(t) \/ Unused(t)

\* What is left of a region that a request for s has come to the end of.
Left(p, s) ==
  IF req'[p].id = s THEN Underway(p, s)' ELSE InRegion(s)' = {} \/ (Paired(s) /\ Alike(s))'

\* A request for s, which is alone with it or shares it.
LEMMA OneRegion ==
  ASSUME ContentsTyped, ContentsTyped', RegionsRight, NEW p \in Procs, NEW s \in Nat, torn \subseteq torn',
         \A q \in Procs : q # p => req'[q] = req[q],
         req[p].id \in {0, s}, req'[p].id \in {0, s}, Elsewhere(s),
         s # 0 /\ s \notin torn' => Left(p, s) /\ \A q \in Procs : q # p => req[q].id # s
  PROVE  RegionsRight'
<1> SUFFICES ASSUME NEW t \in Nat \ {0}
             PROVE  RegionRight(t)'
  BY DEF RegionsRight
<1>1. RegionRight(t)
  BY DEF RegionsRight
<1>2. CASE t # s
  <2>1. CASE t \in torn'
    BY <2>1 DEF RegionRight
  <2>2. CASE Untouched(t)
    <3>1. Asking(t) /\ \A q \in Procs : req[q].id = t => req'[q] = req[q]
      BY <1>2 DEF Asking
    <3> QED BY <1>1, <2>2, <3>1, RegionStays
  <2>3. CASE Unused(t)
    BY <2>3, UnusedRight
  <2> QED BY <1>2, <2>1, <2>2, <2>3 DEF Elsewhere
<1>3. CASE t = s
  <2>1. CASE s \in torn'
    BY <1>3, <2>1 DEF RegionRight
  <2>2. CASE s \notin torn'
    <3>1. Left(p, s) /\ \A q \in Procs : req'[q].id = s => q = p
      BY <1>3, <2>2
    <3>2. CASE req'[p].id = s
      <4>1. Underway(p, s)' /\ Busy(s)'
        BY <1>3, <3>1, <3>2, BusyThen DEF Left
      <4> QED BY <1>3, <3>1, <4>1 DEF RegionRight
    <3>3. CASE req'[p].id # s
      <4>1. InRegion(s)' = {} \/ (Paired(s) /\ Alike(s))'
        BY <3>1, <3>3 DEF Left
      <4> QED BY <1>3, <3>1, <3>3, <4>1 DEF RegionRight
    <3> QED BY <3>2, <3>3
  <2> QED BY <2>1, <2>2
<1> QED BY <1>2, <1>3

-----------------------------------------------------------------------------
(* Rows *)

NoNil(tags) == IF tags = Nil THEN {} ELSE tags

LEMMA NoNilTags ==
  ASSUME NEW tags \in TagSets
  PROVE  NoNil(tags) \in SUBSET Tags
  BY DEF NoNil, TagSets

\* A new row has an id that none had before.
LEMMA SaveRows ==
  ASSUME AnnotationsTyped, lastId \in Nat, NEW r, NEW side \in {"from", "to"}, NEW region \in Nat,
         Save(r, side, region), region <= lastId, r.v \in Nat, r.dash \in Panels, r.tags \in TagSets,
         topic = "annotations", UNCHANGED topic
  PROVE  /\ AnnotationsTyped' /\ lastId' = lastId + 1 /\ lastId' \notin DOMAIN annotation
         /\ DOMAIN annotation' = DOMAIN annotation \cup {lastId'}
         /\ \A id \in DOMAIN annotation : annotation'[id] = annotation[id]
         /\ annotation'[lastId'] = [text |-> r.v, side |-> side, region |-> region, dash |-> r.dash,
                                    tags |-> NoNil(r.tags)]
         /\ annotation_tag' = annotation_tag \cup Pairs(lastId', NoNil(r.tags))
<1> DEFINE row == [text |-> r.v, side |-> side, region |-> region, dash |-> r.dash, tags |-> NoNil(r.tags)]
<1>1. lastId' = lastId + 1 /\ annotation' = With(annotation, lastId', row)
      /\ annotation_tag' = annotation_tag \cup Pairs(lastId', NoNil(r.tags))
  BY DEF Save, NoNil
<1>2. NoNil(r.tags) \in SUBSET Tags
  BY NoNilTags
<1>3. row \in AnnotationRows
  BY <1>2 DEF AnnotationRows, TagSets
<1>4. row.region = region
  OBVIOUS
<1> HIDE DEF row
<1>5. lastId' \notin DOMAIN annotation
  BY <1>1 DEF AnnotationsTyped
<1>6. DOMAIN annotation' = DOMAIN annotation \cup {lastId'} /\ annotation'[lastId'] = row
      /\ \A id \in DOMAIN annotation : annotation'[id] = annotation[id]
  BY <1>1, <1>5 DEF With
<1>7. annotation' \in [DOMAIN annotation' -> AnnotationRows]
  <2>1. annotation' = [z \in DOMAIN annotation' |-> annotation'[z]]
    BY <1>1, <1>6 DEF With
  <2>2. \A z \in DOMAIN annotation' : annotation'[z] \in AnnotationRows
    BY <1>3, <1>6 DEF AnnotationsTyped
  <2> QED BY <2>1, <2>2
<1>8. DOMAIN annotation' \subseteq 1..lastId'
  BY <1>1, <1>6 DEF AnnotationsTyped
<1>9. \A id \in DOMAIN annotation' : Row(id)'.region <= lastId'
  <2>1. TAKE id \in DOMAIN annotation'
  <2>2. CASE id = lastId'
    BY <1>1, <1>4, <1>6, <2>2 DEF Row
  <2>3. CASE id # lastId'
    <3>1. id \in DOMAIN annotation /\ annotation'[id] = annotation[id]
      BY <1>6, <2>3
    <3>2. annotation[id].region <= lastId /\ annotation[id].region \in Nat
      BY <3>1 DEF AnnotationsTyped, Row, AnnotationRows
    <3> QED BY <1>1, <3>1, <3>2 DEF Row
  <2> QED BY <2>2, <2>3
<1>10. \A pair \in annotation_tag' : pair[1] \in Nat /\ pair[1] <= lastId'
  BY <1>1 DEF AnnotationsTyped, Pairs
<1>11. AnnotationsTyped'
  BY <1>7, <1>8, <1>9, <1>10 DEF AnnotationsTyped
<1> QED BY <1>1, <1>5, <1>6, <1>11 DEF row

\* An update changes one row.
LEMMA WriteRows ==
  ASSUME AnnotationsTyped, lastId \in Nat, NEW id \in DOMAIN annotation, NEW r, NEW side \in {"from", "to"},
         NEW region \in Nat, Write(id, r, side, region), region <= lastId, r.v \in Nat, r.tags \in TagSets,
         UNCHANGED topic
  PROVE  /\ AnnotationsTyped' /\ UNCHANGED lastId
         /\ DOMAIN annotation' = DOMAIN annotation
         /\ \A k \in DOMAIN annotation : k # id => annotation'[k] = annotation[k]
         /\ annotation'[id] = [text |-> r.v, side |-> side,
              region |-> IF region # 0 THEN region ELSE Row(id).region,
              dash |-> Row(id).dash, tags |-> r.tags]
         /\ annotation_tag' = Tagged(id, r.tags)
<1> DEFINE row == [text |-> r.v, side |-> side, region |-> IF region # 0 THEN region ELSE Row(id).region,
                   dash |-> Row(id).dash, tags |-> r.tags]
<1>1. Row(id) \in AnnotationRows /\ Row(id).region <= lastId
  BY DEF AnnotationsTyped, Row
<1>2. row \in AnnotationRows /\ row.region <= lastId
  BY <1>1 DEF AnnotationRows
<1>4. annotation' = [annotation EXCEPT ![id] = row]
  BY DEF Write, Row
<1> HIDE DEF row
<1>5. DOMAIN annotation' = DOMAIN annotation /\ annotation'[id] = row
      /\ \A k \in DOMAIN annotation : k # id => annotation'[k] = annotation[k]
  BY <1>4
<1>6. annotation' \in [DOMAIN annotation' -> AnnotationRows]
  BY <1>2, <1>4 DEF AnnotationsTyped
<1>7. annotation_tag' = Tagged(id, r.tags) /\ UNCHANGED lastId
  BY DEF Write
<1>8. \A k \in DOMAIN annotation' : Row(k)'.region <= lastId'
  BY <1>2, <1>5, <1>7 DEF AnnotationsTyped, Row
<1>9. id <= lastId
  BY DEF AnnotationsTyped
<1>10. \A pair \in annotation_tag' : pair[1] \in Nat /\ pair[1] <= lastId'
  BY <1>7, <1>9 DEF AnnotationsTyped, Tagged, Pairs
<1>11. AnnotationsTyped'
  BY <1>5, <1>6, <1>7, <1>8, <1>10 DEF AnnotationsTyped
<1> QED BY <1>5, <1>7, <1>11 DEF row

-----------------------------------------------------------------------------
(* One request *)

\* No other request is for s, or that is told.
Sole(p, s) == \A q \in Procs : q # p /\ req[q].id = s /\ s # 0 => s \in torn'

Alone(p) == \A q \in Procs : q # p => req'[q] = req[q]

LEMMA SoleApart ==
  ASSUME Apart, NEW p \in Procs, Alone(p), Sole(p, req'[p].id), torn \subseteq torn'
  PROVE  Apart'
<1> SUFFICES ASSUME NEW q1 \in Procs, NEW q2 \in Procs, q1 # q2, req'[q1].id = req'[q2].id, req'[q1].id # 0
             PROVE  req'[q1].id \in torn'
  BY DEF Apart
<1>1. CASE q1 = p
  BY <1>1 DEF Alone, Sole
<1>2. CASE q2 = p
  BY <1>2 DEF Alone, Sole
<1>3. CASE q1 # p /\ q2 # p
  BY <1>3 DEF Alone, Apart
<1> QED BY <1>1, <1>2, <1>3

LEMMA StillSole ==
  ASSUME Apart, NEW p \in Procs, torn \subseteq torn'
  PROVE  Sole(p, req[p].id)
  BY DEF Apart, Sole

\* An annotation is given the region that it begins, or none other than it has.
RegionsKept ==
  \A id \in DOMAIN annotation' :
    IF id \in DOMAIN annotation THEN Row(id)'.region \in {Row(id).region, id} ELSE id > lastId

LEMMA OwnStays ==
  ASSUME ContentsTyped, OwnRows, TagsKnown, NEW p \in Procs, Alone(p), RegionsKept,
         req'[p].at \in {"mark", "update"} => req'[p].id = 0 \/ Own(p)',
         req'[p].at \in {"mark", "saveEnd"} =>
           req'[p].tags \in SUBSET Tags /\ (req'[p].tags = Nil => req'[p].tags = {}),
         ContentsTyped'
  PROVE  OwnRows' /\ TagsKnown'
<1>1. ASSUME NEW q \in Procs PROVE Own(q)'
  <2>1. CASE q = p
    <3>1. req'[p].at \in {"mark", "update"} => req'[p].id # 0
      BY DEF ContentsTyped
    <3>2. req'[p].at \notin {"mark", "update"} => Own(p)'
      BY DEF Own
    <3> QED BY <2>1, <3>1, <3>2
  <2>2. CASE q # p
    <3>1. req'[q] = req[q] /\ Own(q) /\ req[q].id \in Nat /\ req[q].id <= lastId /\ lastId \in Nat
      BY <2>2, RequestKinds DEF Alone, OwnRows, ContentsTyped
    <3>2. req[q].id \in DOMAIN annotation' =>
            req[q].id \in DOMAIN annotation /\ Row(req[q].id)'.region \in {Row(req[q].id).region, req[q].id}
      BY <3>1 DEF RegionsKept
    <3> QED BY <3>1, <3>2 DEF Own, Row
  <2> QED BY <2>1, <2>2
<1>2. OwnRows'
  BY <1>1 DEF OwnRows
<1>3. TagsKnown'
  BY DEF TagsKnown, Alone
<1> QED BY <1>2, <1>3

LEMMA SameRows ==
  ASSUME UNCHANGED <<annotation, annotation_tag>>
  PROVE  /\ \A s : Untouched(s)
         /\ \A s : Point(s)' = Point(s) /\ Begun(s)' = Begun(s) /\ Paired(s)' = Paired(s) /\ Alike(s)' = Alike(s)
         /\ \A s : InRegion(s)' = InRegion(s)
         /\ TagsRight => TagsRight'
         /\ PairsRight => PairsRight'
<1>1. \A s : InRegion(s)' = InRegion(s) /\ Row(s)' = Row(s) /\ EndOf(s)' = EndOf(s)
  BY DEF InRegion, Row, EndOf
<1>2. \A s : Untouched(s)
  BY <1>1 DEF Untouched
<1>3. TagsRight => TagsRight'
  BY <1>1 DEF TagsRight
<1>4. PairsRight => PairsRight'
  BY DEF PairsRight
<1> QED BY <1>1, <1>2, <1>3, <1>4 DEF Point, Begun, Paired, Alike

LEMMA PostAnnotationKeeps ==
  ASSUME ContentsTyped, AnnotationsRight, Apart, NEW p \in Procs, NEW region \in BOOLEAN,
         NEW tags \in TagSets, NEW d \in Panels, PostAnnotation(p, region, tags, d)
  PROVE  ContentsTyped' /\ AnnotationsRight' /\ Apart'
<1> DEFINE r == [at |-> "save", id |-> 0, v |-> made + 1, region |-> region, tags |-> tags, dash |-> d]
<1>1. /\ topic = "annotations" /\ made' = made + 1 /\ req' = [req EXCEPT ![p] = r]
      /\ req[p] = Idle /\ UNCHANGED <<topic, annotation, annotation_tag, lastId, torn>>
  BY DEF PostAnnotation, Arrives, OnlyAnnotations, annotations
<1>2. made + 1 \in Nat /\ lastId \in Nat
  BY DEF ContentsTyped
<1>3. r \in Posts /\ r.id = 0 /\ r.at = "save"
  BY <1>2 DEF Posts
<1> HIDE DEF r
<1>4. r \in OfAnnotations
  BY <1>3 DEF OfAnnotations
<1>5. ContentsTyped'
  <2>1. made' \in Nat /\ lastId' \in Nat /\ lastId' >= lastId /\ r.id <= lastId'
    BY <1>1, <1>2, <1>3
  <2> QED BY <1>1, <1>3, <1>4, <2>1, OneTyped
<1>6. req'[p] = r /\ Alone(p)
  BY <1>1 DEF Alone, ContentsTyped
<1>7. Sole(p, req'[p].id) /\ torn \subseteq torn'
  BY <1>1, <1>3, <1>6 DEF Sole
<1>8. Apart'
  BY <1>6, <1>7, SoleApart
<1>9. RegionsKept
  BY <1>1 DEF RegionsKept, Row
<1>10. OwnRows' /\ TagsKnown'
  BY <1>3, <1>5, <1>6, <1>9, OwnStays DEF AnnotationsRight
<1>11. AnnotationsTyped'
  BY <1>1 DEF AnnotationsRight, AnnotationsTyped, Row
<1>12. Elsewhere(0)
  BY <1>1, SameRows DEF Elsewhere
<1>13. RegionsRight'
  <2>1. req[p].id = 0
    BY <1>1, IdleWaits
  <2>2. \A q \in Procs : q # p => req'[q] = req[q]
    BY <1>6 DEF Alone
  <2>3. req[p].id \in {0, 0} /\ req'[p].id \in {0, 0}
    BY <1>3, <1>6, <2>1
  <2> QED BY <1>5, <1>7, <1>12, <2>2, <2>3, OneRegion, 0 \in Nat DEF AnnotationsRight
<1>14. TagsRight' /\ PairsRight'
  BY <1>1, SameRows DEF AnnotationsRight
<1> QED BY <1>5, <1>8, <1>10, <1>11, <1>13, <1>14 DEF AnnotationsRight

\* The tags of a new row, and those of a changed one.
LEMMA SaveTags ==
  ASSUME AnnotationsTyped, TagsRight, PairsRight, lastId \in Nat, NEW tags \in TagSets,
         lastId' = lastId + 1, lastId' \notin DOMAIN annotation,
         DOMAIN annotation' = DOMAIN annotation \cup {lastId'},
         \A id \in DOMAIN annotation : annotation'[id] = annotation[id],
         annotation'[lastId'].tags = NoNil(tags),
         annotation_tag' = annotation_tag \cup Pairs(lastId', NoNil(tags))
  PROVE  TagsRight' /\ PairsRight'
<1>1. NoNil(tags) \in SUBSET Tags
  BY NoNilTags
<1>2. \A pair \in annotation_tag : pair[1] # lastId'
  BY DEF AnnotationsTyped
<1>3. \A id, t : <<id, t>> \in annotation_tag' <=>
         <<id, t>> \in annotation_tag \/ (id = lastId' /\ t \in NoNil(tags))
  BY DEF Pairs
<1>4. ASSUME NEW id \in DOMAIN annotation', Row(id)'.tags # Nil, NEW t \in Tags
      PROVE  <<id, t>> \in annotation_tag' <=> t \in Row(id)'.tags
  <2>1. CASE id = lastId'
    <3>1. <<id, t>> \notin annotation_tag
      BY <1>2, <2>1
    <3> QED BY <1>3, <2>1, <3>1 DEF Row
  <2>2. CASE id # lastId'
    <3>1. id \in DOMAIN annotation /\ Row(id)' = Row(id)
      BY <2>2 DEF Row
    <3> QED BY <1>3, <1>4, <2>2, <3>1 DEF TagsRight
  <2> QED BY <2>1, <2>2
<1>5. annotation_tag' \subseteq Nat \X Tags
  BY <1>1 DEF PairsRight, Pairs
<1> QED BY <1>4, <1>5 DEF TagsRight, PairsRight

LEMMA WriteTags ==
  ASSUME AnnotationsTyped, TagsRight, PairsRight, lastId \in Nat, NEW id \in DOMAIN annotation, NEW tags \in TagSets,
         DOMAIN annotation' = DOMAIN annotation,
         \A k \in DOMAIN annotation : k # id => annotation'[k] = annotation[k],
         annotation'[id].tags = tags, annotation_tag' = Tagged(id, tags)
  PROVE  TagsRight' /\ PairsRight'
<1>1. tags # Nil => tags \in SUBSET Tags
  BY DEF TagSets
<1>2. \A k, t : k # id => (<<k, t>> \in annotation_tag' <=> <<k, t>> \in annotation_tag)
  BY DEF Tagged, Pairs
<1>3. \A t : tags # Nil => (<<id, t>> \in annotation_tag' <=> t \in tags)
  BY DEF Tagged, Pairs
<1>4. ASSUME NEW k \in DOMAIN annotation', Row(k)'.tags # Nil, NEW t \in Tags
      PROVE  <<k, t>> \in annotation_tag' <=> t \in Row(k)'.tags
  <2>1. CASE k = id
    BY <1>3, <1>4, <2>1 DEF Row
  <2>2. CASE k # id
    <3>1. k \in DOMAIN annotation /\ Row(k)' = Row(k)
      BY <2>2 DEF Row
    <3> QED BY <1>2, <1>4, <2>2, <3>1 DEF TagsRight
  <2> QED BY <2>1, <2>2
<1>5. id \in Nat
  BY DEF AnnotationsTyped
<1>6. annotation_tag' \subseteq Nat \X Tags
  BY <1>1, <1>5 DEF PairsRight, Tagged, Pairs
<1> QED BY <1>4, <1>6 DEF TagsRight, PairsRight

LEMMA SaveStartKeeps ==
  ASSUME ContentsTyped, AnnotationsRight, Apart, NEW p \in Procs, SaveStart(p), NEW s, s = lastId + 1
  PROVE  ContentsTyped' /\ AnnotationsRight' /\ Apart'
<1> DEFINE r == req[p]
           on == [r EXCEPT !.at = "mark", !.id = s, !.tags = NoNil(@)]
<1>1. /\ r.at = "save" /\ Save(r, "from", 0)
      /\ UNCHANGED <<topic, made, torn>>
  BY DEF SaveStart, OnlyAnnotations
<1>2. s = lastId' /\ req' = [req EXCEPT ![p] = IF ForRegion(r) THEN on ELSE Idle]
  BY DEF SaveStart, Save, ForRegion, NoNil
<1>3. req[p].id = 0 /\ topic = "annotations" /\ r \in Posts /\ lastId \in Nat /\ made \in Nat /\ AnnotationsTyped
  BY <1>1, RequestKinds DEF ContentsTyped, AnnotationsRight
<1>4. r.v \in Nat /\ r.dash \in Panels /\ r.tags \in TagSets /\ r.id \in Nat
  BY <1>3 DEF Posts
<1>5. /\ AnnotationsTyped' /\ lastId' = lastId + 1 /\ lastId' \notin DOMAIN annotation
      /\ DOMAIN annotation' = DOMAIN annotation \cup {lastId'}
      /\ \A id \in DOMAIN annotation : annotation'[id] = annotation[id]
      /\ annotation'[lastId'] = [text |-> r.v, side |-> "from", region |-> 0, dash |-> r.dash,
                                 tags |-> NoNil(r.tags)]
      /\ annotation_tag' = annotation_tag \cup Pairs(lastId', NoNil(r.tags))
  <2>1. 0 \in Nat /\ 0 <= lastId /\ UNCHANGED topic
    BY <1>1, <1>3
  <2> HIDE DEF r
  <2> QED BY <1>1, <1>3, <1>4, <2>1, SaveRows
<1>6. annotation'[s].region = 0 /\ annotation'[s].dash = r.dash /\ annotation'[s].tags = NoNil(r.tags)
  BY <1>5
<1>7. on \in Posts /\ on.id = s /\ on.at = "mark" /\ on.dash = r.dash /\ on.tags = NoNil(r.tags)
  <2>1. NoNil(r.tags) \in TagSets
    BY <1>4, NoNilTags DEF TagSets
  <2>2. s \in Nat
    BY <1>3
  <2> QED BY <1>3, <2>1, <2>2 DEF Posts
<1> HIDE DEF on, r
<1>8. req'[p] = (IF ForRegion(r) THEN on ELSE Idle) /\ Alone(p)
  BY <1>2 DEF Alone, ContentsTyped
<1>9. s \in Nat /\ s > lastId /\ s # 0
  BY <1>3, <1>5
<1>10. ContentsTyped'
  <2>1. made' \in Nat /\ lastId' \in Nat /\ lastId' >= lastId /\ UNCHANGED topic
    BY <1>1, <1>2, <1>3, <1>9
  <2>2. (IF ForRegion(r) THEN on ELSE Idle) \in OfAnnotations
    BY <1>7, IdleWaits DEF OfAnnotations
  <2>3. (IF ForRegion(r) THEN on ELSE Idle).id <= lastId'
    BY <1>2, <1>3, <1>7, <1>9, IdleWaits
  <2>4. (IF ForRegion(r) THEN on ELSE Idle).id = 0 <=> (IF ForRegion(r) THEN on ELSE Idle).at \in {"idle", "save"}
    BY <1>7, <1>9, IdleWaits
  <2> QED BY <1>2, <1>3, <2>1, <2>2, <2>3, <2>4, OneTyped
<1>11. \A q \in Procs : req[q].id # s
  BY <1>3, <1>9, RequestKinds
<1>12. torn \subseteq torn' /\ Sole(p, req'[p].id)
  <2>1. req'[p].id \in {0, s}
    BY <1>7, <1>8, IdleWaits
  <2> QED BY <1>1, <1>11, <2>1 DEF Sole
<1>13. Apart'
  BY <1>8, <1>12, SoleApart
<1>14. \A k : k # 0 => InRegion(k)' = InRegion(k)
  <2>1. \A k \in DOMAIN annotation : Row(k)' = Row(k)
    BY <1>5 DEF Row
  <2>2. Row(s)'.region = 0
    BY <1>6 DEF Row
  <2> QED BY <1>5, <2>1, <2>2 DEF InRegion
<1>15. Elsewhere(s)
  <2>1. ASSUME NEW t \in Nat \ {0}, t # s PROVE Untouched(t)
    <3>1. t \in DOMAIN annotation' <=> t \in DOMAIN annotation
      BY <1>5, <2>1
    <3>2. InRegion(t) \subseteq DOMAIN annotation
      BY DEF InRegion
    <3> QED BY <1>5, <1>14, <3>1, <3>2 DEF Untouched
  <2> QED BY <2>1 DEF Elsewhere
<1>16. Row(s)' = annotation'[s] /\ s \in DOMAIN annotation'
  BY <1>5 DEF Row
<1>17. InRegion(s)' = {}
  <2>1. InRegion(s) = {}
    BY <1>3, <1>9 DEF InRegion, AnnotationsTyped
  <2> QED BY <1>9, <1>14, <2>1
<1>18. Left(p, s)
  <2>1. CASE req'[p].id = s
    <3>1. req'[p] = on
      BY <1>8, <1>9, <2>1, IdleWaits
    <3>2. Point(s)' /\ Row(s)'.dash = on.dash
      BY <1>6, <1>7, <1>16, <1>17 DEF Point
    <3> QED BY <1>7, <2>1, <3>1, <3>2 DEF Left, Underway
  <2>2. CASE req'[p].id # s
    BY <1>17, <2>2 DEF Left
  <2> QED BY <2>1, <2>2
<1>19. RegionsRight'
  <2>1. req[p].id = 0 /\ req'[p].id \in {0, s}
    BY <1>3, <1>7, <1>8, IdleWaits
  <2>2. \A q \in Procs : q # p => req'[q] = req[q]
    BY <1>8 DEF Alone
  <2> QED BY <1>9, <1>10, <1>11, <1>12, <1>15, <1>18, <2>1, <2>2, OneRegion DEF AnnotationsRight
<1>20. RegionsKept
  BY <1>5, <1>9 DEF RegionsKept, Row
<1>21. OwnRows' /\ TagsKnown'
  <2>1. Own(p)'
    BY <1>6, <1>7, <1>8, <1>16, IdleWaits DEF Own
  <2>2. req'[p].at \in {"mark", "saveEnd"} =>
           req'[p].tags \in SUBSET Tags /\ (req'[p].tags = Nil => req'[p].tags = {})
    <3>1. NoNil(r.tags) \in SUBSET Tags /\ (NoNil(r.tags) = Nil => NoNil(r.tags) = {})
      BY <1>4, NoNilTags DEF NoNil
    <3> QED BY <1>7, <1>8, <3>1, IdleWaits
  <2> QED BY <1>8, <1>10, <1>20, <2>1, <2>2, OwnStays DEF AnnotationsRight
<1>22. TagsRight' /\ PairsRight'
  BY <1>3, <1>4, <1>5, <1>6, SaveTags DEF AnnotationsRight
<1> QED BY <1>5, <1>10, <1>13, <1>19, <1>21, <1>22 DEF AnnotationsRight

\* A row that begins its region, or is in none, is changed.
LEMMA WroteOwn ==
  ASSUME NEW s \in Nat \ {0}, s \in DOMAIN annotation, DOMAIN annotation' = DOMAIN annotation,
         \A k \in DOMAIN annotation : k # s => annotation'[k] = annotation[k],
         Row(s).region \in {0, s}, annotation'[s].region \in {0, s}, annotation'[s].region \in {Row(s).region, s}
  PROVE  /\ Elsewhere(s) /\ RegionsKept
         /\ Row(s)' = annotation'[s] /\ s \in DOMAIN annotation'
         /\ EndOf(s)' = EndOf(s) /\ EndOf(s) \subseteq DOMAIN annotation
         /\ \A e \in EndOf(s) : Row(e)' = Row(e)
         /\ InRegion(s)' = EndOf(s) \cup (IF annotation'[s].region = s THEN {s} ELSE {})
<1>1. \A k \in DOMAIN annotation : k # s => Row(k)' = Row(k)
  BY DEF Row
<1>2. Row(s)' = annotation'[s]
  BY DEF Row
<1>3. ASSUME NEW t \in Nat \ {0}, t # s PROVE Untouched(t)
  <2>1. InRegion(t)' = InRegion(t) /\ s \notin InRegion(t)
    BY <1>1, <1>2, <1>3 DEF InRegion
  <2>2. \A id \in InRegion(t) : id \in DOMAIN annotation /\ id # s
    BY <2>1 DEF InRegion
  <2> QED BY <1>3, <2>1, <2>2 DEF Untouched
<1>4. Elsewhere(s)
  BY <1>3 DEF Elsewhere
<1>5. RegionsKept
  BY <1>1, <1>2 DEF RegionsKept
<1>6. EndOf(s)' = EndOf(s) /\ EndOf(s) \subseteq DOMAIN annotation
  BY <1>1 DEF EndOf, InRegion
<1>7. \A e \in EndOf(s) : Row(e)' = Row(e)
  BY <1>1 DEF EndOf, InRegion
<1>8. InRegion(s)' = EndOf(s) \cup (IF annotation'[s].region = s THEN {s} ELSE {})
  BY <1>1, <1>2 DEF EndOf, InRegion
<1> QED BY <1>2, <1>4, <1>5, <1>6, <1>7, <1>8

\* What a request that changes rows keeps, when its region is right.
LEMMA RequestKeeps ==
  ASSUME ContentsTyped, ContentsTyped', AnnotationsTyped', Apart, RegionsRight, OwnRows, TagsKnown,
         TagsRight', PairsRight', NEW p \in Procs, NEW s \in Nat, s # 0,
         Alone(p), req[p].id = s, req'[p].id \in {0, s}, torn \subseteq torn', Elsewhere(s), RegionsKept,
         s \notin torn' => Left(p, s),
         req'[p].at \in {"mark", "update"} => Own(p)',
         req'[p].at \in {"mark", "saveEnd"} =>
           req'[p].tags \in SUBSET Tags /\ (req'[p].tags = Nil => req'[p].tags = {})
  PROVE  AnnotationsRight' /\ Apart'
<1>1. Sole(p, s)
  BY StillSole
<1>2. Sole(p, req'[p].id)
  BY <1>1 DEF Sole
<1>3. Apart'
  BY <1>2, SoleApart
<1>4. \A q \in Procs : q # p => req'[q] = req[q]
  BY DEF Alone
<1>5. s \notin torn' => \A q \in Procs : q # p => req[q].id # s
  BY <1>1 DEF Sole
<1>6. req[p].id \in {0, s}
  OBVIOUS
<1>7. RegionsRight'
  BY <1>4, <1>5, <1>6, OneRegion
<1>8. OwnRows' /\ TagsKnown'
  BY OwnStays
<1> QED BY <1>3, <1>7, <1>8 DEF AnnotationsRight

LEMMA AnswerKeeps ==
  ASSUME ContentsTyped, AnnotationsRight, Apart, NEW p \in Procs, topic = "annotations", Answers(p), req[p].id # 0,
         UNCHANGED <<topic, annotation, annotation_tag, lastId>>, torn \subseteq torn',
         req[p].id \in torn'
  PROVE  ContentsTyped' /\ AnnotationsRight' /\ Apart'
<1>1. lastId \in Nat /\ lastId' = lastId /\ lastId' >= lastId /\ req[p].id \in Nat
  BY RequestKinds DEF ContentsTyped
<1>2. ContentsTyped' /\ req' = [req EXCEPT ![p] = Idle] /\ req'[p] = Idle
  BY <1>1, AnswerTyped
<1>3. Alone(p)
  BY <1>2 DEF Alone
<1>4. AnnotationsTyped'
  BY DEF AnnotationsRight, AnnotationsTyped, Row
<1>5. TagsRight' /\ PairsRight'
  BY SameRows DEF AnnotationsRight
<1>6. Elsewhere(req[p].id)
  BY SameRows DEF Elsewhere
<1>7. RegionsKept
  BY DEF RegionsKept, Row
<1>8. req'[p].id = 0 /\ req'[p].at = "idle"
  BY <1>2, IdleWaits
<1> QED BY <1>1, <1>2, <1>3, <1>4, <1>5, <1>6, <1>7, <1>8, RequestKeeps DEF AnnotationsRight

LEMMA MarkStartKeeps ==
  ASSUME ContentsTyped, AnnotationsRight, Apart, NEW p \in Procs, MarkStart(p)
  PROVE  ContentsTyped' /\ AnnotationsRight' /\ Apart'
<1> DEFINE r == req[p]
           s == req[p].id
<1>1. /\ r.at = "mark" /\ UNCHANGED <<topic, torn>>
      /\ IF s \in DOMAIN annotation
         THEN Write(s, r, "from", s) /\ Moves(p, "saveEnd")
         ELSE Answers(p) /\ UNCHANGED <<annotation, annotation_tag, lastId>>
  BY DEF MarkStart, OnlyAnnotations, annotations
<1>2. topic = "annotations" /\ r \in Posts /\ lastId \in Nat /\ AnnotationsTyped /\ s \in Nat /\ s # 0 /\ s <= lastId
  BY <1>1, RequestKinds DEF ContentsTyped, AnnotationsRight
<1>3. s \in torn \/ (Point(s) /\ Row(s).dash = r.dash)
  BY <1>1, <1>2 DEF AnnotationsRight, RegionsRight, RegionRight, Underway
<1>4. CASE s \notin DOMAIN annotation
  <2>1. s \in torn'
    BY <1>1, <1>3, <1>4 DEF Point
  <2> QED BY <1>1, <1>2, <1>4, <2>1, AnswerKeeps
<1>5. CASE s \in DOMAIN annotation
  <2>1. r.v \in Nat /\ r.tags \in TagSets
    BY <1>2 DEF Posts
  <2>2. /\ AnnotationsTyped' /\ UNCHANGED lastId
        /\ DOMAIN annotation' = DOMAIN annotation
        /\ \A k \in DOMAIN annotation : k # s => annotation'[k] = annotation[k]
        /\ annotation'[s] = [text |-> r.v, side |-> "from", region |-> IF s # 0 THEN s ELSE Row(s).region,
                             dash |-> Row(s).dash, tags |-> r.tags]
        /\ annotation_tag' = Tagged(s, r.tags)
    <3>1. Write(s, r, "from", s)
      BY <1>1, <1>5
    <3> HIDE DEF r, s
    <3> QED BY <1>1, <1>2, <1>5, <2>1, <3>1, WriteRows
  <2>3. /\ annotation'[s].region = s /\ annotation'[s].dash = Row(s).dash /\ annotation'[s].tags = r.tags
        /\ annotation'[s].text = r.v /\ annotation'[s].side = "from"
    BY <1>2, <2>2
  <2>4. ContentsTyped' /\ req' = [req EXCEPT ![p] = [req[p] EXCEPT !.at = "saveEnd"]]
        /\ req'[p].at = "saveEnd" /\ req'[p].id = req[p].id
    BY <1>1, <1>2, <1>5, <2>2, MoveTyped
  <2>5. Alone(p) /\ req'[p] = [r EXCEPT !.at = "saveEnd"]
    BY <2>4 DEF Alone, ContentsTyped
  <2>6. req'[p].dash = r.dash /\ req'[p].tags = r.tags /\ req'[p].v = r.v
    BY <1>2, <2>5 DEF Posts
  <2>7. Row(s).region \in {0, s}
    BY <1>1, <1>5 DEF AnnotationsRight, OwnRows, Own
  <2>8. PICK k : k = s
    OBVIOUS
  <2>9. /\ Elsewhere(k) /\ RegionsKept
        /\ Row(k)' = annotation'[k] /\ k \in DOMAIN annotation'
        /\ EndOf(k)' = EndOf(k)
        /\ InRegion(k)' = EndOf(k) \cup (IF annotation'[k].region = k THEN {k} ELSE {})
    BY <1>2, <1>5, <2>2, <2>3, <2>7, <2>8, WroteOwn
  <2>10. ASSUME k \notin torn' PROVE Left(p, k)
    <3>1. Point(k) /\ Row(k).dash = r.dash
      BY <1>1, <1>3, <2>8, <2>10
    <3>2. EndOf(k) = {}
      BY <3>1 DEF EndOf, Point
    <3>3. InRegion(k)' = {k}
      BY <2>3, <2>8, <2>9, <3>2
    <3>4. Begun(k)'
      BY <2>3, <2>8, <2>9, <3>3 DEF Begun
    <3>5. Row(k)'.dash = req'[p].dash /\ Row(k)'.text = req'[p].v /\ Row(k)'.tags = req'[p].tags
      BY <2>3, <2>6, <2>8, <2>9, <3>1
    <3> QED BY <2>4, <2>8, <3>4, <3>5 DEF Left, Underway, Says
  <2>11. TagsRight' /\ PairsRight'
    BY <1>2, <1>5, <2>1, <2>2, <2>3, WriteTags DEF AnnotationsRight
  <2>12. req'[p].tags \in SUBSET Tags /\ (req'[p].tags = Nil => req'[p].tags = {})
    BY <1>1, <2>6 DEF AnnotationsRight, TagsKnown
  <2>13. k \in Nat /\ k # 0 /\ req[p].id = k /\ req'[p].id = k /\ torn \subseteq torn'
    BY <1>1, <1>2, <2>4, <2>8
  <2>14. AnnotationsRight' /\ Apart'
    BY <2>2, <2>4, <2>5, <2>9, <2>10, <2>11, <2>12, <2>13, RequestKeeps DEF AnnotationsRight
  <2> QED BY <2>4, <2>14
<1> QED BY <1>4, <1>5

LEMMA SaveEndKeeps ==
  ASSUME ContentsTyped, AnnotationsRight, Apart, NEW p \in Procs, SaveEnd(p),
         NEW s, s = req[p].id, NEW e, e = lastId + 1
  PROVE  ContentsTyped' /\ AnnotationsRight' /\ Apart'
<1> DEFINE r == req[p]
<1>1. r.at = "saveEnd" /\ Save(r, "to", s) /\ Answers(p) /\ UNCHANGED <<topic, torn>>
  BY DEF SaveEnd, OnlyAnnotations
<1>2. topic = "annotations" /\ r \in Posts /\ lastId \in Nat /\ AnnotationsTyped /\ s \in Nat /\ s # 0 /\ s <= lastId
  BY <1>1, RequestKinds DEF ContentsTyped, AnnotationsRight
<1>3. s \in torn \/ (Begun(s) /\ Says(s, r) /\ Row(s).dash = r.dash)
  BY <1>1, <1>2 DEF AnnotationsRight, RegionsRight, RegionRight, Underway
<1>4. r.v \in Nat /\ r.dash \in Panels /\ r.tags \in TagSets
  BY <1>2 DEF Posts
<1>5. /\ AnnotationsTyped' /\ lastId' = lastId + 1 /\ lastId' \notin DOMAIN annotation
      /\ DOMAIN annotation' = DOMAIN annotation \cup {lastId'}
      /\ \A id \in DOMAIN annotation : annotation'[id] = annotation[id]
      /\ annotation'[lastId'] = [text |-> r.v, side |-> "to", region |-> s, dash |-> r.dash, tags |-> NoNil(r.tags)]
      /\ annotation_tag' = annotation_tag \cup Pairs(lastId', NoNil(r.tags))
  <2>1. UNCHANGED topic
    BY <1>1
  <2> HIDE DEF r
  <2> QED BY <1>1, <1>2, <1>4, <2>1, SaveRows
<1>6. e = lastId' /\ e \in Nat /\ e > lastId /\ e # s /\ e # 0
  BY <1>2, <1>5
<1>7. /\ annotation'[e].region = s /\ annotation'[e].dash = r.dash /\ annotation'[e].text = r.v
      /\ annotation'[e].side = "to" /\ annotation'[e].tags = NoNil(r.tags)
  BY <1>5, <1>6
<1>8. ContentsTyped' /\ req' = [req EXCEPT ![p] = Idle] /\ req'[p] = Idle
  BY <1>1, <1>2, <1>5, AnswerTyped
<1>9. Alone(p) /\ req'[p].id = 0 /\ req'[p].at = "idle"
  BY <1>8, IdleWaits DEF Alone, ContentsTyped
<1>10. \A k \in DOMAIN annotation : Row(k)' = Row(k) /\ k \in DOMAIN annotation' /\ k # e
  BY <1>5, <1>6 DEF Row
<1>11. Row(e)' = annotation'[e] /\ e \in DOMAIN annotation'
  BY <1>5, <1>6 DEF Row
<1>12. InRegion(s)' = InRegion(s) \cup {e} /\ \A t : t # s => InRegion(t)' = InRegion(t)
  BY <1>5, <1>6, <1>7, <1>10, <1>11 DEF InRegion
<1>13. Elsewhere(s)
  <2>1. ASSUME NEW t \in Nat \ {0}, t # s PROVE Untouched(t) \/ Unused(t)
    <3>1. CASE t = e
      <4>1. InRegion(t) = {}
        BY <1>2, <1>6, <3>1 DEF InRegion, AnnotationsTyped
      <4>2. \A q \in Procs : req'[q].id # t
        BY <1>2, <1>6, <1>9, <3>1, RequestKinds DEF Alone
      <4> QED BY <1>8, <1>12, <2>1, <4>1, <4>2, BusyThen DEF Unused
    <3>2. CASE t # e
      <4>1. t \in DOMAIN annotation' <=> t \in DOMAIN annotation
        BY <1>5, <1>6, <3>2
      <4>2. InRegion(t) \subseteq DOMAIN annotation
        BY DEF InRegion
      <4> QED BY <1>5, <1>12, <2>1, <4>1, <4>2 DEF Untouched
    <3> QED BY <3>1, <3>2
  <2> QED BY <2>1 DEF Elsewhere
<1>14. RegionsKept
  BY <1>5, <1>6, <1>10 DEF RegionsKept
<1>15. ASSUME s \notin torn' PROVE Left(p, s)
  <2>1. Begun(s) /\ Says(s, r) /\ Row(s).dash = r.dash
    BY <1>1, <1>3, <1>15
  <2>2. s \in DOMAIN annotation /\ InRegion(s) = {s}
    BY <2>1 DEF Begun, InRegion
  <2>3. InRegion(s)' = {s, e} /\ Row(s)' = Row(s)
    BY <1>10, <1>12, <2>2
  <2>4. EndOf(s)' = {e}
    BY <1>6, <2>3 DEF EndOf
  <2>5. Row(e)'.dash = Row(s)'.dash /\ Row(e)'.side = "to" /\ Row(s)'.side = "from"
    BY <1>7, <1>11, <2>1, <2>3 DEF Begun
  <2>6. Paired(s)'
    BY <2>3, <2>4, <2>5 DEF Paired
  <2>7. NoNil(r.tags) = r.tags
    BY <1>1 DEF AnnotationsRight, TagsKnown, NoNil
  <2>8. Row(e)'.text = Row(s)'.text /\ Row(e)'.tags = Row(s)'.tags
    BY <1>7, <1>11, <2>1, <2>3, <2>7 DEF Says
  <2>9. Alike(s)'
    BY <2>4, <2>8 DEF Alike
  <2> QED BY <1>2, <1>9, <2>6, <2>9 DEF Left
<1>16. TagsRight' /\ PairsRight'
  BY <1>2, <1>4, <1>5, <1>6, <1>7, SaveTags DEF AnnotationsRight
<1>17. torn \subseteq torn' /\ req[p].id = s /\ req'[p].id \in {0, s}
  BY <1>1, <1>9
<1>18. AnnotationsRight' /\ Apart'
  BY <1>2, <1>5, <1>8, <1>9, <1>13, <1>14, <1>15, <1>16, <1>17, RequestKeeps DEF AnnotationsRight
<1> QED BY <1>8, <1>18

LEMMA UpdateAnnotationKeeps ==
  ASSUME ContentsTyped, AnnotationsRight, Apart, NEW p \in Procs, NEW id \in DOMAIN annotation,
         NEW tags \in TagSets, UpdateAnnotation(p, id, tags)
  PROVE  ContentsTyped' /\ AnnotationsRight' /\ Apart'
<1> DEFINE r == [at |-> "update", id |-> id, v |-> made + 1, region |-> Row(id).region = id, tags |-> tags]
<1>1. /\ Row(id).region \in {0, id} /\ topic = "annotations" /\ made' = made + 1 /\ req' = [req EXCEPT ![p] = r]
      /\ req[p] = Idle /\ torn' = torn \cup (IF Busy(id) THEN {id} ELSE {})
      /\ UNCHANGED <<topic, annotation, annotation_tag, lastId>>
  BY DEF UpdateAnnotation, Arrives, OnlyAnnotations, annotations, Torn
<1>2. made + 1 \in Nat /\ lastId \in Nat /\ id \in Nat \ {0} /\ id <= lastId
  BY DEF ContentsTyped, AnnotationsRight, AnnotationsTyped
<1>3. r \in Updates /\ r.id = id /\ r.at = "update" /\ (ForRegion(r) <=> Row(id).region = id)
  BY <1>2 DEF Updates, ForRegion
<1> HIDE DEF r
<1>4. r \in OfAnnotations
  BY <1>3 DEF OfAnnotations
<1>5. ContentsTyped'
  <2>1. made' \in Nat /\ lastId' \in Nat /\ lastId' >= lastId /\ r.id <= lastId'
        /\ r.id # 0 /\ r.at \notin {"idle", "save"}
    BY <1>1, <1>2, <1>3
  <2> QED BY <1>1, <1>3, <1>4, <2>1, OneTyped
<1>6. req'[p] = r /\ Alone(p)
  BY <1>1 DEF Alone, ContentsTyped
<1>7. Sole(p, req'[p].id) /\ torn \subseteq torn'
  BY <1>1, <1>2, <1>3, <1>6, BusyIs DEF Sole
<1>8. Apart'
  BY <1>6, <1>7, SoleApart
<1>9. RegionsKept
  BY <1>1 DEF RegionsKept, Row
<1>10. OwnRows' /\ TagsKnown'
  <2>1. Own(p)'
    BY <1>1, <1>3, <1>6 DEF Own, Row
  <2> QED BY <1>3, <1>5, <1>6, <1>9, <2>1, OwnStays DEF AnnotationsRight
<1>11. AnnotationsTyped'
  BY <1>1 DEF AnnotationsRight, AnnotationsTyped, Row
<1>12. Elsewhere(id)
  BY <1>1, SameRows DEF Elsewhere
<1>13. ASSUME id \notin torn' PROVE Left(p, id) /\ \A q \in Procs : q # p => req[q].id # id
  <2>1. \A q \in Procs : req[q].id # id
    BY <1>1, <1>2, <1>13, BusyIs
  <2>2. InRegion(id) = {} \/ (Paired(id) /\ Alike(id))
    BY <1>1, <1>2, <1>13 DEF AnnotationsRight, RegionsRight, RegionRight
  <2>3. IF ForRegion(r) THEN Paired(id) ELSE Point(id)
    <3>1. CASE Row(id).region = id
      <4>1. id \in InRegion(id)
        BY <3>1 DEF InRegion
      <4> QED BY <1>3, <2>2, <3>1, <4>1
    <3>2. CASE Row(id).region # id
      <4>1. id \notin InRegion(id) /\ Row(id).region = 0
        BY <1>1, <3>2 DEF InRegion
      <4> QED BY <1>3, <2>2, <3>2, <4>1 DEF Point, Paired
    <3> QED BY <3>1, <3>2
  <2>4. IF ForRegion(r) THEN Paired(id)' ELSE Point(id)'
    BY <1>1, <2>3, SameRows
  <2>5. Underway(p, id)'
    BY <1>3, <1>6, <2>4 DEF Underway, ForRegion
  <2> QED BY <1>3, <1>6, <2>1, <2>5 DEF Left
<1>14. RegionsRight'
  <2>1. req[p].id \in {0, id} /\ req'[p].id \in {0, id} /\ id \in Nat
    BY <1>1, <1>2, <1>3, <1>6, IdleWaits
  <2>2. \A q \in Procs : q # p => req'[q] = req[q]
    BY <1>6 DEF Alone
  <2> QED BY <1>5, <1>7, <1>12, <1>13, <2>1, <2>2, OneRegion DEF AnnotationsRight
<1>15. TagsRight' /\ PairsRight'
  BY <1>1, SameRows DEF AnnotationsRight
<1> QED BY <1>5, <1>8, <1>10, <1>11, <1>14, <1>15 DEF AnnotationsRight

LEMMA UpdateStartKeeps ==
  ASSUME ContentsTyped, AnnotationsRight, Apart, NEW p \in Procs, UpdateStart(p)
  PROVE  ContentsTyped' /\ AnnotationsRight' /\ Apart'
<1> DEFINE r == req[p]
           s == req[p].id
<1>1. /\ r.at = "update" /\ UNCHANGED <<topic, torn>>
      /\ IF s \in DOMAIN annotation
         THEN Write(s, r, "from", 0) /\ (IF ForRegion(r) THEN Moves(p, "updateEnd") ELSE Answers(p))
         ELSE Answers(p) /\ UNCHANGED <<annotation, annotation_tag, lastId>>
  BY DEF UpdateStart, OnlyAnnotations, annotations, ForRegion
<1>2. topic = "annotations" /\ r \in Updates /\ lastId \in Nat /\ AnnotationsTyped /\ s \in Nat /\ s # 0 /\ s <= lastId
  BY <1>1, RequestKinds DEF ContentsTyped, AnnotationsRight
<1>3. s \in torn \/ (IF ForRegion(r) THEN Paired(s) ELSE Point(s))
  BY <1>1, <1>2 DEF AnnotationsRight, RegionsRight, RegionRight, Underway
<1>4. CASE s \notin DOMAIN annotation
  <2>1. s \in torn'
    BY <1>1, <1>3, <1>4 DEF Point, Paired, InRegion
  <2> QED BY <1>1, <1>2, <1>4, <2>1, AnswerKeeps
<1>5. CASE s \in DOMAIN annotation
  <2>1. r.v \in Nat /\ r.tags \in TagSets /\ 0 \in Nat /\ 0 <= lastId /\ UNCHANGED topic
    BY <1>1, <1>2 DEF Updates
  <2>2. /\ AnnotationsTyped' /\ UNCHANGED lastId
        /\ DOMAIN annotation' = DOMAIN annotation
        /\ \A k \in DOMAIN annotation : k # s => annotation'[k] = annotation[k]
        /\ annotation'[s] = [text |-> r.v, side |-> "from", region |-> IF 0 # 0 THEN 0 ELSE Row(s).region,
                             dash |-> Row(s).dash, tags |-> r.tags]
        /\ annotation_tag' = Tagged(s, r.tags)
    <3>1. Write(s, r, "from", 0)
      BY <1>1, <1>5
    <3> HIDE DEF r, s
    <3> QED BY <1>2, <1>5, <2>1, <3>1, WriteRows
  <2>3. /\ annotation'[s].region = Row(s).region /\ annotation'[s].dash = Row(s).dash /\ annotation'[s].tags = r.tags
        /\ annotation'[s].text = r.v /\ annotation'[s].side = "from"
    BY <2>2
  <2>4. ContentsTyped' /\ Alone(p)
        /\ IF ForRegion(r) THEN req'[p] = [r EXCEPT !.at = "updateEnd"] ELSE req'[p] = Idle
    <3>1. CASE ForRegion(r)
      <4>1. ContentsTyped' /\ req' = [req EXCEPT ![p] = [req[p] EXCEPT !.at = "updateEnd"]]
        BY <1>1, <1>2, <1>5, <2>2, <3>1, MoveTyped
      <4> QED BY <3>1, <4>1 DEF Alone, ContentsTyped
    <3>2. CASE ~ForRegion(r)
      <4>1. ContentsTyped' /\ req' = [req EXCEPT ![p] = Idle] /\ req'[p] = Idle
        BY <1>1, <1>2, <1>5, <2>2, <3>2, AnswerTyped
      <4> QED BY <3>2, <4>1 DEF Alone, ContentsTyped
    <3> QED BY <3>1, <3>2
  <2>5. IF ForRegion(r) THEN req'[p].at = "updateEnd" /\ req'[p].id = s /\ req'[p].tags = r.tags /\ req'[p].v = r.v
        ELSE req'[p].at = "idle" /\ req'[p].id = 0
    BY <1>2, <2>4, IdleWaits DEF Updates
  <2>6. Row(s).region \in {0, s}
    BY <1>1, <1>5 DEF AnnotationsRight, OwnRows, Own
  <2>7. PICK k : k = s
    OBVIOUS
  <2>8. /\ Elsewhere(k) /\ RegionsKept
        /\ Row(k)' = annotation'[k] /\ k \in DOMAIN annotation'
        /\ EndOf(k)' = EndOf(k) /\ EndOf(k) \subseteq DOMAIN annotation
        /\ \A e \in EndOf(k) : Row(e)' = Row(e)
        /\ InRegion(k)' = EndOf(k) \cup (IF annotation'[k].region = k THEN {k} ELSE {})
    BY <1>2, <1>5, <2>2, <2>3, <2>6, <2>7, WroteOwn
  <2>9. ASSUME k \notin torn', ForRegion(r) PROVE Left(p, k)
    <3>1. Paired(k)
      BY <1>1, <1>3, <2>7, <2>9
    <3>2. PICK e \in InRegion(k) : EndOf(k) = {e} /\ Row(e).side = "to" /\ Row(e).dash = Row(k).dash
      BY <3>1 DEF Paired
    <3>3. Row(k).region = k
      BY <3>1 DEF Paired, InRegion
    <3>4. InRegion(k)' = {e, k} /\ EndOf(k)' = {e} /\ Row(e)' = Row(e)
      BY <2>3, <2>7, <2>8, <3>2, <3>3
    <3>5. Row(k)'.side = "from" /\ Row(k)'.dash = Row(k).dash
      BY <2>3, <2>7, <2>8
    <3>6. Paired(k)'
      BY <3>2, <3>4, <3>5 DEF Paired
    <3>7. Row(k)'.text = req'[p].v /\ Row(k)'.tags = req'[p].tags
      BY <2>3, <2>5, <2>7, <2>8, <2>9
    <3> QED BY <2>5, <2>7, <2>9, <3>6, <3>7 DEF Left, Underway, Says
  <2>10. ASSUME k \notin torn', ~ForRegion(r) PROVE Left(p, k)
    <3>1. Point(k)
      BY <1>1, <1>3, <2>7, <2>10
    <3>2. EndOf(k) = {} /\ Row(k).region = 0
      BY <3>1 DEF EndOf, Point
    <3>3. InRegion(k)' = {}
      BY <1>2, <2>3, <2>7, <2>8, <3>2
    <3> QED BY <1>2, <2>5, <2>7, <2>10, <3>3 DEF Left
  <2>11. TagsRight' /\ PairsRight'
    BY <1>2, <1>5, <2>1, <2>2, <2>3, WriteTags DEF AnnotationsRight
  <2>12. req'[p].at \notin {"mark", "update", "saveEnd"} /\ req'[p].id \in {0, k}
    BY <2>5, <2>7
  <2>13. k \in Nat /\ k # 0 /\ req[p].id = k /\ torn \subseteq torn'
    BY <1>1, <1>2, <2>7
  <2>14. k \notin torn' => Left(p, k)
    BY <2>9, <2>10
  <2>15. AnnotationsRight' /\ Apart'
    BY <2>2, <2>4, <2>8, <2>11, <2>12, <2>13, <2>14, RequestKeeps DEF AnnotationsRight
  <2> QED BY <2>4, <2>15
<1> QED BY <1>4, <1>5

LEMMA UpdateEndKeeps ==
  ASSUME ContentsTyped, AnnotationsRight, Apart, NEW p \in Procs, UpdateEnd(p), NEW s, s = req[p].id
  PROVE  ContentsTyped' /\ AnnotationsRight' /\ Apart'
<1> DEFINE r == req[p]
<1>1. /\ r.at = "updateEnd" /\ Answers(p) /\ UNCHANGED topic
      /\ \/ EndOf(s) = {} /\ torn' = torn \cup {s} /\ UNCHANGED <<annotation, annotation_tag, lastId>>
         \/ \E id \in EndOf(s) : Write(id, r, "to", s) /\ UNCHANGED torn
  BY DEF UpdateEnd, OnlyAnnotations, annotations, Torn
<1>2. topic = "annotations" /\ r \in Updates /\ lastId \in Nat /\ AnnotationsTyped /\ s \in Nat /\ s # 0 /\ s <= lastId
  BY <1>1, RequestKinds DEF ContentsTyped, AnnotationsRight
<1>3. s \in torn \/ (Paired(s) /\ Says(s, r))
  BY <1>1, <1>2 DEF AnnotationsRight, RegionsRight, RegionRight, Underway
<1>4. CASE EndOf(s) = {} /\ torn' = torn \cup {s} /\ UNCHANGED <<annotation, annotation_tag, lastId>>
  BY <1>1, <1>2, <1>4, AnswerKeeps
<1>5. ASSUME NEW id \in EndOf(s), Write(id, r, "to", s), UNCHANGED torn
      PROVE  ContentsTyped' /\ AnnotationsRight' /\ Apart'
  <2>1. r.v \in Nat /\ r.tags \in TagSets /\ UNCHANGED topic
    BY <1>1, <1>2 DEF Updates
  <2>2. id \in DOMAIN annotation /\ id # s /\ Row(id).region = s /\ id \in Nat
    BY <1>2 DEF EndOf, InRegion, AnnotationsTyped
  <2>3. /\ AnnotationsTyped' /\ UNCHANGED lastId
        /\ DOMAIN annotation' = DOMAIN annotation
        /\ \A k \in DOMAIN annotation : k # id => annotation'[k] = annotation[k]
        /\ annotation'[id] = [text |-> r.v, side |-> "to", region |-> IF s # 0 THEN s ELSE Row(id).region,
                              dash |-> Row(id).dash, tags |-> r.tags]
        /\ annotation_tag' = Tagged(id, r.tags)
    <3>1. Write(id, r, "to", s)
      BY <1>5
    <3> HIDE DEF r
    <3> QED BY <1>2, <2>1, <2>2, <3>1, WriteRows
  <2>4. /\ annotation'[id].region = s /\ annotation'[id].dash = Row(id).dash /\ annotation'[id].tags = r.tags
        /\ annotation'[id].text = r.v /\ annotation'[id].side = "to"
    BY <1>2, <2>3
  <2>5. ContentsTyped' /\ req' = [req EXCEPT ![p] = Idle] /\ req'[p] = Idle
    BY <1>1, <1>2, <2>3, AnswerTyped
  <2>6. Alone(p) /\ req'[p].id = 0 /\ req'[p].at = "idle"
    BY <2>5, IdleWaits DEF Alone
  <2>7. \A k \in DOMAIN annotation : (k # id => Row(k)' = Row(k)) /\ Row(k)'.region = Row(k).region
    BY <2>2, <2>3, <2>4 DEF Row
  <2>8. Row(id)' = annotation'[id]
    BY DEF Row
  <2>9. \A t : InRegion(t)' = InRegion(t)
    BY <2>3, <2>7 DEF InRegion
  <2>10. RegionsKept
    BY <2>3, <2>7 DEF RegionsKept
  <2>11. Elsewhere(s)
    <3>1. ASSUME NEW t \in Nat \ {0}, t # s, t \notin torn' PROVE Untouched(t) \/ Unused(t)
      <4>1. CASE t = id
        <5>1. ~Point(t) /\ t \notin InRegion(t) /\ ~Paired(t) /\ ~Begun(t)
          BY <1>2, <2>2, <4>1 DEF Point, InRegion, Paired, Begun
        <5>2. RegionRight(t) /\ t \notin torn
          BY <1>5, <3>1 DEF AnnotationsRight, RegionsRight
        <5>3. \A q \in Procs : req[q].id # t
          <6>1. SUFFICES ASSUME NEW q \in Procs, req[q].id = t
                         PROVE  FALSE
            OBVIOUS
          <6>2. req[q].at \in {"mark", "saveEnd", "update", "updateEnd"}
            BY <1>2, <3>1, <6>1, RequestKinds
          <6>3. Underway(q, t)
            BY <5>2, <6>1 DEF RegionRight
          <6> QED BY <5>1, <6>2, <6>3 DEF Underway
        <5>4. InRegion(t) = {}
          BY <3>1, <5>1, <5>2, <5>3, BusyIs DEF RegionRight
        <5>5. \A q \in Procs : req'[q].id # t
          BY <2>6, <3>1, <5>3 DEF Alone
        <5> QED BY <2>5, <2>9, <3>1, <5>4, <5>5, BusyThen DEF Unused
      <4>2. CASE t # id
        <5>1. \A k \in InRegion(t) : k \in DOMAIN annotation /\ k # id
          BY <2>2, <3>1 DEF InRegion
        <5> QED BY <2>3, <2>9, <4>2, <5>1 DEF Untouched
      <4> QED BY <4>1, <4>2
    <3> QED BY <3>1 DEF Elsewhere
  <2>12. ASSUME s \notin torn' PROVE Left(p, s)
    <3>1. Paired(s) /\ Says(s, r)
      BY <1>3, <1>5, <2>12
    <3>2. EndOf(s) = {id} /\ Row(id).dash = Row(s).dash /\ s \in InRegion(s) /\ Row(s).side = "from"
      BY <1>5, <3>1 DEF Paired
    <3>3. Row(s)' = Row(s)
      BY <2>2, <2>7, <3>2 DEF InRegion
    <3>4. EndOf(s)' = {id} /\ id \in InRegion(s)' /\ s \in InRegion(s)'
      BY <2>9, <3>2 DEF EndOf
    <3>5. Paired(s)'
      BY <2>4, <2>8, <3>2, <3>3, <3>4 DEF Paired
    <3>6. Alike(s)'
      BY <2>4, <2>8, <3>1, <3>3, <3>4 DEF Alike, Says
    <3> QED BY <1>2, <2>6, <3>5, <3>6 DEF Left
  <2>13. TagsRight' /\ PairsRight'
    BY <1>2, <2>1, <2>2, <2>3, <2>4, WriteTags DEF AnnotationsRight
  <2>14. torn \subseteq torn' /\ req[p].id = s /\ req'[p].id \in {0, s}
    BY <1>5, <2>6
  <2>15. AnnotationsRight' /\ Apart'
    BY <1>2, <2>3, <2>5, <2>6, <2>10, <2>11, <2>12, <2>13, <2>14, RequestKeeps DEF AnnotationsRight
  <2> QED BY <2>5, <2>15
<1> QED BY <1>1, <1>4, <1>5

-----------------------------------------------------------------------------
(* Deletions *)

\* The rows of s stay, or all of them go when no request is for it.
Kept(s, ids) == s \notin ids /\ InRegion(s) \cap ids = {}
Removed(s, ids) == InRegion(s) \subseteq ids /\ ~Busy(s)

LEMMA RowsDeleted ==
  ASSUME ContentsTyped, AnnotationsRight, Apart, NEW ids, Deletes(ids), UNCHANGED <<req, topic>>, made' \in Nat,
         annotation_tag' \in {annotation_tag, TagsLeft(ids)}, torn \subseteq torn',
         \A s \in Nat \ {0} : s \in torn' \/ Kept(s, ids) \/ Removed(s, ids)
  PROVE  ContentsTyped' /\ AnnotationsRight' /\ Apart'
<1>1. annotation' = [k \in DOMAIN annotation \ ids |-> annotation[k]] /\ UNCHANGED lastId
  BY DEF Deletes, Restrict
<1>2. DOMAIN annotation' = DOMAIN annotation \ ids /\ \A k \in DOMAIN annotation' : annotation'[k] = annotation[k]
  BY <1>1
<1>3. ContentsTyped'
  BY <1>1 DEF ContentsTyped
<1>4. Apart'
  BY DEF Apart
<1>5. annotation_tag' \subseteq annotation_tag
      /\ \A k, t : k \notin ids => (<<k, t>> \in annotation_tag' <=> <<k, t>> \in annotation_tag)
  BY DEF TagsLeft
<1>6. AnnotationsTyped'
  <2>1. annotation' \in [DOMAIN annotation' -> AnnotationRows]
    BY <1>1, <1>2 DEF AnnotationsRight, AnnotationsTyped
  <2>2. \A k \in DOMAIN annotation' : Row(k)'.region <= lastId'
    BY <1>1, <1>2 DEF AnnotationsRight, AnnotationsTyped, Row
  <2>3. \A pair \in annotation_tag' : pair[1] \in Nat /\ pair[1] <= lastId'
    BY <1>1, <1>5 DEF AnnotationsRight, AnnotationsTyped
  <2> QED BY <1>1, <1>2, <2>1, <2>2, <2>3 DEF AnnotationsRight, AnnotationsTyped
<1>7. \A k \in DOMAIN annotation' : Row(k)' = Row(k) /\ k \in DOMAIN annotation
  BY <1>2 DEF Row
<1>8. OwnRows' /\ TagsKnown'
  BY <1>7 DEF AnnotationsRight, OwnRows, Own, TagsKnown
<1>9. TagsRight'
  <2>1. SUFFICES ASSUME NEW id \in DOMAIN annotation', Row(id)'.tags # Nil, NEW t \in Tags
                 PROVE  <<id, t>> \in annotation_tag' <=> t \in Row(id)'.tags
    BY DEF TagsRight
  <2>2. id \in DOMAIN annotation /\ id \notin ids /\ Row(id)' = Row(id)
    BY <1>2, <1>7
  <2> QED BY <1>5, <2>1, <2>2 DEF AnnotationsRight, TagsRight
<1>10. PairsRight'
  BY <1>5 DEF AnnotationsRight, PairsRight
<1>11. \A t : InRegion(t)' = InRegion(t) \ ids
  BY <1>2, <1>7 DEF InRegion
<1>12. ASSUME NEW s \in Nat \ {0} PROVE RegionRight(s)'
  <2>1. CASE s \in torn'
    BY <2>1 DEF RegionRight
  <2>2. CASE Kept(s, ids)
    <3>1. InRegion(s)' = InRegion(s) /\ (s \in DOMAIN annotation' <=> s \in DOMAIN annotation)
      BY <1>2, <1>11, <2>2 DEF Kept
    <3>2. InRegion(s) \subseteq DOMAIN annotation'
      BY <1>2, <2>2 DEF Kept, InRegion
    <3>3. Untouched(s)
      BY <1>2, <3>1, <3>2 DEF Untouched
    <3>4. Asking(s) /\ \A p \in Procs : req[p].id = s => req'[p] = req[p]
      BY DEF Asking
    <3> QED BY <1>3, <3>3, <3>4, RegionStays DEF AnnotationsRight, RegionsRight
  <2>3. CASE Removed(s, ids)
    <3>1. InRegion(s)' = {}
      BY <1>11, <2>3 DEF Removed
    <3>2. ~Busy(s)'
      BY <2>3 DEF Removed, Busy
    <3> QED BY <1>3, <3>1, <3>2, UnusedRight DEF Unused
  <2> QED BY <2>1, <2>2, <2>3
<1>13. RegionsRight'
  BY <1>12 DEF RegionsRight
<1> QED BY <1>3, <1>4, <1>6, <1>8, <1>9, <1>10, <1>13 DEF AnnotationsRight

\* A row that is of another region begins none, and no request is for it.
LEMMA OtherRow ==
  ASSUME ContentsTyped, AnnotationsRight, topic = "annotations", NEW s \in Nat \ {0}, s \notin torn,
         s \in DOMAIN annotation, Row(s).region \notin {0, s}
  PROVE  InRegion(s) = {} /\ ~Busy(s)
<1>1. ~Point(s) /\ s \notin InRegion(s) /\ ~Paired(s) /\ ~Begun(s)
  BY DEF Point, InRegion, Paired, Begun
<1>2. RegionRight(s)
  BY DEF AnnotationsRight, RegionsRight
<1>3. \A q \in Procs : req[q].id # s
  <2>1. SUFFICES ASSUME NEW q \in Procs, req[q].id = s
                 PROVE  FALSE
    OBVIOUS
  <2>2. req[q].at \in {"mark", "saveEnd", "update", "updateEnd"}
    BY <2>1, RequestKinds
  <2>3. Underway(q, s)
    BY <1>2, <2>1 DEF RegionRight
  <2> QED BY <1>1, <2>2, <2>3 DEF Underway
<1>4. ~Busy(s)
  BY <1>3, BusyIs
<1> QED BY <1>1, <1>2, <1>4 DEF RegionRight

LEMMA DeleteByIdKeeps ==
  ASSUME ContentsTyped, AnnotationsRight, Apart, NEW id \in DOMAIN annotation, DeleteAnnotationById(id)
  PROVE  ContentsTyped' /\ AnnotationsRight' /\ Apart'
<1> DEFINE ids == {id} \cap DOMAIN annotation
<1>1. /\ Deletes(ids) /\ annotation_tag' = TagsLeft(ids) /\ made' = made + 1 /\ UNCHANGED <<req, topic>>
      /\ torn' = torn \cup {id, Row(id).region}
  BY DEF DeleteAnnotationById, Delete, AtOnce, OnlyAnnotations, Torn
<1>2. made' \in Nat
  BY <1>1 DEF ContentsTyped
<1>3. ASSUME NEW s \in Nat \ {0}, s \notin torn' PROVE Kept(s, ids)
  BY <1>1, <1>3 DEF Kept, InRegion
<1> HIDE DEF ids
<1> QED BY <1>1, <1>2, <1>3, RowsDeleted

LEMMA DeleteRegionKeeps ==
  ASSUME ContentsTyped, AnnotationsRight, Apart, NEW id \in DOMAIN annotation,
         NEW s, s = Row(id).region, DeleteAnnotationRegion(s)
  PROVE  ContentsTyped' /\ AnnotationsRight' /\ Apart'
<1> DEFINE ids == InRegion(s)
<1>1. /\ Deletes(ids) /\ annotation_tag' = TagsLeft(ids) /\ made' = made + 1 /\ UNCHANGED <<req, topic>>
      /\ torn' = torn \cup (IF Busy(s) THEN {s} ELSE {}) /\ s # 0 /\ topic = "annotations"
  BY DEF DeleteAnnotationRegion, Delete, AtOnce, OnlyAnnotations, Torn
<1>2. made' \in Nat
  BY <1>1 DEF ContentsTyped
<1>3. ASSUME NEW t \in Nat \ {0}, t \notin torn' PROVE Kept(t, ids) \/ Removed(t, ids)
  <2>1. CASE t = s
    BY <1>1, <1>3, <2>1 DEF Removed
  <2>2. CASE t # s /\ t \notin ids
    BY <2>2 DEF Kept, InRegion
  <2>3. CASE t # s /\ t \in ids
    <3>1. t \in DOMAIN annotation /\ Row(t).region \notin {0, t} /\ t \notin torn
      BY <1>1, <1>3, <2>3 DEF InRegion
    <3>2. InRegion(t) = {} /\ ~Busy(t)
      BY <1>1, <1>3, <3>1, OtherRow
    <3> QED BY <3>2 DEF Removed
  <2> QED BY <2>1, <2>2, <2>3
<1> HIDE DEF ids
<1> QED BY <1>1, <1>2, <1>3, RowsDeleted

\* The rows of a region are on one panel.
LEMMA OnePanel ==
  ASSUME ContentsTyped, AnnotationsRight, topic = "annotations", NEW d, NEW s \in Nat \ {0}, s \notin torn,
         Busy(s) => s \notin { id \in DOMAIN annotation : Row(id).dash = d }
  PROVE  \/ Kept(s, { id \in DOMAIN annotation : Row(id).dash = d })
         \/ Removed(s, { id \in DOMAIN annotation : Row(id).dash = d })
<1> DEFINE ids == { id \in DOMAIN annotation : Row(id).dash = d }
<1>1. RegionRight(s)
  BY DEF AnnotationsRight, RegionsRight
<1>2. ASSUME Paired(s) PROVE IF s \in ids THEN InRegion(s) \subseteq ids ELSE Kept(s, ids)
  <2>1. PICK e \in InRegion(s) : EndOf(s) = {e} /\ Row(e).dash = Row(s).dash
    BY <1>2 DEF Paired
  <2>2. InRegion(s) = {s, e} /\ s \in DOMAIN annotation /\ e \in DOMAIN annotation
    BY <1>2, <2>1 DEF Paired, EndOf, InRegion
  <2>3. e \in ids <=> s \in ids
    BY <2>1, <2>2
  <2> QED BY <2>2, <2>3 DEF Kept
<1>3. CASE ~Busy(s)
  <2>1. InRegion(s) = {} \/ Paired(s)
    BY <1>1, <1>3 DEF RegionRight
  <2>2. InRegion(s) = {} => Removed(s, ids)
    BY <1>3 DEF Removed
  <2> QED BY <1>2, <1>3, <2>1, <2>2 DEF Removed
<1>4. CASE Busy(s)
  <2>1. s \notin ids
    BY <1>4
  <2>2. PICK q \in Procs : req[q].id = s
    BY <1>4, BusyIs
  <2>3. req[q].at \in {"mark", "saveEnd", "update", "updateEnd"} /\ Underway(q, s)
    BY <1>1, <2>2, RequestKinds DEF RegionRight
  <2>4. Point(s) \/ Begun(s) \/ Paired(s)
    BY <2>3 DEF Underway
  <2>5. Point(s) => Kept(s, ids)
    BY <2>1 DEF Point, Kept
  <2>6. Begun(s) => Kept(s, ids)
    BY <2>1 DEF Begun, Kept
  <2> QED BY <1>2, <2>1, <2>4, <2>5, <2>6
<1> QED BY <1>3, <1>4

LEMMA DeletePanelKeeps ==
  ASSUME ContentsTyped, AnnotationsRight, Apart, NEW d, DeleteAnnotations(d) \/ DashboardAnnotations(d)
  PROVE  ContentsTyped' /\ AnnotationsRight' /\ Apart'
<1> DEFINE ids == { id \in DOMAIN annotation : Row(id).dash = d }
<1>1. /\ Deletes(ids) /\ annotation_tag' \in {annotation_tag, TagsLeft(ids)} /\ made' = made + 1
      /\ UNCHANGED <<req, topic>> /\ torn' = torn \cup { id \in ids : Busy(id) } /\ topic = "annotations"
  BY DEF DeleteAnnotations, DashboardAnnotations, Delete, AtOnce, OnlyAnnotations, Torn
<1>2. made' \in Nat
  BY <1>1 DEF ContentsTyped
<1>3. ASSUME NEW s \in Nat \ {0}, s \notin torn' PROVE Kept(s, ids) \/ Removed(s, ids)
  <2>1. s \notin torn /\ (Busy(s) => s \notin ids)
    BY <1>1, <1>3
  <2> QED BY <1>1, <2>1, OnePanel
<1> HIDE DEF ids
<1> QED BY <1>1, <1>2, <1>3, RowsDeleted

-----------------------------------------------------------------------------
(* Playlists *)

\* Where there are no annotations, and no playlists.
LEMMA NoAnnotations ==
  ASSUME ContentsTyped', AnnotationsRight, topic' # "annotations", UNCHANGED <<topic, annotation, annotation_tag>>,
         lastId \in Nat, lastId' \in Nat, lastId' >= lastId
  PROVE  AnnotationsRight'
<1>1. AnnotationsTyped'
  BY DEF AnnotationsRight, AnnotationsTyped, AnnotationRows, Row
<1>2. DOMAIN annotation' = {}
  BY <1>1 DEF AnnotationsTyped
<1>3. \A s : InRegion(s)' = {}
  BY <1>2 DEF InRegion
<1>4. \A p \in Procs : req'[p].at \notin {"mark", "saveEnd", "update", "updateEnd"}
  BY DEF ContentsTyped, OfPlaylists, Writes, Deletions, Waiting
<1>5. RegionsRight'
  BY <1>3, <1>4 DEF RegionsRight, RegionRight, Underway
<1>6. OwnRows' /\ TagsKnown'
  BY <1>4 DEF OwnRows, Own, TagsKnown
<1>7. TagsRight' /\ PairsRight'
  BY SameRows DEF AnnotationsRight
<1> QED BY <1>1, <1>5, <1>6, <1>7 DEF AnnotationsRight

LEMMA NoPlaylists ==
  ASSUME PlaylistsRight, topic # "playlists", UNCHANGED <<topic, playlist, playlist_item>>,
         lastId \in Nat, lastId' \in Nat, lastId' >= lastId
  PROVE  PlaylistsRight'
<1>1. PlaylistsTyped'
  BY DEF PlaylistsRight, PlaylistsTyped
<1>2. DOMAIN playlist' = {}
  BY <1>1 DEF PlaylistsTyped
<1> QED BY <1>1, <1>2 DEF PlaylistsRight, ListsRight

\* A playlist that the step is not about.
OtherLists(pl) ==
  \A k \in DOMAIN playlist' : k # pl =>
    k \in DOMAIN playlist /\ playlist'[k] = playlist[k] /\ Items(k)' = Items(k)

\* What is left of a playlist that a request has come to the end of.
ListLeft(p, pl) ==
  IF req'[p].id = pl THEN ListAs(p, pl)' ELSE HasItems(pl)'

LEMMA OneList ==
  ASSUME ContentsTyped, ContentsTyped', Apart, PlaylistsRight, PlaylistsTyped', dashboards' = dashboards,
         NEW p \in Procs, NEW pl \in Nat \ {0},
         Alone(p), torn \subseteq torn', req[p].id \in {0, pl}, req'[p].id \in {0, pl},
         OtherLists(pl), Sole(p, pl),
         pl \in DOMAIN playlist' /\ pl \notin torn' => ListLeft(p, pl)
  PROVE  PlaylistsRight' /\ Apart'
<1>1. Sole(p, req'[p].id)
  BY DEF Sole
<1>2. Apart'
  BY <1>1, SoleApart
<1>3. ASSUME NEW k \in DOMAIN playlist' PROVE ListRight(k)'
  <2>1. k \in Nat \ {0}
    BY DEF PlaylistsTyped, ContentsTyped
  <2>2. CASE k \in torn'
    BY <2>2 DEF ListRight
  <2>3. CASE k \notin torn' /\ k = pl
    <3>1. \A q \in Procs : req'[q].id = pl => q = p
      BY <2>3 DEF Sole, Alone
    <3>2. ListLeft(p, pl)
      BY <2>3
    <3>3. CASE req'[p].id = pl
      <4>1. ListAs(p, pl)' /\ Busy(pl)'
        BY <3>2, <3>3, BusyThen DEF ListLeft
      <4> QED BY <2>3, <3>1, <4>1 DEF ListRight
    <3>4. CASE req'[p].id # pl
      <4>1. HasItems(pl)'
        BY <3>2, <3>4 DEF ListLeft
      <4> QED BY <2>3, <3>1, <3>4, <4>1 DEF ListRight
    <3> QED BY <3>3, <3>4
  <2>4. CASE k \notin torn' /\ k # pl
    <3>1. k \in DOMAIN playlist /\ playlist'[k] = playlist[k] /\ Items(k)' = Items(k)
      BY <2>4 DEF OtherLists
    <3>2. ListRight(k) /\ k \notin torn
      BY <2>4, <3>1 DEF PlaylistsRight, ListsRight
    <3>3. \A q \in Procs : req'[q].id = k => req[q].id = k /\ req'[q] = req[q]
      BY <2>1, <2>4 DEF Alone
    <3>4. \A q \in Procs : req[q].id = k => req'[q] = req[q]
      BY <2>1, <2>4 DEF Alone
    <3>8. HasItems(k)' <=> HasItems(k)
      BY <3>1 DEF HasItems, ItemRows, Gone
    <3>5. ASSUME NEW q \in Procs, req'[q].id = k PROVE ListAs(q, k)'
      BY <3>1, <3>2, <3>3, <3>5, <3>8 DEF ListRight, ListAs
    <3>6. Busy(k) => Busy(k)'
      BY <2>1, <3>4, BusyIs, BusyThen
    <3>7. Busy(k)' \/ HasItems(k)'
      BY <3>2, <3>6, <3>8 DEF ListRight
    <3> QED BY <3>5, <3>7 DEF ListRight
  <2> QED BY <2>2, <2>3, <2>4
<1>4. ListsRight'
  BY <1>3 DEF ListsRight
<1> QED BY <1>2, <1>4 DEF PlaylistsRight

\* The playlist itself could not be stored.
LEMMA OrphansKeep ==
  ASSUME ContentsTyped, PlaylistsRight, Apart, NEW p \in Procs, topic = "playlists", req[p].id = 0,
         NEW r \in OfPlaylists, r.id = 0, r.at \in {"idle", "insertItems"}, req' = [req EXCEPT ![p] = r],
         made' \in Nat, UNCHANGED <<topic, playlist, lastId, torn, dashboards>>,
         \A item \in playlist_item' : item \in playlist_item \/ item.playlist = 0,
         playlist_item \subseteq playlist_item'
  PROVE  ContentsTyped' /\ PlaylistsRight' /\ Apart' /\ lastId' >= lastId
<1>1. lastId \in Nat /\ lastId + 1 \in Nat \ {0} /\ lastId' = lastId
  BY DEF ContentsTyped
<1>2. ContentsTyped'
  <2>1. /\ lastId' \in Nat /\ lastId' >= lastId /\ r.id <= lastId'
        /\ r.id = 0 => r.at \in {"idle", "save", "insertItems"}
        /\ r.at \in {"idle", "save"} => r.id = 0
    BY <1>1
  <2> QED BY <2>1, OneTyped
<1>3. req'[p] = r /\ Alone(p)
  BY DEF Alone, ContentsTyped
<1>4. PlaylistsTyped'
  BY <1>1 DEF PlaylistsRight, PlaylistsTyped
<1>5. DOMAIN playlist \subseteq 1..lastId
  BY DEF PlaylistsRight, PlaylistsTyped
<1>6. \A k \in DOMAIN playlist : Items(k)' = Items(k)
  BY <1>1, <1>5 DEF Items
<1>7. OtherLists(lastId + 1) /\ lastId + 1 \notin DOMAIN playlist'
  BY <1>1, <1>5, <1>6 DEF OtherLists
<1>8. Sole(p, lastId + 1) /\ torn \subseteq torn'
  BY <1>1, RequestKinds DEF Sole
<1>9. req[p].id \in {0, lastId + 1} /\ req'[p].id \in {0, lastId + 1}
  BY <1>3
<1>10. PlaylistsRight' /\ Apart'
  BY <1>1, <1>2, <1>3, <1>4, <1>7, <1>8, <1>9, OneList
<1> QED BY <1>1, <1>2, <1>10

LEMMA CreateKeeps ==
  ASSUME ContentsTyped, PlaylistsRight, Apart, NEW p \in Procs, NEW items \in Lists,
         Arrives(p, "playlists", [at |-> "insertItems", id |-> lastId + 1, v |-> made + 1, items |-> items]),
         playlist' = WithRow(lastId + 1, items), lastId' = lastId + 1,
         UNCHANGED <<topic, playlist_item, torn, dashboards>>,
         NEW pl, pl = lastId + 1
  PROVE  ContentsTyped' /\ PlaylistsRight' /\ Apart' /\ lastId' >= lastId
<1> DEFINE r == [at |-> "insertItems", id |-> pl, v |-> made + 1, items |-> items]
<1>1. /\ topic = "playlists" /\ made' = made + 1 /\ req' = [req EXCEPT ![p] = r] /\ req[p] = Idle
      /\ playlist' = With(playlist, pl, items) /\ lastId' = pl
      /\ UNCHANGED <<topic, playlist_item, torn, dashboards>>
  BY DEF Arrives, WithRow
<1>2. made + 1 \in Nat /\ lastId \in Nat /\ pl \in Nat \ {0} /\ pl > lastId
  BY DEF ContentsTyped
<1>3. r \in Writes /\ r.id = pl /\ r.at = "insertItems" /\ r.items = items
  BY <1>2 DEF Writes, SavedLists
<1> HIDE DEF r
<1>4. r \in OfPlaylists
  BY <1>3 DEF OfPlaylists
<1>5. ContentsTyped'
  <2>1. made' \in Nat /\ lastId' \in Nat /\ lastId' >= lastId /\ r.id <= lastId'
        /\ r.id # 0 /\ r.at \notin {"idle", "save"}
    BY <1>1, <1>2, <1>3
  <2> QED BY <1>1, <1>3, <1>4, <2>1, OneTyped
<1>6. req'[p] = r /\ Alone(p)
  BY <1>1 DEF Alone, ContentsTyped
<1>7. pl \notin DOMAIN playlist /\ \A item \in playlist_item : item.playlist # pl
  BY <1>2 DEF PlaylistsRight, PlaylistsTyped
<1>8. DOMAIN playlist' = DOMAIN playlist \cup {pl} /\ playlist'[pl] = items
      /\ \A k \in DOMAIN playlist : playlist'[k] = playlist[k]
  BY <1>1, <1>7 DEF With
<1>9. PlaylistsTyped'
  <2>1. playlist' \in [DOMAIN playlist' -> SavedLists]
    BY <1>1, <1>8 DEF With, PlaylistsRight, PlaylistsTyped, SavedLists
  <2> QED BY <1>1, <1>2, <1>8, <2>1 DEF PlaylistsRight, PlaylistsTyped
<1>10. \A k : Items(k)' = Items(k)
  BY <1>1 DEF Items
<1>11. OtherLists(pl)
  BY <1>8, <1>10 DEF OtherLists
<1>12. Sole(p, pl) /\ torn \subseteq torn'
  BY <1>1, <1>2, RequestKinds DEF Sole
<1>13. ListLeft(p, pl)
  <2>1. Items(pl)' = {}
    BY <1>7, <1>10 DEF Items
  <2> QED BY <1>3, <1>6, <1>8, <2>1 DEF ListLeft, ListAs
<1>14. req[p].id \in {0, pl} /\ req'[p].id \in {0, pl}
  BY <1>1, <1>3, <1>6, IdleWaits
<1>15. PlaylistsRight' /\ Apart'
  BY <1>2, <1>5, <1>6, <1>9, <1>11, <1>12, <1>13, <1>14, OneList
<1> QED BY <1>1, <1>2, <1>5, <1>15

LEMMA CreatePlaylistKeeps ==
  ASSUME ContentsTyped, PlaylistsRight, Apart, NEW p \in Procs, NEW items \in Lists, CreatePlaylist(p, items)
  PROVE  ContentsTyped' /\ PlaylistsRight' /\ Apart' /\ lastId' >= lastId
<1> DEFINE r(pl) == [at |-> "insertItems", id |-> pl, v |-> made + 1, items |-> items]
<1>1. PICK failed \in BOOLEAN : LET pl == IF failed THEN 0 ELSE lastId + 1 IN
        /\ Arrives(p, "playlists", r(pl))
        /\ IF failed THEN UNCHANGED <<playlist, lastId>>
           ELSE playlist' = WithRow(pl, items) /\ lastId' = pl
        /\ UNCHANGED <<topic, dashboards, annotation, annotation_tag, playlist_item, torn, personal>>
  BY DEF CreatePlaylist
<1>2. CASE failed
  <2>1. /\ topic = "playlists" /\ made' = made + 1 /\ req' = [req EXCEPT ![p] = r(0)] /\ req[p] = Idle
        /\ UNCHANGED <<topic, playlist, lastId, playlist_item, torn, dashboards>>
    BY <1>1, <1>2 DEF Arrives
  <2>2. made' \in Nat /\ r(0) \in Writes /\ r(0).id = 0 /\ r(0).at = "insertItems" /\ req[p].id = 0
    BY <2>1, IdleWaits DEF ContentsTyped, Writes, SavedLists
  <2>3. r(0) \in OfPlaylists
    BY <2>2 DEF OfPlaylists
  <2> HIDE DEF r
  <2> QED BY <2>1, <2>2, <2>3, OrphansKeep
<1>3. CASE ~ failed
  BY <1>1, <1>3, CreateKeeps
<1> QED BY <1>2, <1>3

\* A request for a playlist that is there, before its first statement.
LEMMA AskKeeps ==
  ASSUME ContentsTyped, PlaylistsRight, Apart, NEW p \in Procs, NEW pl \in DOMAIN playlist, NEW r,
         \/ r \in Writes /\ r.at = "updateRow"
         \/ r \in Deletions /\ r.at = "delete",
         r.id = pl, Arrives(p, "playlists", r), Shares(pl), UNCHANGED <<topic, playlist, playlist_item, lastId, dashboards>>
  PROVE  ContentsTyped' /\ PlaylistsRight' /\ Apart' /\ lastId' >= lastId
<1>1. /\ topic = "playlists" /\ made' = made + 1 /\ req' = [req EXCEPT ![p] = r] /\ req[p] = Idle
      /\ torn' = torn \cup (IF Busy(pl) THEN {pl} ELSE {})
  BY DEF Arrives, Shares, Torn
<1>2. made + 1 \in Nat /\ lastId \in Nat /\ pl \in Nat \ {0} /\ pl <= lastId
  BY DEF ContentsTyped, PlaylistsRight, PlaylistsTyped
<1>3. r \in OfPlaylists /\ r.at \in {"updateRow", "delete"}
  BY DEF OfPlaylists
<1>4. ContentsTyped'
  <2>1. made' \in Nat /\ lastId' \in Nat /\ lastId' >= lastId /\ r.id <= lastId'
        /\ r.id # 0 /\ r.at \notin {"idle", "save"}
    BY <1>1, <1>2, <1>3
  <2> QED BY <1>1, <1>3, <2>1, OneTyped
<1>5. req'[p] = r /\ Alone(p)
  BY <1>1 DEF Alone, ContentsTyped
<1>6. PlaylistsTyped'
  BY DEF PlaylistsRight, PlaylistsTyped
<1>7. \A k : Items(k)' = Items(k)
  BY DEF Items
<1>8. OtherLists(pl)
  BY <1>7 DEF OtherLists
<1>9. Sole(p, pl) /\ torn \subseteq torn'
  BY <1>1, <1>2, BusyIs DEF Sole
<1>10. ASSUME pl \notin torn' PROVE ListLeft(p, pl)
  <2>1. ~Busy(pl) /\ ListRight(pl) /\ pl \notin torn
    BY <1>1, <1>10 DEF PlaylistsRight, ListsRight
  <2>2. HasItems(pl)'
    BY <1>7, <2>1 DEF ListRight, HasItems, ItemRows, Gone
  <2> QED BY <1>3, <1>5, <2>2 DEF ListLeft, ListAs
<1>11. req[p].id \in {0, pl} /\ req'[p].id \in {0, pl}
  BY <1>1, <1>5, IdleWaits
<1>12. PlaylistsRight' /\ Apart'
  BY <1>2, <1>4, <1>5, <1>6, <1>8, <1>9, <1>10, <1>11, OneList
<1> QED BY <1>2, <1>4, <1>12

LEMMA UpdatePlaylistKeeps ==
  ASSUME ContentsTyped, PlaylistsRight, Apart, NEW p \in Procs, NEW pl \in DOMAIN playlist, NEW items \in Lists,
         UpdatePlaylist(p, pl, items)
  PROVE  ContentsTyped' /\ PlaylistsRight' /\ Apart' /\ lastId' >= lastId
<1> DEFINE r == [at |-> "updateRow", id |-> pl, v |-> made + 1, items |-> Numbered(items)]
<1>1. Arrives(p, "playlists", r) /\ Shares(pl) /\ UNCHANGED <<topic, playlist, playlist_item, lastId, dashboards>>
  BY DEF UpdatePlaylist, OnlyPlaylists, annotations, playlists
<1>2. r \in Writes /\ r.at = "updateRow" /\ r.id = pl
  BY DEF Writes, SavedLists, ContentsTyped, PlaylistsRight, PlaylistsTyped
<1> HIDE DEF r
<1> QED BY <1>1, <1>2, AskKeeps

LEMMA DeletePlaylistKeeps ==
  ASSUME ContentsTyped, PlaylistsRight, Apart, NEW p \in Procs, NEW pl \in DOMAIN playlist, DeletePlaylist(p, pl)
  PROVE  ContentsTyped' /\ PlaylistsRight' /\ Apart' /\ lastId' >= lastId
<1> DEFINE r == [at |-> "delete", id |-> pl]
<1>1. Arrives(p, "playlists", r) /\ Shares(pl) /\ UNCHANGED <<topic, playlist, playlist_item, lastId, dashboards>>
  BY DEF DeletePlaylist, OnlyPlaylists, annotations, playlists
<1>2. r \in Deletions /\ r.at = "delete" /\ r.id = pl
  BY DEF Deletions, ContentsTyped, PlaylistsRight, PlaylistsTyped
<1> HIDE DEF r
<1> QED BY <1>1, <1>2, AskKeeps

\* What a request for a playlist has come to.
LEMMA ListOf ==
  ASSUME ContentsTyped, PlaylistsRight, NEW p \in Procs, NEW pl \in DOMAIN playlist, req[p].id = pl, pl \notin torn
  PROVE  ListAs(p, pl)
  BY DEF PlaylistsRight, ListsRight, ListRight

LEMMA UpdateRowKeeps ==
  ASSUME ContentsTyped, PlaylistsRight, Apart, NEW p \in Procs, UpdateRow(p), NEW pl, pl = req[p].id
  PROVE  ContentsTyped' /\ PlaylistsRight' /\ Apart' /\ lastId' >= lastId
<1> DEFINE r == req[p]
<1>1. /\ r.at = "updateRow" /\ Moves(p, "deleteItems") /\ UNCHANGED <<topic, lastId, playlist_item, torn, dashboards>>
      /\ playlist' = IF pl \in DOMAIN playlist THEN With(playlist, pl, r.items) ELSE playlist
  BY DEF UpdateRow, OnlyPlaylists, annotations, WithRow
<1>2. r \in Writes /\ r.items \in SavedLists /\ pl \in Nat \ {0} /\ lastId \in Nat /\ lastId' >= lastId /\ topic = "playlists"
  BY <1>1, RequestKinds DEF ContentsTyped, Writes
<1>3. ContentsTyped' /\ req' = [req EXCEPT ![p] = [r EXCEPT !.at = "deleteItems"]]
      /\ req'[p].at = "deleteItems" /\ req'[p].id = pl
  BY <1>1, <1>2, MoveTyped
<1>4. Alone(p) /\ req'[p] = [r EXCEPT !.at = "deleteItems"]
  BY <1>3 DEF Alone, ContentsTyped
<1>5. req'[p].items = r.items
  BY <1>2, <1>4 DEF Writes
<1>6. DOMAIN playlist' = DOMAIN playlist /\ (pl \in DOMAIN playlist => playlist'[pl] = r.items)
      /\ \A k \in DOMAIN playlist : k # pl => playlist'[k] = playlist[k]
  BY <1>1 DEF With
<1>7. PlaylistsTyped'
  <2>1. playlist' \in [DOMAIN playlist' -> SavedLists]
    BY <1>1, <1>2, <1>6 DEF With, PlaylistsRight, PlaylistsTyped
  <2> QED BY <1>1, <1>6, <2>1 DEF PlaylistsRight, PlaylistsTyped
<1>8. \A k : Items(k)' = Items(k)
  BY <1>1 DEF Items
<1>9. OtherLists(pl)
  BY <1>6, <1>8 DEF OtherLists
<1>10. torn \subseteq torn' /\ Sole(p, pl)
  BY <1>1, StillSole
<1>11. pl \in DOMAIN playlist' => ListLeft(p, pl)
  BY <1>3, <1>5, <1>6 DEF ListLeft, ListAs
<1>12. PlaylistsRight' /\ Apart'
  BY <1>1, <1>2, <1>3, <1>4, <1>7, <1>9, <1>10, <1>11, OneList
<1> QED BY <1>2, <1>3, <1>12

LEMMA DeleteItemsKeeps ==
  ASSUME ContentsTyped, PlaylistsRight, Apart, NEW p \in Procs, DeleteItems(p), NEW pl, pl = req[p].id
  PROVE  ContentsTyped' /\ PlaylistsRight' /\ Apart' /\ lastId' >= lastId
<1> DEFINE r == req[p]
<1>1. /\ r.at = "deleteItems" /\ Moves(p, "insertItems") /\ UNCHANGED <<topic, lastId, playlist, torn, dashboards>>
      /\ playlist_item' = playlist_item \ Items(pl)
  BY DEF DeleteItems, OnlyPlaylists, annotations, ItemsLeft
<1>2. r \in Writes /\ pl \in Nat \ {0} /\ lastId \in Nat /\ lastId' >= lastId /\ topic = "playlists"
  BY <1>1, RequestKinds DEF ContentsTyped
<1>3. ContentsTyped' /\ req' = [req EXCEPT ![p] = [r EXCEPT !.at = "insertItems"]]
      /\ req'[p].at = "insertItems" /\ req'[p].id = pl
  BY <1>1, <1>2, MoveTyped
<1>4. Alone(p) /\ req'[p] = [r EXCEPT !.at = "insertItems"]
  BY <1>3 DEF Alone, ContentsTyped
<1>5. req'[p].items = r.items
  BY <1>2, <1>4 DEF Writes
<1>6. PlaylistsTyped'
  BY <1>1 DEF PlaylistsRight, PlaylistsTyped
<1>7. Items(pl)' = {} /\ \A k : k # pl => Items(k)' = Items(k)
  BY <1>1 DEF Items
<1>8. OtherLists(pl)
  BY <1>1, <1>7 DEF OtherLists
<1>9. torn \subseteq torn' /\ Sole(p, pl)
  BY <1>1, StillSole
<1>10. ASSUME pl \in DOMAIN playlist', pl \notin torn' PROVE ListLeft(p, pl)
  <2>1. ListAs(p, pl)
    BY <1>1, <1>10, ListOf
  <2> QED BY <1>1, <1>3, <1>5, <1>7, <2>1 DEF ListLeft, ListAs
<1>11. PlaylistsRight' /\ Apart'
  BY <1>1, <1>2, <1>3, <1>4, <1>6, <1>8, <1>9, <1>10, OneList
<1> QED BY <1>2, <1>3, <1>11

LEMMA InsertOrphansKeeps ==
  ASSUME ContentsTyped, PlaylistsRight, Apart, NEW p \in Procs, InsertItems(p), req[p].id = 0
  PROVE  ContentsTyped' /\ PlaylistsRight' /\ Apart' /\ lastId' >= lastId
<1>1. /\ req[p].at = "insertItems" /\ Answers(p) /\ UNCHANGED <<topic, lastId, playlist, torn, dashboards>>
      /\ playlist_item' = playlist_item \cup ItemRows(0, req[p].items)
  BY DEF InsertItems, OnlyPlaylists, annotations
<1>2. topic = "playlists"
  BY <1>1, RequestKinds
<1>3. /\ req' = [req EXCEPT ![p] = Idle] /\ made' \in Nat /\ Idle \in OfPlaylists
      /\ Idle.id = 0 /\ Idle.at \in {"idle", "insertItems"}
  BY <1>1, IdleWaits DEF Answers, OfPlaylists, ContentsTyped
<1>4. \A item \in ItemRows(0, req[p].items) : item.playlist = 0
  BY DEF ItemRows
<1>5. /\ playlist_item \subseteq playlist_item'
      /\ \A item \in playlist_item' : item \in playlist_item \/ item.playlist = 0
  BY <1>1, <1>4
<1> QED BY <1>1, <1>2, <1>3, <1>5, OrphansKeep

LEMMA InsertItemsKeeps ==
  ASSUME ContentsTyped, PlaylistsRight, Apart, NEW p \in Procs, InsertItems(p), NEW pl, pl = req[p].id, pl # 0
  PROVE  ContentsTyped' /\ PlaylistsRight' /\ Apart' /\ lastId' >= lastId
<1> DEFINE r == req[p]
<1>1. /\ r.at = "insertItems" /\ Answers(p) /\ UNCHANGED <<topic, lastId, playlist, torn, dashboards>>
      /\ playlist_item' = playlist_item \cup ItemRows(pl, r.items)
  BY DEF InsertItems, OnlyPlaylists, annotations
<1>2. pl \in Nat \ {0} /\ lastId \in Nat /\ lastId' \in Nat /\ lastId' >= lastId /\ pl <= lastId /\ topic = "playlists"
  BY <1>1, RequestKinds DEF ContentsTyped
<1>3. ContentsTyped' /\ req' = [req EXCEPT ![p] = Idle] /\ req'[p] = Idle
  BY <1>1, <1>2, AnswerTyped
<1>4. Alone(p) /\ req'[p].id = 0
  BY <1>3, IdleWaits DEF Alone
<1>5. \A row \in ItemRows(pl, r.items) : row.playlist = pl
  BY DEF ItemRows
<1>6. PlaylistsTyped'
  BY <1>1, <1>2, <1>5 DEF PlaylistsRight, PlaylistsTyped
<1>7. Items(pl)' = Items(pl) \cup ItemRows(pl, r.items) /\ \A k : k # pl => Items(k)' = Items(k)
  BY <1>1, <1>5 DEF Items
<1>8. OtherLists(pl)
  BY <1>1, <1>7 DEF OtherLists
<1>9. torn \subseteq torn' /\ Sole(p, pl)
  BY <1>1, StillSole
<1>10. ASSUME pl \in DOMAIN playlist', pl \notin torn' PROVE ListLeft(p, pl)
  <2>1. ListAs(p, pl)
    BY <1>1, <1>10, ListOf
  <2>2. Items(pl) = {} /\ playlist[pl] = r.items
    BY <1>1, <2>1 DEF ListAs
  <2>3. HasItems(pl)'
    BY <1>1, <1>7, <2>2 DEF HasItems, ItemRows
  <2> QED BY <1>2, <1>4, <2>3 DEF ListLeft
<1>11. req[p].id \in {0, pl} /\ req'[p].id \in {0, pl}
  BY <1>4
<1>12. PlaylistsRight' /\ Apart'
  BY <1>1, <1>2, <1>3, <1>4, <1>6, <1>8, <1>9, <1>10, <1>11, OneList
<1> QED BY <1>2, <1>3, <1>12

LEMMA DeleteRowsKeeps ==
  ASSUME ContentsTyped, PlaylistsRight, Apart, NEW p \in Procs, DeleteRows(p), NEW pl, pl = req[p].id
  PROVE  ContentsTyped' /\ PlaylistsRight' /\ Apart' /\ lastId' >= lastId
<1>1. /\ req[p].at = "delete" /\ Answers(p) /\ UNCHANGED <<topic, lastId, torn, dashboards>>
      /\ playlist' = [k \in DOMAIN playlist \ {pl} |-> playlist[k]]
      /\ playlist_item' = playlist_item \ Items(pl)
  BY DEF DeleteRows, OnlyPlaylists, annotations, Restrict
<1>2. pl \in Nat \ {0} /\ lastId \in Nat /\ lastId' \in Nat /\ lastId' >= lastId /\ topic = "playlists"
  BY <1>1, RequestKinds DEF ContentsTyped
<1>3. ContentsTyped' /\ req' = [req EXCEPT ![p] = Idle] /\ req'[p] = Idle
  BY <1>1, <1>2, AnswerTyped
<1>4. Alone(p) /\ req'[p].id = 0
  BY <1>3, IdleWaits DEF Alone
<1>5. DOMAIN playlist' = DOMAIN playlist \ {pl} /\ \A k \in DOMAIN playlist' : playlist'[k] = playlist[k]
  BY <1>1
<1>6. PlaylistsTyped'
  <2>1. playlist' \in [DOMAIN playlist' -> SavedLists]
    BY <1>1, <1>5 DEF PlaylistsRight, PlaylistsTyped
  <2> QED BY <1>1, <1>5, <2>1 DEF PlaylistsRight, PlaylistsTyped
<1>7. \A k : k # pl => Items(k)' = Items(k)
  BY <1>1 DEF Items
<1>8. OtherLists(pl)
  BY <1>5, <1>7 DEF OtherLists
<1>9. torn \subseteq torn' /\ Sole(p, pl)
  BY <1>1, StillSole
<1>10. req[p].id \in {0, pl} /\ req'[p].id \in {0, pl} /\ pl \notin DOMAIN playlist'
  BY <1>4, <1>5
<1>11. PlaylistsRight' /\ Apart'
  BY <1>1, <1>2, <1>3, <1>4, <1>6, <1>8, <1>9, <1>10, OneList
<1> QED BY <1>2, <1>3, <1>11

-----------------------------------------------------------------------------
(* The steps together *)

\* Dashboards may go, and with them the items that name them.
ItemsFade ==
  /\ dashboards' \subseteq dashboards /\ playlist_item' \subseteq playlist_item
  /\ \A row \in playlist_item \ playlist_item' : Gone(row)'

LEMMA FadingKeeps ==
  ASSUME PlaylistsRight, ItemsFade, UNCHANGED <<topic, lastId, req, playlist, torn>>
  PROVE  PlaylistsRight'
<1>1. PlaylistsTyped'
  BY DEF PlaylistsRight, PlaylistsTyped, ItemsFade
<1>2. ASSUME NEW pl \in DOMAIN playlist PROVE ListRight(pl)'
  <2>1. Items(pl)' = Items(pl) \cap playlist_item'
    BY DEF Items, ItemsFade
  <2>2. Items(pl) = {} => Items(pl)' = {}
    BY <2>1
  <2>3. HasItems(pl) => HasItems(pl)'
    <3> SUFFICES ASSUME HasItems(pl) PROVE HasItems(pl)'
      OBVIOUS
    <3>1. ItemRows(pl, playlist[pl])' = ItemRows(pl, playlist[pl])
      BY DEF ItemRows
    <3>2. \A row : Gone(row) => Gone(row)'
      BY DEF Gone, ItemsFade
    <3>3. \A row \in Items(pl) \ playlist_item' : Gone(row)'
      BY DEF Items, ItemsFade
    <3> QED BY <2>1, <3>1, <3>2, <3>3 DEF HasItems
  <2>4. Busy(pl)' = Busy(pl)
    BY DEF Busy
  <2>5. ListRight(pl)
    BY DEF PlaylistsRight, ListsRight
  <2>6. ASSUME NEW p \in Procs, ListAs(p, pl) PROVE ListAs(p, pl)'
    BY <2>2, <2>3, <2>6 DEF ListAs
  <2> QED BY <2>3, <2>4, <2>5, <2>6 DEF ListRight
<1> QED BY <1>1, <1>2 DEF PlaylistsRight, ListsRight

LEMMA PrefsKept ==
  ASSUME PrefsRight, UNCHANGED <<preferences, asked>>, dashboards' \subseteq dashboards
  PROVE  PrefsRight'
  BY DEF PrefsRight, PrefsOf

LEMMA AnnotationsKept ==
  ASSUME ContentsInv, AnnotationsNext
  PROVE  ContentsInv'
<1>1. UNCHANGED <<topic, playlist, playlist_item, preferences, asked>> /\ dashboards' \subseteq dashboards
  BY DEF AnnotationsNext, PostAnnotation, SaveStart, MarkStart, SaveEnd, UpdateAnnotation, UpdateStart, UpdateEnd,
         DeleteAnnotationById, DeleteAnnotationRegion, DeleteAnnotations, DashboardAnnotations, Delete,
         OnlyAnnotations, playlists, personal
<1>2. ContentsTyped /\ AnnotationsRight /\ Apart
  BY DEF ContentsInv
<1>3. \A tags \in {Nil} \cup { {t} : t \in Tags } : tags \in TagSets
  BY DEF TagSets
<1>4. ContentsTyped' /\ AnnotationsRight' /\ Apart'
  <2>1. ASSUME NEW p \in Procs, NEW region \in BOOLEAN, NEW tags \in {Nil} \cup { {t} : t \in Tags }, NEW d \in Panels,
               PostAnnotation(p, region, tags, d)
        PROVE  ContentsTyped' /\ AnnotationsRight' /\ Apart'
    BY <1>2, <1>3, <2>1, PostAnnotationKeeps
  <2>2. ASSUME NEW p \in Procs, SaveStart(p) PROVE ContentsTyped' /\ AnnotationsRight' /\ Apart'
    BY <1>2, <2>2, SaveStartKeeps
  <2>3. ASSUME NEW p \in Procs, MarkStart(p) PROVE ContentsTyped' /\ AnnotationsRight' /\ Apart'
    BY <1>2, <2>3, MarkStartKeeps
  <2>4. ASSUME NEW p \in Procs, SaveEnd(p) PROVE ContentsTyped' /\ AnnotationsRight' /\ Apart'
    BY <1>2, <2>4, SaveEndKeeps
  <2>5. ASSUME NEW p \in Procs, NEW id \in DOMAIN annotation, NEW tags \in {Nil} \cup { {t} : t \in Tags },
               UpdateAnnotation(p, id, tags)
        PROVE  ContentsTyped' /\ AnnotationsRight' /\ Apart'
    BY <1>2, <1>3, <2>5, UpdateAnnotationKeeps
  <2>6. ASSUME NEW p \in Procs, UpdateStart(p) PROVE ContentsTyped' /\ AnnotationsRight' /\ Apart'
    BY <1>2, <2>6, UpdateStartKeeps
  <2>7. ASSUME NEW p \in Procs, UpdateEnd(p) PROVE ContentsTyped' /\ AnnotationsRight' /\ Apart'
    BY <1>2, <2>7, UpdateEndKeeps
  <2>8. ASSUME NEW id \in DOMAIN annotation, DeleteAnnotationById(id)
        PROVE  ContentsTyped' /\ AnnotationsRight' /\ Apart'
    BY <1>2, <2>8, DeleteByIdKeeps
  <2>9. ASSUME NEW id \in DOMAIN annotation, DeleteAnnotationRegion(Row(id).region)
        PROVE  ContentsTyped' /\ AnnotationsRight' /\ Apart'
    BY <1>2, <2>9, DeleteRegionKeeps
  <2>10. ASSUME NEW d \in Panels, DeleteAnnotations(d) \/ DashboardAnnotations(d)
         PROVE  ContentsTyped' /\ AnnotationsRight' /\ Apart'
    BY <1>2, <2>10, DeletePanelKeeps
  <2> QED BY <2>1, <2>2, <2>3, <2>4, <2>5, <2>6, <2>7, <2>8, <2>9, <2>10 DEF AnnotationsNext
<1>5. topic = "annotations"
  <2>1. ASSUME NEW p \in Procs, req[p].at \in {"save", "mark", "saveEnd", "update", "updateEnd"}
        PROVE  topic = "annotations"
    BY <1>2, <2>1, RequestKinds
  <2> QED BY <2>1 DEF AnnotationsNext, PostAnnotation, SaveStart, MarkStart, SaveEnd, UpdateAnnotation, UpdateStart, UpdateEnd,
         DeleteAnnotationById, DeleteAnnotationRegion, DeleteAnnotations, DashboardAnnotations, Delete, AtOnce, Arrives
<1>6. PlaylistsRight'
  <2>1. PlaylistsTyped /\ playlist' = playlist /\ playlist_item' = playlist_item /\ topic' = topic
    BY <1>1 DEF ContentsInv, PlaylistsRight
  <2>2. DOMAIN playlist = {} /\ lastId \in Nat /\ lastId' \in Nat
    BY <1>4, <1>5, <2>1 DEF PlaylistsTyped, ContentsInv, ContentsTyped
  <2>3. lastId' >= lastId
    <3>1. ASSUME NEW p \in Procs,
                 SaveStart(p) \/ MarkStart(p) \/ SaveEnd(p) \/ UpdateStart(p) \/ UpdateEnd(p)
          PROVE  lastId' \in {lastId, lastId + 1}
      BY <3>1 DEF SaveStart, MarkStart, SaveEnd, UpdateStart, UpdateEnd, Save, Write, annotations
    <3>2. ASSUME NEW p, NEW region, NEW tags, NEW d, PostAnnotation(p, region, tags, d)
          PROVE  lastId' \in {lastId, lastId + 1}
      BY <3>2 DEF PostAnnotation, annotations
    <3>3. ASSUME NEW p, NEW id, NEW tags, UpdateAnnotation(p, id, tags)
          PROVE  lastId' \in {lastId, lastId + 1}
      BY <3>3 DEF UpdateAnnotation, annotations
    <3>4. ASSUME NEW id, DeleteAnnotationById(id) \/ DeleteAnnotationRegion(id)
                         \/ DeleteAnnotations(id) \/ DashboardAnnotations(id)
          PROVE  lastId' \in {lastId, lastId + 1}
      BY <3>4 DEF DeleteAnnotationById, DeleteAnnotationRegion, DeleteAnnotations, DashboardAnnotations, Delete, Deletes
    <3>5. lastId' \in {lastId, lastId + 1}
      BY <3>1, <3>2, <3>3, <3>4 DEF AnnotationsNext
    <3> QED BY <2>2, <3>5
  <2> QED BY <1>1, <1>5, <2>2, <2>3, NoPlaylists DEF ContentsInv
<1>7. PrefsRight'
  BY <1>1, PrefsKept DEF ContentsInv
<1> QED BY <1>4, <1>6, <1>7 DEF ContentsInv

LEMMA PlaylistsKept ==
  ASSUME ContentsInv, PlaylistsNext
  PROVE  ContentsInv'
<1>1. UNCHANGED <<topic, annotation, annotation_tag, dashboards, preferences, asked>>
  BY DEF PlaylistsNext, CreatePlaylist, UpdatePlaylist, UpdateRow, DeleteItems, InsertItems, DeletePlaylist, DeleteRows,
         OnlyPlaylists, annotations, personal
<1>2. ContentsTyped /\ PlaylistsRight /\ Apart
  BY DEF ContentsInv
<1>3. ContentsTyped' /\ PlaylistsRight' /\ Apart' /\ lastId' >= lastId
  <2>1. PICK p \in Procs :
          \/ \E items \in Lists : CreatePlaylist(p, items)
          \/ \E pl \in DOMAIN playlist :
               (\E items \in Lists : UpdatePlaylist(p, pl, items)) \/ DeletePlaylist(p, pl)
          \/ UpdateRow(p) \/ DeleteItems(p) \/ InsertItems(p) \/ DeleteRows(p)
    BY DEF PlaylistsNext
  <2>2. ASSUME NEW items \in Lists, CreatePlaylist(p, items)
        PROVE  ContentsTyped' /\ PlaylistsRight' /\ Apart' /\ lastId' >= lastId
    BY <1>2, <2>2, CreatePlaylistKeeps
  <2>3. ASSUME NEW pl \in DOMAIN playlist, NEW items \in Lists, UpdatePlaylist(p, pl, items)
        PROVE  ContentsTyped' /\ PlaylistsRight' /\ Apart' /\ lastId' >= lastId
    BY <1>2, <2>3, UpdatePlaylistKeeps
  <2>4. ASSUME NEW pl \in DOMAIN playlist, DeletePlaylist(p, pl)
        PROVE  ContentsTyped' /\ PlaylistsRight' /\ Apart' /\ lastId' >= lastId
    BY <1>2, <2>4, DeletePlaylistKeeps
  <2>5. CASE UpdateRow(p)
    BY <1>2, <2>5, UpdateRowKeeps
  <2>6. CASE DeleteItems(p)
    BY <1>2, <2>6, DeleteItemsKeeps
  <2>7. CASE InsertItems(p)
    BY <1>2, <2>7, InsertItemsKeeps, InsertOrphansKeeps
  <2>8. CASE DeleteRows(p)
    BY <1>2, <2>8, DeleteRowsKeeps
  <2> QED BY <2>1, <2>2, <2>3, <2>4, <2>5, <2>6, <2>7, <2>8
<1>4. topic = "playlists"
  <2>1. ASSUME NEW p \in Procs, req[p].at \in {"updateRow", "deleteItems", "insertItems", "delete"}
        PROVE  topic = "playlists"
    BY <1>2, <2>1, RequestKinds
  <2> QED BY <2>1 DEF PlaylistsNext, CreatePlaylist, UpdatePlaylist, UpdateRow, DeleteItems, InsertItems, DeletePlaylist,
                      DeleteRows, Arrives
<1>5. AnnotationsRight'
  <2>1. lastId \in Nat /\ lastId' \in Nat /\ topic' # "annotations"
    BY <1>1, <1>2, <1>3, <1>4 DEF ContentsTyped
  <2> QED BY <1>1, <1>3, <2>1, NoAnnotations DEF ContentsInv
<1>6. PrefsRight'
  BY <1>1, PrefsKept DEF ContentsInv
<1> QED BY <1>3, <1>5, <1>6 DEF ContentsInv

LEMMA ContentsBegin ==
  ASSUME ContentsInit
  PROVE  ContentsInv
<1>1. made = 0 /\ lastId = 0 /\ req = [p \in Procs |-> Idle] /\ torn = {}
      /\ dashboards = Dashboards /\ annotation = <<>> /\ annotation_tag = {} /\ playlist = <<>> /\ playlist_item = {}
      /\ preferences = <<>> /\ asked = [u \in Users |-> NoPrefs]
  BY DEF ContentsInit
<1>2. DOMAIN annotation = {} /\ DOMAIN playlist = {} /\ DOMAIN preferences = {}
  BY <1>1
<1>3. \A p \in Procs : req[p] \in Waiting /\ req[p].at = "idle" /\ req[p].id = 0
  BY <1>1, IdleWaits
<1>4. ContentsTyped
  BY <1>1, <1>3 DEF ContentsTyped, OfAnnotations, OfPlaylists
<1>5. AnnotationsTyped
  BY <1>1, <1>2 DEF AnnotationsTyped
<1>6. \A s : InRegion(s) = {}
  BY <1>2 DEF InRegion
<1>7. RegionsRight
  BY <1>3, <1>6 DEF RegionsRight, RegionRight
<1>8. OwnRows /\ TagsKnown /\ TagsRight /\ PairsRight
  BY <1>1, <1>2, <1>3 DEF OwnRows, Own, TagsKnown, TagsRight, PairsRight
<1>9. PlaylistsTyped /\ ListsRight
  BY <1>1, <1>2 DEF PlaylistsTyped, ListsRight
<1>10. Apart
  BY <1>3 DEF Apart
<1>11. PrefsRight
  <2>1. NoPrefs \in Prefs
    BY DEF NoPrefs, Prefs, Themes
  <2>2. \A u \in Users : PrefsOf(u) = NoPrefs
    BY <1>2 DEF PrefsOf
  <2>3. preferences \in [DOMAIN preferences -> Prefs]
    BY <1>1, <1>2
  <2> QED BY <1>1, <1>2, <2>1, <2>2, <2>3 DEF PrefsRight
<1> QED BY <1>4, <1>5, <1>7, <1>8, <1>9, <1>10, <1>11 DEF ContentsInv, AnnotationsRight, PlaylistsRight

\* Nothing of annotations or playlists changes, but for items of dashboards that go.
SameContents == UNCHANGED <<topic, annotation, annotation_tag, lastId, playlist, torn>>

LEMMA RowsStay ==
  ASSUME ContentsInv, SameContents, ItemsFade, UNCHANGED req, made' \in Nat, PrefsRight'
  PROVE  ContentsInv'
<1>1. ContentsTyped' /\ Apart'
  BY DEF ContentsInv, ContentsTyped, Apart, SameContents
<1>2. AnnotationsTyped' /\ OwnRows' /\ TagsKnown' /\ TagsRight' /\ PairsRight'
  BY SameRows DEF ContentsInv, AnnotationsRight, AnnotationsTyped, OwnRows, Own, TagsKnown, Row, SameContents
<1>3. ASSUME NEW s \in Nat \ {0} PROVE RegionRight(s)'
  <2>1. Untouched(s) /\ Asking(s) /\ torn \subseteq torn' /\ \A p \in Procs : req[p].id = s => req'[p] = req[p]
    BY SameRows DEF SameContents, Asking
  <2> QED BY <1>1, <2>1, RegionStays DEF ContentsInv, AnnotationsRight, RegionsRight
<1>4. RegionsRight'
  BY <1>3 DEF RegionsRight
<1>5. PlaylistsRight'
  BY FadingKeeps DEF ContentsInv, SameContents
<1> QED BY <1>1, <1>2, <1>4, <1>5 DEF ContentsInv, AnnotationsRight

LEMMA PersonalKept ==
  ASSUME ContentsInv, PersonalNext
  PROVE  ContentsInv'
<1>1. made \in Nat
  BY DEF ContentsInv, ContentsTyped
<1>2. ASSUME NEW u \in Users, NEW theme \in Themes, NEW home \in dashboards \cup {0},
             SavePreferences(u, [theme |-> theme, home |-> home])
      PROVE  ContentsInv'
  <2> DEFINE prefs == [theme |-> theme, home |-> home]
  <2>1. /\ preferences' = With(preferences, u, prefs) /\ asked' = [asked EXCEPT ![u] = prefs]
        /\ made' = made + 1 /\ UNCHANGED <<req, dashboards>> /\ SameContents /\ ItemsFade
    BY <1>2 DEF ItemsFade, SavePreferences, AtOnce, OnlyPersonal, SameContents, annotations, playlists
  <2>2. prefs \in Prefs
    BY DEF ContentsInv, PrefsRight, Prefs
  <2> HIDE DEF prefs
  <2>3. DOMAIN preferences' = DOMAIN preferences \cup {u} /\ preferences'[u] = prefs
        /\ \A v \in DOMAIN preferences : v # u => preferences'[v] = preferences[v]
    BY <2>1 DEF With
  <2>4. preferences' \in [DOMAIN preferences' -> Prefs]
    BY <2>1, <2>2, <2>3 DEF With, ContentsInv, PrefsRight
  <2>5. asked' \in [Users -> Prefs] /\ asked'[u] = prefs /\ \A v \in Users : v # u => asked'[v] = asked[v]
    BY <2>1, <2>2 DEF ContentsInv, PrefsRight
  <2>6. ASSUME NEW v \in Users PROVE PrefsOf(v)' = asked'[v]
    <3>1. CASE v = u
      BY <2>3, <2>5, <3>1 DEF PrefsOf
    <3>2. CASE v # u
      <4>1. PrefsOf(v) = asked[v]
        BY DEF ContentsInv, PrefsRight
      <4>2. PrefsOf(v)' = PrefsOf(v)
        BY <2>3, <3>2 DEF PrefsOf, NoPrefs
      <4> QED BY <2>5, <3>2, <4>1, <4>2
    <3> QED BY <3>1, <3>2
  <2>7. PrefsRight'
    BY <2>1, <2>3, <2>4, <2>5, <2>6 DEF ContentsInv, PrefsRight
  <2> QED BY <1>1, <2>1, <2>7, RowsStay
<1>3. ASSUME UNCHANGED <<req, preferences, asked>>, SameContents, made' \in {made, made + 1}, ItemsFade
      PROVE  ContentsInv'
  BY <1>1, <1>3, PrefsKept, RowsStay DEF ContentsInv, ItemsFade
<1>4. ASSUME NEW u, NEW d, StarDashboard(u, d) \/ UnstarDashboard(u, d)
      PROVE  ContentsInv'
  BY <1>3, <1>4 DEF ItemsFade, StarDashboard, UnstarDashboard, AtOnce, OnlyPersonal, SameContents, annotations, playlists
<1>5. ASSUME NEW d, DeleteDashboard(d)
      PROVE  ContentsInv'
  <2>1. /\ d \in dashboards /\ dashboards' = dashboards \ {d} /\ made' = made
        /\ playlist_item' = { row \in playlist_item : row.item # <<"id", d>> }
        /\ UNCHANGED <<req, preferences, asked>> /\ SameContents
    BY <1>5 DEF DeleteDashboard, SameContents, annotations
  <2>2. d \in Dashboards \ dashboards'
    BY <2>1 DEF ContentsInv, PrefsRight
  <2>3. ItemsFade
    BY <2>1, <2>2 DEF ItemsFade, Gone
  <2> QED BY <1>3, <2>1, <2>3
<1>6. ASSUME NEW x, updateIndex(x) \/ CreateDashboardSnapshot(x) \/ DeleteDashboardSnapshot(x)
      PROVE  ContentsInv'
  BY <1>3, <1>6 DEF ItemsFade, updateIndex, CreateDashboardSnapshot, DeleteDashboardSnapshot, AtOnce, OnlyPersonal, SameContents,
                    annotations, playlists
<1>7. ASSUME RenderToPng \/ CleanUp \/ Tick
      PROVE  ContentsInv'
  BY <1>3, <1>7 DEF ItemsFade, RenderToPng, CleanUp, Tick, AtOnce, OnlyPersonal, SameContents, annotations, playlists
<1> QED BY <1>2, <1>4, <1>5, <1>6, <1>7 DEF PersonalNext

LEMMA KilledKept ==
  ASSUME ContentsInv, Killed
  PROVE  ContentsInv'
<1>1. req' = [p \in Procs |-> Idle] /\ torn' = torn \cup ({ req[p].id : p \in Procs } \ {0})
      /\ UNCHANGED <<topic, made, dashboards, annotation, annotation_tag, lastId, playlist, playlist_item,
                     preferences, asked>>
  BY DEF Killed, Torn, annotations, playlists, personal
<1>2. \A p \in Procs : req'[p] \in Waiting /\ req'[p].at = "idle" /\ req'[p].id = 0
  BY <1>1, IdleWaits
<1>3. ContentsTyped'
  BY <1>1, <1>2 DEF ContentsInv, ContentsTyped, OfAnnotations, OfPlaylists
<1>4. Apart'
  BY <1>2 DEF Apart
<1>5. AnnotationsTyped' /\ OwnRows' /\ TagsKnown' /\ TagsRight' /\ PairsRight'
  BY <1>1, <1>2, SameRows DEF ContentsInv, AnnotationsRight, AnnotationsTyped, OwnRows, Own, TagsKnown, Row
<1>6. ContentsTyped /\ torn \subseteq torn'
  BY <1>1 DEF ContentsInv
<1>7. ASSUME NEW s \in Nat \ {0}, s \notin torn' PROVE ~Busy(s) /\ \A p \in Procs : req[p].id # s
  <2>1. \A p \in Procs : req[p].id # s
    BY <1>1, <1>7
  <2> QED BY <1>6, <2>1, BusyIs
<1>8. ASSUME NEW s \in Nat \ {0} PROVE RegionRight(s)'
  <2>1. CASE s \in torn'
    BY <2>1 DEF RegionRight
  <2>2. CASE s \notin torn'
    <3>1. Untouched(s)
      BY <1>1, SameRows
    <3>2. Asking(s)
      BY <1>2 DEF Asking
    <3>3. \A p \in Procs : req[p].id = s => req'[p] = req[p]
      BY <1>7, <2>2
    <3> QED BY <1>3, <1>6, <3>1, <3>2, <3>3, RegionStays DEF ContentsInv, AnnotationsRight, RegionsRight
  <2> QED BY <2>1, <2>2
<1>9. RegionsRight'
  BY <1>8 DEF RegionsRight
<1>10. PlaylistsTyped'
  BY <1>1 DEF ContentsInv, PlaylistsRight, PlaylistsTyped
<1>11. ASSUME NEW pl \in DOMAIN playlist' PROVE ListRight(pl)'
  <2>1. pl \in Nat \ {0} /\ ListRight(pl) /\ Items(pl)' = Items(pl) /\ playlist' = playlist
    BY <1>1 DEF ContentsInv, ContentsTyped, PlaylistsRight, PlaylistsTyped, ListsRight, Items
  <2>2. CASE pl \in torn'
    BY <2>2 DEF ListRight
  <2>3. CASE pl \notin torn'
    <3>1. HasItems(pl)'
      BY <1>1, <1>6, <1>7, <2>1, <2>3 DEF ListRight, HasItems, ItemRows, Gone
    <3> QED BY <1>2, <2>1, <3>1 DEF ListRight
  <2> QED BY <2>2, <2>3
<1>12. ListsRight'
  BY <1>11 DEF ListsRight
<1>13. PrefsRight'
  BY <1>1, PrefsKept DEF ContentsInv
<1> QED BY <1>3, <1>4, <1>5, <1>9, <1>10, <1>12, <1>13 DEF ContentsInv, AnnotationsRight, PlaylistsRight

LEMMA ContentsStutter ==
  ASSUME ContentsInv, UNCHANGED contentsVars
  PROVE  ContentsInv'
<1>1. SameContents /\ ItemsFade /\ UNCHANGED <<req, made, preferences, asked, dashboards>>
  BY DEF ItemsFade, contentsVars, annotations, playlists, personal, SameContents
<1>2. made' \in Nat /\ PrefsRight'
  BY <1>1, PrefsKept DEF ContentsInv, ContentsTyped
<1> QED BY <1>1, <1>2, RowsStay

-----------------------------------------------------------------------------
(* What the invariant says of the properties *)

LEMMA WholeRegions == ContentsInv => RegionsWhole
<1> SUFFICES ASSUME ContentsInv, NEW id \in DOMAIN annotation, NEW s, s = Row(id).region, s # 0,
                    ~Busy(s), s \notin torn
             PROVE  /\ s \in InRegion(s) /\ Cardinality(EndOf(s)) = 1 /\ Row(s).side = "from"
                    /\ \A e \in EndOf(s) : Row(e).side = "to" /\ Row(e).text = Row(s).text /\ Row(e).tags = Row(s).tags
  BY DEF RegionsWhole
<1>1. s \in Nat \ {0}
  BY DEF ContentsInv, AnnotationsRight, AnnotationsTyped, AnnotationRows, Row
<1>2. RegionRight(s)
  BY <1>1 DEF ContentsInv, AnnotationsRight, RegionsRight
<1>3. id \in InRegion(s)
  BY DEF InRegion
<1>4. Paired(s) /\ Alike(s)
  BY <1>2, <1>3 DEF RegionRight
<1>5. PICK e \in InRegion(s) : EndOf(s) = {e} /\ Row(e).side = "to"
  BY <1>4 DEF Paired
<1>6. Cardinality(EndOf(s)) = 1
  BY <1>5, FS_Singleton
<1> QED BY <1>4, <1>5, <1>6 DEF Paired, Alike

LEMMA FoundByTags == ContentsInv => TagsFound
<1> SUFFICES ASSUME ContentsInv, NEW id \in DOMAIN annotation, NEW q \in (SUBSET Tags) \ {{}}, Row(id).tags # Nil
             PROVE  id \in Find(q) <=> q \subseteq Row(id).tags
  BY DEF TagsFound
<1> DEFINE tags == Row(id).tags
           pairs == { pair \in annotation_tag : pair[1] = id /\ pair[2] \in q }
           both == q \cap tags
           f == [t \in both |-> <<id, t>>]
<1>1. IsFiniteSet(q) /\ IsFiniteSet(both)
  BY ContentsAssumption, FS_Subset
<1>2. \A t \in Tags : <<id, t>> \in annotation_tag <=> t \in tags
  BY DEF ContentsInv, AnnotationsRight, TagsRight
<1>3. \A pair \in annotation_tag : pair[2] \in Tags /\ pair = <<pair[1], pair[2]>>
  BY DEF ContentsInv, AnnotationsRight, PairsRight
<1>4. \A t \in both : f[t] = <<id, t>> /\ f[t] \in pairs
  BY <1>2
<1>5. \A pair \in pairs : pair[2] \in both /\ f[pair[2]] = pair
  BY <1>2, <1>3
<1>6. f \in Bijection(both, pairs)
  <2>1. f \in [both -> pairs]
    BY <1>4
  <2>2. \A a, b \in both : f[a] = f[b] => a = b
    BY <1>4
  <2>3. \A pair \in pairs : \E t \in both : f[t] = pair
    BY <1>5
  <2> HIDE DEF f, both, pairs
  <2>4. f \in Injection(both, pairs)
    BY <2>1, <2>2 DEF Injection, IsInjective
  <2>5. f \in Surjection(both, pairs)
    BY <2>1, <2>3 DEF Surjection
  <2> QED BY <2>4, <2>5 DEF Bijection
<1>7. Cardinality(pairs) = Cardinality(both)
  <2> HIDE DEF f, both, pairs
  <2>1. ExistsBijection(both, pairs)
    BY <1>6 DEF ExistsBijection
  <2> QED BY <1>1, <2>1, FS_Bijection
<1>8. Cardinality(both) = Cardinality(q) <=> both = q
  BY <1>1, FS_Subset
<1>9. id \in Find(q) <=> Cardinality(pairs) = Cardinality(q)
  BY DEF Find
<1> QED BY <1>7, <1>8, <1>9

LEMMA SavedItems == ContentsInv => ItemsSaved
  BY DEF ContentsInv, PlaylistsRight, ListsRight, ListRight, ItemsSaved

LEMMA ShownLast == ContentsInv => LastSaveShown
<1> SUFFICES ASSUME ContentsInv, NEW u \in Users \ {0}
             PROVE  LET shown == GetPreferencesWithDefaults(u)
                        first(mine, ours, none) == IF mine # none THEN mine ELSE ours IN
                    /\ shown.home = first(asked[u].home, asked[0].home, 0)
                    /\ shown.theme = first(first(asked[u].theme, asked[0].theme, ""), "default", "")
                    /\ GetHomeDashboard(u) \in dashboards \cup {0}
  BY DEF LastSaveShown
<1>1. PrefsOf(u) = asked[u] /\ PrefsOf(0) = asked[0]
  BY ContentsAssumption DEF ContentsInv, PrefsRight
<1>2. asked[u] \in Prefs /\ asked[0] \in Prefs
  BY ContentsAssumption DEF ContentsInv, PrefsRight
<1>3. GetHomeDashboard(u) \in dashboards \cup {0}
  BY DEF GetHomeDashboard
<1> QED BY <1>1, <1>2, <1>3 DEF GetPreferencesWithDefaults, Later, Defaults, Prefs

\* The invariant of what users save holds in every state.
LEMMA ContentsHold == ContentsSpec => []ContentsInv
<1>1. ContentsInit => ContentsInv
  BY ContentsBegin
<1>2. ContentsInv /\ [ContentsNext]_contentsVars => ContentsInv'
  BY AnnotationsKept, PlaylistsKept, PersonalKept, KilledKept, ContentsStutter DEF ContentsNext
<1> QED BY <1>1, <1>2, PTL DEF ContentsSpec

\* What was saved is what is shown: a region of annotations has its two rows, which say
\* the same, a search for tags finds what has them, a playlist has the items that it was
\* last saved with but for those of dashboards that are gone, and a user sees his own preferences first; whatever requests overlap,
\* are refused or are killed, those that share a region or a playlist are told.
THEOREM SavedIsShown == ContentsSpec => []ShownAsSaved
<1>1. ContentsInv => ShownAsSaved
  BY WholeRegions, FoundByTags, SavedItems, ShownLast DEF ShownAsSaved
<1> QED BY <1>1, ContentsHold, PTL
==============================================================================
