-------------------------- MODULE DataSourcesProofs --------------------------
(***************************************************************************)
(* Theorems about DataSources, for every number of clients, ids, seconds   *)
(* and writes and every content of the files.                              *)
(***************************************************************************)
EXTENDS DataSources, TLAPS

(***************************************************************************)
(* What a transaction does to the rows.                                    *)
(***************************************************************************)
Fields == {"name", "ver", "def", "ro", "val", "keys", "updated"}

\* The rows of sources, up to what the properties are about.
RowsTyped ==
  /\ clock \in Nat /\ writes \in 0 .. MaxWrites /\ nextId \in Nat \ {0}
  /\ DOMAIN sources = SourceIds
  /\ \A i \in Live : /\ i < nextId /\ DOMAIN sources[i] = Fields
                     /\ sources[i].ver \in Nat \ {0}
                     /\ sources[i].val \in 1 .. writes
  /\ DOMAIN held = 1 .. MaxWrites
  /\ \A w \in 1 .. MaxWrites : held[w] \in 0 .. clock

\* The row that says it is the default keeps its flag, and the others lose it.
LEMMA FlagRows ==
  ASSUME NEW db, DOMAIN db = SourceIds, NEW i \in SourceIds, db[i] # NoSource, NEW seen,
         \A j \in SourceIds : db[j] # NoSource =>
           db[j].ver # 0 /\ DOMAIN db[j] = Fields
  PROVE  LET f == updateIsDefaultFlag(db, i, seen) IN
         /\ DOMAIN f = SourceIds
         /\ f[i] = db[i]
         /\ \A j \in SourceIds : f[j] # NoSource => DOMAIN f[j] = Fields
         /\ \A j \in SourceIds \ {i} :
              /\ f[j] = NoSource <=> db[j] = NoSource
              /\ f[j].ver = db[j].ver /\ f[j].name = db[j].name
              /\ db[j] # NoSource => f[j].val = db[j].val /\ f[j].keys = db[j].keys
              /\ f[j] # NoSource /\ f[j].def => db[j].def /\ (j \notin seen \/ ~db[i].def)
              /\ j \notin seen \/ ~db[i].def => f[j] = db[j]
<1> DEFINE f == updateIsDefaultFlag(db, i, seen)
<1>1. CASE ~db[i].def
  BY <1>1 DEF updateIsDefaultFlag
<1>2. CASE db[i].def
  <2>1. f = [j \in SourceIds |-> IF j = i \/ j \notin seen \/ db[j] = NoSource THEN db[j]
                                 ELSE [db[j] EXCEPT !.def = FALSE]]
    BY <1>2 DEF updateIsDefaultFlag
  <2>2. ASSUME NEW j \in SourceIds \ {i}, db[j] # NoSource, j \in seen
        PROVE  /\ f[j].ver = db[j].ver /\ f[j].name = db[j].name
               /\ f[j].val = db[j].val /\ f[j].keys = db[j].keys
               /\ ~f[j].def /\ f[j] # NoSource /\ DOMAIN f[j] = Fields
    <3>1. f[j] = [db[j] EXCEPT !.def = FALSE]
      BY <2>1, <2>2
    <3>2. DOMAIN db[j] = Fields /\ "def" \in Fields
      BY <2>2 DEF Fields
    <3>3. f[j].def = FALSE
      BY <3>1, <3>2
    <3>4. /\ f[j].ver = db[j].ver /\ f[j].name = db[j].name
          /\ f[j].val = db[j].val /\ f[j].keys = db[j].keys
      BY <3>1, <3>2 DEF Fields
    <3>5. DOMAIN f[j] = Fields
      BY <3>1, <3>2
    <3>6. f[j] # NoSource
      <4>1. f[j].ver # 0 /\ NoSource.ver = 0
        BY <2>2, <3>4 DEF NoSource
      <4> QED BY <4>1
    <3> QED BY <2>2, <3>3, <3>4, <3>5, <3>6
  <2>3. f[i] = db[i] /\ DOMAIN f = SourceIds
    BY <2>1
  <2>4. ASSUME NEW j \in SourceIds \ {i}, j \notin seen \/ db[j] = NoSource PROVE f[j] = db[j]
    BY <2>1, <2>4
  <2> HIDE DEF f
  <2>5. \A j \in SourceIds : f[j] # NoSource => DOMAIN f[j] = Fields
    BY <2>2, <2>3, <2>4
  <2> QED BY <1>2, <2>2, <2>3, <2>4, <2>5 DEF f
<1> QED BY <1>1, <1>2

\* What a row says besides its name and its flags.
Kept(i) ==
  /\ sources'[i].ver = sources[i].ver /\ sources'[i].val = sources[i].val
  /\ sources'[i].keys = sources[i].keys

\* Held values only become younger.
LEMMA HeldRows ==
  ASSUME RowsTyped, held' = Held, clock' = clock
  PROVE  /\ DOMAIN held' = 1 .. MaxWrites
         /\ \A w \in 1 .. MaxWrites : held'[w] \in held[w] .. clock
         /\ \A i \in Live : sources[i].val \in 1 .. MaxWrites =>
              held'[sources[i].val] = clock
BY DEF RowsTyped, Held

\* Rows but i are as they were, or lose their flag to i.
OthersKept(i, seen) ==
  \A j \in SourceIds \ {i} :
    /\ sources'[j] = NoSource <=> sources[j] = NoSource
    /\ j \notin seen => sources'[j] = sources[j]
    /\ sources'[i] # NoSource /\ ~sources'[i].def => sources'[j] = sources[j]
    /\ sources'[j] # NoSource /\ sources'[j].def =>
         sources[j].def /\ (sources'[i] # NoSource /\ sources'[i].def => j \notin seen)

LEMMA AddRows ==
  ASSUME RowsTyped, NEW i \in SourceIds, i \notin Live, NEW cmd, NEW at, NEW seen,
         Stored(Added(i, cmd, at, seen)), writes < MaxWrites,
         nextId' \in Nat, nextId <= nextId', i < nextId', clock' = clock
  PROVE  /\ RowsTyped' /\ Live' = Live \cup {i}
         /\ \A j \in Live : Kept(j)
         /\ OthersKept(i, seen) /\ sources'[i].def = cmd.def
<1> DEFINE ds == Inserted(cmd, at)
           db == [sources EXCEPT ![i] = ds]
<1>1. /\ writes' = writes + 1 /\ held' = Held
      /\ sources' = updateIsDefaultFlag(db, i, seen)
  BY DEF Added, Stored
<1>2. /\ DOMAIN db = SourceIds /\ db[i] = ds
      /\ \A j \in SourceIds \ {i} : db[j] = sources[j]
  BY <1>1 DEF RowsTyped
<1>3. /\ ds.ver = 1 /\ ds.val = writes + 1 /\ DOMAIN ds = Fields /\ ds # NoSource
      /\ ds.def = cmd.def
  <2>1. ds.ver = 1 /\ NoSource.ver = 0
    BY DEF NoSource, Inserted
  <2> QED BY <2>1 DEF Fields, Inserted
<1> HIDE DEF ds, db
<1>5. \A j \in SourceIds : db[j] # NoSource => db[j].ver # 0 /\ DOMAIN db[j] = Fields
  BY <1>2, <1>3 DEF RowsTyped, Live
<1>6. /\ DOMAIN sources' = SourceIds /\ sources'[i] = ds
      /\ \A j \in SourceIds : sources'[j] # NoSource => DOMAIN sources'[j] = Fields
      /\ \A j \in SourceIds \ {i} :
           /\ sources'[j] = NoSource <=> sources[j] = NoSource
           /\ sources'[j].ver = sources[j].ver
           /\ sources[j] # NoSource => sources'[j].val = sources[j].val /\ sources'[j].keys = sources[j].keys
           /\ sources'[j] # NoSource /\ sources'[j].def => sources[j].def /\ (j \notin seen \/ ~ds.def)
           /\ j \notin seen \/ ~ds.def => sources'[j] = sources[j]
  BY <1>1, <1>2, <1>3, <1>5, FlagRows
<1>7. Live' = Live \cup {i} /\ \A j \in Live : Kept(j)
  BY <1>3, <1>6 DEF Live, Kept
<1>8. /\ DOMAIN held' = 1 .. MaxWrites
      /\ \A w \in 1 .. MaxWrites : held'[w] \in held[w] .. clock
  BY <1>1, HeldRows
<1>9. RowsTyped'
  <2>1. ASSUME NEW j \in Live'
        PROVE  /\ j < nextId' /\ DOMAIN sources'[j] = Fields
               /\ sources'[j].ver \in Nat \ {0}
               /\ sources'[j].val \in 1 .. writes'
    <3>1. CASE j = i
      BY <1>1, <1>3, <1>6, <3>1 DEF RowsTyped
    <3>2. CASE j \in Live /\ j # i
      <4>1. Kept(j) /\ j \in SourceIds
        BY <1>7, <3>2 DEF Live
      <4>2. sources'[j] # NoSource
        BY <2>1 DEF Live
      <4> QED BY <1>1, <1>6, <3>2, <4>1, <4>2 DEF RowsTyped, Kept, SourceIds
    <3> QED BY <1>7, <3>1, <3>2
  <2>2. nextId' # 0
    BY DEF RowsTyped
  <2> QED BY <1>1, <1>6, <1>8, <2>1, <2>2, DataSourcesAssumption DEF RowsTyped
<1>10. OthersKept(i, seen)
  BY <1>3, <1>6 DEF OthersKept
<1> QED BY <1>3, <1>6, <1>7, <1>9, <1>10

LEMMA UpdateRows ==
  ASSUME RowsTyped, NEW cmd, NEW merged, NEW at, NEW seen, cmd.ver \in Nat,
         cmd.id \in Live, NotOlder(cmd), Stored(Updated(cmd, merged, at, seen)), writes < MaxWrites,
         UNCHANGED <<clock, nextId>>
  PROVE  /\ RowsTyped' /\ Live' = Live
         /\ \A i \in Live \ {cmd.id} : Kept(i)
         /\ OthersKept(cmd.id, seen) /\ sources'[cmd.id].def = cmd.def
         /\ sources'[cmd.id].ver = cmd.ver + 1
         /\ cmd.ver # 0 => sources[cmd.id].ver < cmd.ver + 1
         /\ sources'[cmd.id].keys = IF merged = << >> THEN sources[cmd.id].keys ELSE merged
<1> DEFINE ds == Changed(cmd, merged, at)
           db == [sources EXCEPT ![cmd.id] = ds]
<1>1. /\ cmd.id \in Live /\ cmd.id \in SourceIds /\ writes' = writes + 1
      /\ held' = Held
      /\ sources' = updateIsDefaultFlag(db, cmd.id, seen)
      /\ cmd.ver # 0 => sources[cmd.id].ver < cmd.ver + 1
  BY DEF NotOlder, Updated, Stored, Live
<1>2. /\ DOMAIN db = SourceIds /\ db[cmd.id] = ds
      /\ \A i \in SourceIds \ {cmd.id} : db[i] = sources[i]
  BY <1>1 DEF RowsTyped
<1>3. /\ ds.ver = cmd.ver + 1 /\ ds.val \in {sources[cmd.id].val, writes + 1}
      /\ DOMAIN ds = Fields /\ ds # NoSource /\ ds.def = cmd.def
      /\ ds.keys = IF merged = << >> THEN sources[cmd.id].keys ELSE merged
  <2>1. ds.ver = cmd.ver + 1 /\ NoSource.ver = 0
    BY DEF NoSource, Changed
  <2> QED BY <2>1 DEF Fields, Changed
<1> HIDE DEF ds, db
<1>4. \A i \in SourceIds : db[i] # NoSource => db[i].ver # 0 /\ DOMAIN db[i] = Fields
  BY <1>2, <1>3 DEF RowsTyped, Live
<1>5. /\ DOMAIN sources' = SourceIds /\ sources'[cmd.id] = ds
      /\ \A i \in SourceIds : sources'[i] # NoSource => DOMAIN sources'[i] = Fields
      /\ \A i \in SourceIds \ {cmd.id} :
           /\ sources'[i] = NoSource <=> sources[i] = NoSource
           /\ sources'[i].ver = sources[i].ver
           /\ sources[i] # NoSource => sources'[i].val = sources[i].val /\ sources'[i].keys = sources[i].keys
           /\ sources'[i] # NoSource /\ sources'[i].def => sources[i].def /\ (i \notin seen \/ ~ds.def)
           /\ i \notin seen \/ ~ds.def => sources'[i] = sources[i]
  BY <1>1, <1>2, <1>3, <1>4, FlagRows
<1>6. Live' = Live /\ \A i \in Live \ {cmd.id} : Kept(i)
  BY <1>1, <1>3, <1>5 DEF Live, Kept
<1>7. /\ DOMAIN held' = 1 .. MaxWrites
      /\ \A w \in 1 .. MaxWrites : held'[w] \in held[w] .. clock
  BY <1>1, HeldRows
<1>8. RowsTyped'
  <2>1. ASSUME NEW i \in Live
        PROVE  /\ i < nextId' /\ DOMAIN sources'[i] = Fields
               /\ sources'[i].ver \in Nat \ {0}
               /\ sources'[i].val \in 1 .. writes'
    <3>1. sources[i].ver \in Nat \ {0} /\ sources[i].val \in 1 .. writes /\ i < nextId
      BY DEF RowsTyped
    <3>2. DOMAIN sources'[i] = Fields
      BY <1>5, <1>6 DEF Live
    <3>3. writes' = writes + 1 /\ nextId' = nextId /\ writes \in Nat
      BY <1>1, DataSourcesAssumption DEF RowsTyped
    <3>4. sources'[i].ver \in Nat \ {0} /\ sources'[i].val \in {sources[i].val, writes + 1}
      <4>1. CASE i = cmd.id
        <5>1. sources'[i] = ds
          BY <1>5, <4>1
        <5> QED BY <1>3, <4>1, <5>1
      <4>2. CASE i # cmd.id
        <5>1. Kept(i)
          BY <1>6, <4>2
        <5> QED BY <3>1, <5>1 DEF Kept
      <4> QED BY <4>1, <4>2
    <3> QED BY <3>1, <3>2, <3>3, <3>4
  <2> QED BY <1>1, <1>5, <1>6, <1>7, <2>1, DataSourcesAssumption DEF RowsTyped
<1>9. OthersKept(cmd.id, seen)
  BY <1>3, <1>5 DEF OthersKept
<1> QED BY <1>1, <1>3, <1>5, <1>6, <1>8, <1>9

LEMMA DeleteRows ==
  ASSUME RowsTyped, NEW d \in SourceIds, Deleted(d), writes < MaxWrites,
         UNCHANGED <<clock, nextId>>
  PROVE  /\ RowsTyped' /\ Live' = Live \ {d}
         /\ \A i \in Live' : Kept(i)
         /\ OthersKept(d, {})
<1>1. /\ DOMAIN sources' = SourceIds /\ sources'[d] = NoSource
      /\ \A i \in SourceIds \ {d} : sources'[i] = sources[i]
      /\ writes' = writes + 1 /\ held' = Held
  BY DEF Deleted, Stored, RowsTyped
<1>2. Live' = Live \ {d} /\ \A i \in Live' : Kept(i)
  BY <1>1 DEF Live, Kept
<1>3. /\ DOMAIN held' = 1 .. MaxWrites
      /\ \A w \in 1 .. MaxWrites : held'[w] \in held[w] .. clock
  BY <1>1, HeldRows
<1>4. RowsTyped'
  <2>1. ASSUME NEW i \in Live'
        PROVE  /\ i < nextId' /\ DOMAIN sources'[i] = Fields
               /\ sources'[i].ver \in Nat \ {0}
               /\ sources'[i].val \in 1 .. writes'
    BY <1>1, <1>2 DEF RowsTyped, Live
  <2> QED BY <1>1, <1>3, <2>1, DataSourcesAssumption DEF RowsTyped
<1>5. OthersKept(d, {})
  BY <1>1 DEF OthersKept
<1> QED BY <1>2, <1>4, <1>5

(***************************************************************************)
(* What clients have loaded and what their requests are about to write.    *)
(***************************************************************************)

\* The row of a page is a later version than it, or the same, unless its
\* versions have started again.
PageRight(c) ==
  /\ page[c].id \in SourceIds /\ page[c].id < nextId
  /\ page[c].ver \in Nat \ {0} /\ page[c].reset \in BOOLEAN
  /\ page[c] = [id |-> page[c].id, ver |-> page[c].ver, val |-> page[c].val,
                ro |-> page[c].ro, reset |-> page[c].reset]
  /\ page[c].id \in Live /\ ~page[c].reset =>
       \/ sources[page[c].id].ver > page[c].ver
       \/ sources[page[c].id].ver = page[c].ver /\ sources[page[c].id].val = page[c].val

PutFields == {"id", "cmd", "merged"}
OpenFields == {"id", "cmd", "merged", "seen", "at"}

\* As long as the row is the version that the page is, the secrets that were
\* filled in are those of the row.
PutRight(c) ==
  /\ page[c] # None
  /\ DOMAIN handler[c] \in {PutFields, OpenFields}
  /\ handler[c].id = page[c].id /\ handler[c].cmd.id = page[c].id
  /\ handler[c].cmd.ver \in {0, page[c].ver}
  /\ (/\ handler[c].merged # << >> /\ ~page[c].reset /\ page[c].id \in Live
      /\ handler[c].cmd.ver # 0 /\ sources[page[c].id].ver = handler[c].cmd.ver) =>
        \A k \in Keys \ handler[c].cmd.keys : handler[c].merged[k] = sources[page[c].id].keys[k]

\* No client has loaded row i.
Off(i) == \A c \in Clients : page[c] = None \/ page[c].id # i

\* A row that is inserted is of nobody else yet.
AddRight(c) ==
  /\ DOMAIN handler[c] = OpenFields
  /\ handler[c].cmd.id = handler[c].id /\ handler[c].cmd.ver = 0
  /\ handler[c].id \in SourceIds \ Live /\ handler[c].id < nextId /\ Off(handler[c].id)

HandlerRight(c) ==
  \/ handler[c] = None
  \/ DOMAIN handler[c] = {"id", "by", "name"} /\ handler[c].id \in SourceIds
  \/ PutRight(c)
  \/ AddRight(c)

PagesRight == DOMAIN page = Clients /\ \A c \in Clients : page[c] = None \/ PageRight(c)

HandlersRight == DOMAIN handler = Clients /\ \A c \in Clients : HandlerRight(c)

\* An open transaction has a row to itself, which is as it found it.
OpensRight ==
  /\ Open # {} => phase = "up" /\ database = "postgres"
  /\ \A c \in Open : AddRight(c) \/ (PutRight(c) /\ handler[c].id \in Live /\ NotOlder(handler[c].cmd))
  /\ \A c, d \in Open : handler[c].id = handler[d].id => c = d

RowsRight == RowsTyped /\ PagesRight /\ HandlersRight /\ OpensRight

LEMMA NonePage == None.id = 0 /\ None.reset = FALSE /\ DOMAIN None = {"id", "reset"}
BY DEF None

LEMMA LiveKept ==
  ASSUME RowsRight
  PROVE  /\ nextId \in Nat /\ \A i \in Live : i \in SourceIds /\ i < nextId /\ sources[i].ver \in Nat \ {0}
<1>1. RowsTyped
  BY DEF RowsRight
<1>2. nextId \in Nat /\ \A i \in Live : i < nextId /\ sources[i].ver \in Nat \ {0}
  BY <1>1 DEF RowsTyped
<1> QED BY <1>2 DEF Live

\* The open transaction of c has a row, and its fields.
LEMMA OpenHas ==
  ASSUME RowsRight, NEW c \in Open
  PROVE  /\ c \in Clients /\ handler[c] # None /\ DOMAIN handler[c] = OpenFields
         /\ handler[c].id \in SourceIds /\ handler[c].id < nextId /\ handler[c].cmd.id = handler[c].id
         /\ handler[c].cmd.ver \in Nat
<1>1. c \in Clients /\ handler[c] # None /\ "seen" \in DOMAIN handler[c]
  BY DEF Open
<1>2. CASE AddRight(c)
  BY <1>1, <1>2 DEF AddRight
<1>3. CASE PutRight(c)
  <2>1. PageRight(c)
    BY <1>1, <1>3 DEF PutRight, RowsRight, PagesRight
  <2> QED BY <1>1, <1>3, <2>1 DEF PutRight, PageRight, PutFields
<1> QED BY <1>2, <1>3 DEF RowsRight, OpensRight

\* A row whose number has not been given is on no page and not there.
LEMMA NextIsNew == ASSUME RowsRight PROVE nextId \notin Live /\ Off(nextId)
<1>1. nextId \notin Live
  BY LiveKept
<1>2. Off(nextId)
  <2> SUFFICES ASSUME NEW c \in Clients, page[c] # None PROVE page[c].id # nextId
    BY DEF Off
  <2>1. page[c].id < nextId /\ page[c].id \in SourceIds
    BY DEF RowsRight, PagesRight, PageRight
  <2> QED BY <2>1, LiveKept DEF SourceIds
<1> QED BY <1>1, <1>2

\* The ways in which rows are written.
AddsRow(i, cmd, at, seen) ==
  /\ i \in SourceIds \ Live /\ Off(i) /\ Stored(Added(i, cmd, at, seen))
  /\ nextId' \in {nextId, nextId + 1} /\ i < nextId' /\ UNCHANGED page

WritesRow(cmd, merged, at, seen) ==
  /\ cmd.ver \in Nat /\ cmd.id \in Live /\ NotOlder(cmd) /\ Stored(Updated(cmd, merged, at, seen))
  /\ UNCHANGED nextId /\ IF cmd.ver = 0 THEN Recounted(cmd.id) ELSE UNCHANGED page

Transaction ==
  /\ writes < MaxWrites /\ clock' = clock /\ held' = Held
  /\ \/ \E i, cmd, at, seen : AddsRow(i, cmd, at, seen)
     \/ \E cmd, merged, at, seen : WritesRow(cmd, merged, at, seen)
     \/ (\E d \in SourceIds : Deleted(d)) /\ UNCHANGED <<nextId, page>>

Still ==
  UNCHANGED <<sources, writes, held>> /\ nextId' \in {nextId, nextId + 1} /\ clock' \in {clock, clock + 1}

\* A data source that is added at once.
LEMMA AddIsAddsRow ==
  ASSUME RowsRight, NEW cmd, AddDataSource(cmd), UNCHANGED page
  PROVE  AddsRow(nextId, cmd, clock, Live)
<1>1. nextId \in SourceIds /\ nextId \in Nat
  BY LiveKept DEF AddDataSource, SourceIds, RowsRight, RowsTyped
<1> QED BY <1>1, NextIsNew DEF AddDataSource, AddsRow

\* What a request is to write when it is a PUT.
LEMMA PutHas ==
  ASSUME RowsRight, NEW c \in Clients, handler[c] # None, "cmd" \in DOMAIN handler[c], c \notin Open
  PROVE  /\ PutRight(c) /\ PageRight(c) /\ DOMAIN handler[c] = PutFields
         /\ handler[c].cmd.ver \in Nat /\ handler[c].id = handler[c].cmd.id
<1>1. "seen" \notin DOMAIN handler[c]
  BY DEF Open
<1>2. PutRight(c) /\ DOMAIN handler[c] = PutFields
  BY <1>1 DEF RowsRight, HandlersRight, HandlerRight, PutRight, AddRight, OpenFields
<1>3. PageRight(c)
  BY <1>2 DEF PutRight, RowsRight, PagesRight
<1> QED BY <1>2, <1>3 DEF PutRight, PageRight

\* What PUT and the end of a transaction do to the rows.
LEMMA PutKind ==
  ASSUME RowsRight, NEW c \in Clients, PutWrite(c)
  PROVE  \/ Still
         \/ /\ Transaction
            /\ \E cmd, merged : /\ ~(database = "postgres" /\ cmd.def) /\ handler[c].id = cmd.id
                               /\ WritesRow(cmd, merged, clock, Live)
<1>1. handler[c].cmd.ver \in Nat /\ handler[c].id = handler[c].cmd.id
  BY PutHas DEF PutWrite
<1>2. ASSUME writes < MaxWrites, UpdateDataSource(handler[c].cmd, handler[c].merged),
             IF handler[c].cmd.ver = 0 THEN Recounted(handler[c].id) ELSE UNCHANGED page
      PROVE  Transaction /\ WritesRow(handler[c].cmd, handler[c].merged, clock, Live)
  <2>1. held' = Held /\ clock' = clock /\ nextId' = nextId
    BY <1>2 DEF PutWrite, UpdateDataSource, Stored, Elsewhere
  <2>2. WritesRow(handler[c].cmd, handler[c].merged, clock, Live)
    BY <1>1, <1>2, <2>1 DEF UpdateDataSource, Accepted, WritesRow
  <2> QED BY <1>2, <2>1, <2>2 DEF Transaction
<1>3. ASSUME UNCHANGED <<sources, writes, held>> PROVE Still
  BY <1>3 DEF PutWrite, Still, Elsewhere
<1> QED BY <1>1, <1>2, <1>3 DEF PutWrite

LEMMA CommitKind ==
  ASSUME RowsRight, NEW c \in Clients, Commit(c)
  PROVE  /\ Transaction
         /\ \/ AddsRow(handler[c].id, handler[c].cmd, handler[c].at, handler[c].seen)
            \/ WritesRow(handler[c].cmd, handler[c].merged, handler[c].at, handler[c].seen)
<1> DEFINE h == handler[c]
<1>1. c \in Open /\ h.id \in SourceIds /\ h.id < nextId /\ h.cmd.id = h.id /\ h.cmd.ver \in Nat
  BY OpenHas DEF Commit
<1>2. AddRight(c) \/ (PutRight(c) /\ h.id \in Live /\ NotOlder(h.cmd))
  BY <1>1 DEF RowsRight, OpensRight
<1>3. CASE h.id \in Live
  <2>1. NotOlder(h.cmd)
    BY <1>2, <1>3 DEF AddRight
  <2>2. /\ Stored(Updated(h.cmd, h.merged, h.at, h.seen)) /\ nextId' = nextId /\ clock' = clock
        /\ IF h.cmd.ver = 0 THEN Recounted(h.id) ELSE UNCHANGED page
        /\ writes < MaxWrites
    BY <1>3 DEF Commit, Elsewhere
  <2>3. WritesRow(h.cmd, h.merged, h.at, h.seen)
    BY <1>1, <1>3, <2>1, <2>2 DEF WritesRow
  <2>4. held' = Held
    BY <2>2 DEF Stored
  <2> QED BY <2>2, <2>3, <2>4 DEF Transaction
<1>4. CASE h.id \notin Live
  <2>1. Off(h.id)
    BY <1>2, <1>4 DEF AddRight
  <2>2. /\ Stored(Added(h.id, h.cmd, h.at, h.seen)) /\ nextId' = nextId /\ clock' = clock
        /\ UNCHANGED page /\ writes < MaxWrites
    BY <1>4 DEF Commit, Elsewhere
  <2>3. AddsRow(h.id, h.cmd, h.at, h.seen)
    BY <1>1, <1>4, <2>1, <2>2 DEF AddsRow
  <2>4. held' = Held
    BY <2>2 DEF Stored
  <2> QED BY <2>2, <2>3, <2>4 DEF Transaction
<1> QED BY <1>3, <1>4

LEMMA ProvisionKind ==
  ASSUME RowsRight, Provision
  PROVE  \/ Still
         \/ /\ Transaction
            /\ \/ \E cmd : AddsRow(nextId, cmd, clock, Live)
               \/ \E cmd, merged : WritesRow(cmd, merged, clock, Live)
               \/ (\E d \in SourceIds : Deleted(d)) /\ UNCHANGED <<nextId, page>>
<1> DEFINE s == Head(sourceSteps)
<1> HIDE DEF s
<1>1. clock' = clock
  BY DEF Provision
<1>2. CASE writes < MaxWrites /\ (\E i \in Named(s.name) : Deleted(i)) /\ UNCHANGED <<nextId, page>>
  BY <1>1, <1>2 DEF Transaction, Deleted, Stored, Named, Live
<1>3. CASE UNCHANGED <<sources, writes, held, nextId, page>>
  BY <1>1, <1>3 DEF Still
<1>4. CASE writes < MaxWrites /\ AddDataSource(createInsertCommand(s.ds)) /\ UNCHANGED page
  <2>1. AddsRow(nextId, createInsertCommand(s.ds), clock, Live) /\ held' = Held
    BY <1>4, AddIsAddsRow DEF AddDataSource, Stored
  <2> QED BY <1>1, <1>4, <2>1 DEF Transaction
<1>5. ASSUME writes < MaxWrites, NEW i \in Named(s.ds.name), NEW merged,
             UpdateDataSource(createUpdateCommand(s.ds, i), merged), Recounted(i), UNCHANGED nextId
      PROVE  /\ Transaction
             /\ WritesRow(createUpdateCommand(s.ds, i), merged, clock, Live)
  <2> DEFINE cmd == createUpdateCommand(s.ds, i)
  <2>1. cmd.ver = 0 /\ cmd.id = i
    BY DEF createUpdateCommand
  <2>2. held' = Held
    BY <1>5 DEF UpdateDataSource, Stored
  <2>3. WritesRow(cmd, merged, clock, Live)
    <3> HIDE DEF cmd
    <3>1. UpdateDataSource(cmd, merged)
      BY <1>5 DEF cmd
    <3> QED BY <1>5, <2>1, <3>1 DEF WritesRow, UpdateDataSource, Accepted
  <2> QED BY <1>1, <1>5, <2>2, <2>3 DEF Transaction
<1>6. CASE /\ writes < MaxWrites
           /\ \E i \in Named(s.ds.name) :
                LET cmd == createUpdateCommand(s.ds, i) IN
                UpdateDataSource(cmd, IF cmd.keys = {} THEN <<>> ELSE Given(cmd)) /\ Recounted(i)
           /\ UNCHANGED nextId
  BY <1>5, <1>6
<1> QED BY <1>2, <1>3, <1>4, <1>6 DEF Provision, s

\* What clients do to data sources leaves the rest alone.
ClientStep(c) ==
  \/ \E i \in SourceIds, byName \in BOOLEAN : GetDataSource(c, i, byName)
  \/ \E n \in Names, def \in BOOLEAN : PostDataSource(c, n, def)
  \/ \E b \in Bodies : PutFill(c, b)
  \/ PutWrite(c)
  \/ \E i \in SourceIds : DeleteCheck(c, i)
  \/ DeleteWrite(c)
  \/ Commit(c)
  \/ Rollback(c)

LEMMA ClientKeeps ==
  ASSUME NEW c \in Clients, ClientStep(c)
  PROVE  UNCHANGED <<database, phase, cache, tokenCache>>
<1>1. CASE \E i \in SourceIds, byName \in BOOLEAN : GetDataSource(c, i, byName)
  BY <1>1 DEF GetDataSource, Elsewhere, Caches
<1>2. CASE \E n \in Names, def \in BOOLEAN : PostDataSource(c, n, def)
  BY <1>2 DEF PostDataSource, Elsewhere, Caches
<1>3. CASE \E b \in Bodies : PutFill(c, b)
  BY <1>3 DEF PutFill, Elsewhere, Caches
<1>4. CASE PutWrite(c) \/ DeleteWrite(c) \/ Commit(c) \/ Rollback(c)
  BY <1>4 DEF PutWrite, DeleteWrite, Commit, Rollback, Elsewhere, Caches
<1>5. CASE \E i \in SourceIds : DeleteCheck(c, i)
  BY <1>5 DEF DeleteCheck, Elsewhere, Caches
<1> QED BY <1>1, <1>2, <1>3, <1>4, <1>5 DEF ClientStep

LEMMA StepKinds ==
  ASSUME RowsRight, [DataSourcesNext]_dataSourcesVars
  PROVE  Still \/ Transaction
<1>1. CASE UNCHANGED dataSourcesVars
  BY <1>1 DEF dataSourcesVars, Still
<1>2. CASE \E c \in Clients : \E i \in SourceIds, byName \in BOOLEAN : GetDataSource(c, i, byName)
  BY <1>2 DEF GetDataSource, Elsewhere, Still
<1>3. ASSUME NEW c \in Clients, NEW n \in Names, NEW def \in BOOLEAN, PostDataSource(c, n, def)
      PROVE  Still \/ Transaction
  <2>1. CASE UNCHANGED <<sources, writes, held>> /\ nextId' = nextId + 1
    BY <1>3, <2>1 DEF PostDataSource, Elsewhere, Still
  <2>2. ASSUME NEW cmd, AddDataSource(cmd) PROVE Transaction
    <3>1. UNCHANGED <<page, clock>> /\ writes < MaxWrites /\ held' = Held
      BY <1>3, <2>2 DEF PostDataSource, Elsewhere, AddDataSource, Stored
    <3>2. AddsRow(nextId, cmd, clock, Live)
      BY <2>2, <3>1, AddIsAddsRow
    <3> QED BY <3>1, <3>2 DEF Transaction
  <2> QED BY <1>3, <2>1, <2>2 DEF PostDataSource
<1>4. CASE \E c \in Clients : \E b \in Bodies : PutFill(c, b)
  BY <1>4 DEF PutFill, Elsewhere, Still
<1>5. ASSUME NEW c \in Clients, PutWrite(c) PROVE Still \/ Transaction
  BY <1>5, PutKind
<1>6. CASE \E c \in Clients : \E i \in SourceIds : DeleteCheck(c, i)
  BY <1>6 DEF DeleteCheck, Elsewhere, Still
<1>7. ASSUME NEW c \in Clients, DeleteWrite(c) PROVE Still \/ Transaction
  BY <1>7 DEF DeleteWrite, Elsewhere, Transaction, Deleted, Stored, Named, Live, Still
<1>8. ASSUME NEW c \in Clients, Commit(c) PROVE Transaction
  BY <1>8, CommitKind
<1>9. ASSUME NEW c \in Clients, Rollback(c) PROVE Still
  BY <1>9 DEF Rollback, Elsewhere, Still
<1>10. CASE \E i \in SourceIds, nocache \in BOOLEAN, outcome \in Outcomes :
             ProxyDataSourceRequest(i, nocache, outcome)
  BY <1>10 DEF ProxyDataSourceRequest, Still
<1>11. CASE \E i \in SourceIds : QueryMetrics(i)
  BY <1>11 DEF QueryMetrics, Still
<1>12. CASE Provision
  BY <1>12, ProvisionKind
<1>13. CASE Boot \/ Serve \/ Stop \/ Second
  BY <1>13 DEF Boot, Serve, Stop, Second, Still
<1> QED BY <1>1, <1>2, <1>3, <1>4, <1>5, <1>6, <1>7, <1>8, <1>9, <1>10, <1>11, <1>12, <1>13
        DEF DataSourcesNext

\* After any step the rows are as they should be, and a row that was there
\* before is as it was, a later version, or has its pages told; one that is new
\* is on no page.
RowMoved(i) ==
  \/ i \in Live /\ (Kept(i) \/ sources'[i].ver > sources[i].ver \/ Recounted(i))
  \/ Off(i)

LEMMA RowsStep ==
  ASSUME RowsRight, [DataSourcesNext]_dataSourcesVars
  PROVE  /\ RowsTyped' /\ nextId <= nextId'
         /\ \A i \in Live' : i < nextId => RowMoved(i)
<1>1. CASE Still
  <2>1. Live' = Live /\ \A i \in Live : Kept(i)
    BY <1>1 DEF Live, Kept, Still
  <2>2. RowsTyped' /\ nextId <= nextId'
    <3>1. RowsTyped
      BY DEF RowsRight
    <3>2. nextId \in Nat \ {0} /\ clock \in Nat
      BY <3>1 DEF RowsTyped
    <3>3. nextId' \in Nat \ {0} /\ nextId <= nextId' /\ clock' \in Nat /\ clock <= clock'
      BY <1>1, <3>2 DEF Still
    <3>4. \A i \in Live' : /\ i < nextId' /\ DOMAIN sources'[i] = Fields
                           /\ sources'[i].ver \in Nat \ {0} /\ sources'[i].val \in 1 .. writes'
      <4>1. \A i \in Live : i \in Nat /\ i < nextId'
        BY <3>1, <3>2, <3>3 DEF RowsTyped, Live, SourceIds
      <4> QED BY <1>1, <2>1, <3>1, <4>1 DEF RowsTyped, Still
    <3>5. \A w \in 1 .. MaxWrites : held'[w] \in 0 .. clock'
      BY <1>1, <3>1, <3>2, <3>3 DEF RowsTyped, Still
    <3> QED BY <1>1, <3>1, <3>3, <3>4, <3>5 DEF RowsTyped, Still
  <2> QED BY <2>1, <2>2 DEF RowMoved
<1>2. ASSUME Transaction, NEW a, NEW cmd, NEW at, NEW seen, AddsRow(a, cmd, at, seen)
      PROVE  /\ RowsTyped' /\ nextId <= nextId'
             /\ \A i \in Live' : i < nextId => RowMoved(i)
  <2>1. nextId \in Nat /\ nextId' \in Nat /\ nextId <= nextId' /\ a \in SourceIds /\ a \notin Live
        /\ Off(a) /\ a < nextId'
    BY <1>2, LiveKept DEF AddsRow
  <2>2. RowsTyped' /\ Live' = Live \cup {a} /\ \A i \in Live : Kept(i)
    BY <1>2, <2>1, AddRows DEF Transaction, RowsRight, AddsRow
  <2> QED BY <2>1, <2>2 DEF RowMoved
<1>3. ASSUME Transaction, NEW cmd, NEW merged, NEW at, NEW seen, WritesRow(cmd, merged, at, seen)
      PROVE  /\ RowsTyped' /\ nextId <= nextId'
             /\ \A i \in Live' : i < nextId => RowMoved(i)
  <2>1. /\ RowsTyped' /\ Live' = Live /\ cmd.id \in Live
        /\ \A i \in Live \ {cmd.id} : Kept(i)
        /\ sources'[cmd.id].ver = cmd.ver + 1
        /\ cmd.ver # 0 => sources[cmd.id].ver < cmd.ver + 1
        /\ cmd.ver = 0 => Recounted(cmd.id)
        /\ nextId' = nextId
    BY <1>3, UpdateRows DEF Transaction, RowsRight, WritesRow
  <2>2. nextId \in Nat /\ sources[cmd.id].ver \in Nat
    BY <2>1, LiveKept
  <2> QED BY <1>3, <2>1, <2>2 DEF RowMoved
<1>4. ASSUME Transaction, UNCHANGED nextId, NEW d \in SourceIds, Deleted(d)
      PROVE  /\ RowsTyped' /\ nextId <= nextId'
             /\ \A i \in Live' : i < nextId => RowMoved(i)
  <2>1. nextId \in Nat
    BY LiveKept
  <2> QED BY <1>4, <2>1, DeleteRows DEF Transaction, RowsRight, RowMoved
<1> QED BY <1>1, <1>2, <1>3, <1>4, StepKinds DEF Transaction

\* What becomes of a page: nothing, the mark, or another load.
Marked(c) == page[c] # None /\ page'[c] = [page[c] EXCEPT !.reset = TRUE]

Loaded(c) ==
  /\ UNCHANGED <<sources, nextId>> /\ handler[c] = None /\ handler'[c] = None
  /\ \E i \in Live : \E ro \in BOOLEAN \cup {sources[i].ro} :
       page'[c] = [id |-> i, ver |-> sources[i].ver, val |-> sources[i].val, ro |-> ro, reset |-> FALSE]

LEMMA MarkedPage ==
  ASSUME RowsRight, NEW i \in SourceIds, Recounted(i), NEW c \in Clients
  PROVE  /\ DOMAIN page' = Clients
         /\ page'[c] = page[c] \/ Marked(c)
<1>1. DOMAIN page' = Clients /\ page'[c] = [page[c] EXCEPT !.reset = @ \/ page[c].id = i]
  BY DEF Recounted
<1>2. CASE page[c] = None
  <2>1. (page[c].reset \/ page[c].id = i) = FALSE
    BY <1>2, DataSourcesAssumption DEF None, SourceIds
  <2>2. page'[c] = [None EXCEPT !.reset = FALSE]
    BY <1>1, <1>2, <2>1
  <2> QED BY <1>1, <1>2, <2>2 DEF None
<1>3. CASE page[c] # None /\ page[c].id = i
  BY <1>1, <1>3 DEF RowsRight, PagesRight, PageRight, Marked
<1>4. CASE page[c] # None /\ page[c].id # i
  <2>1. PageRight(c)
    BY <1>4 DEF RowsRight, PagesRight
  <2>2. (page[c].reset \/ page[c].id = i) = page[c].reset
    BY <1>4, <2>1 DEF PageRight
  <2>3. page'[c] = [page[c] EXCEPT !.reset = page[c].reset]
    BY <1>1, <2>2
  <2>4. page'[c] = page[c]
    BY <2>1, <2>3 DEF PageRight
  <2> QED BY <1>1, <2>4
<1> QED BY <1>2, <1>3, <1>4

LEMMA PageStep ==
  ASSUME RowsRight, [DataSourcesNext]_dataSourcesVars, NEW c \in Clients
  PROVE  /\ DOMAIN page' = Clients
         /\ page'[c] = page[c] \/ Marked(c) \/ Loaded(c)
<1>1. CASE UNCHANGED page
  BY <1>1 DEF RowsRight, PagesRight
<1>2. ASSUME NEW i \in SourceIds, Recounted(i)
      PROVE  DOMAIN page' = Clients /\ (page'[c] = page[c] \/ Marked(c))
  BY <1>2, MarkedPage
<1>3. ASSUME NEW e \in Clients, NEW i \in SourceIds, NEW byName \in BOOLEAN, GetDataSource(e, i, byName)
      PROVE  DOMAIN page' = Clients /\ (page'[c] = page[c] \/ Loaded(c))
  <2>1. DOMAIN page' = Clients /\ (e # c => page'[c] = page[c])
    BY <1>3 DEF GetDataSource, RowsRight, PagesRight
  <2>2. CASE e = c
    <3>1. page'[c] = [id |-> i, ver |-> sources[i].ver, val |-> sources[i].val,
                      ro |-> sources[i].ro \/ byName, reset |-> FALSE]
      BY <1>3, <2>2 DEF GetDataSource, RowsRight, PagesRight
    <3> QED BY <1>3, <2>1, <2>2, <3>1 DEF GetDataSource, Free, Loaded
  <2> QED BY <2>1, <2>2
<1>4. ASSUME NEW e \in Clients, PutWrite(e) \/ Commit(e)
      PROVE  UNCHANGED page \/ \E i \in SourceIds : Recounted(i)
  <2>1. CASE PutWrite(e)
    <3>1. PutRight(e) /\ PageRight(e)
      BY <2>1, PutHas DEF PutWrite
    <3>2. handler[e].id \in SourceIds
      BY <3>1 DEF PutRight, PageRight
    <3> QED BY <2>1, <3>2 DEF PutWrite
  <2>2. CASE Commit(e)
    BY <2>2 DEF Commit, Live
  <2> QED BY <1>4, <2>1, <2>2
<1>5. ASSUME Provision
      PROVE  UNCHANGED page \/ \E i \in SourceIds : Recounted(i)
  BY <1>5 DEF Provision, Named, Live
<1>6. CASE UNCHANGED dataSourcesVars
  BY <1>1, <1>6 DEF dataSourcesVars
<1> QED BY <1>1, <1>2, <1>3, <1>4, <1>5, <1>6
        DEF DataSourcesNext, PostDataSource, PutFill, DeleteCheck, DeleteWrite, Rollback,
            ProxyDataSourceRequest, QueryMetrics, Boot, Serve, Stop, Second

\* A transaction is opened: of a new row, or of the one of a PUT.
Begun(c) ==
  /\ phase = "up" /\ UNCHANGED <<phase, database, sources, writes, held, page>> /\ database = "postgres"
  /\ \/ /\ handler[c] = None /\ nextId <= MaxId /\ nextId' = nextId + 1
        /\ \E cmd : cmd.id = nextId /\ cmd.ver = 0 /\ Begin(c, cmd, <<>>)
     \/ /\ handler[c] # None /\ "cmd" \in DOMAIN handler[c] /\ c \notin Open
        /\ nextId' = nextId /\ Accepted(handler[c].cmd)
        /\ ~Waits(handler[c].id, handler[c].cmd.name)
        /\ Begin(c, handler[c].cmd, handler[c].merged)

LEMMA BegunHas ==
  ASSUME RowsRight, NEW c \in Clients, Begun(c)
  PROVE  /\ DOMAIN handler' = Clients
         /\ \A e \in Clients \ {c} : handler'[e] = handler[e]
         /\ DOMAIN handler'[c] = OpenFields /\ handler'[c].seen = Live \ {handler'[c].id}
         /\ handler'[c].cmd.id = handler'[c].id
         /\ missed' = missed \cup
              ({handler'[c].id} \X { handler[d].id : d \in { e \in Open : handler[e].id \notin Live } })
         /\ \/ handler'[c].id = nextId /\ nextId <= MaxId /\ nextId' = nextId + 1 /\ handler'[c].cmd.ver = 0
            \/ /\ handler[c] # None /\ "cmd" \in DOMAIN handler[c] /\ c \notin Open
               /\ Accepted(handler[c].cmd) /\ ~Waits(handler[c].id, handler[c].cmd.name)
               /\ handler'[c].id = handler[c].id /\ handler'[c].cmd = handler[c].cmd
               /\ handler'[c].merged = handler[c].merged /\ nextId' = nextId
<1>1. ASSUME NEW cmd, NEW merged, Begin(c, cmd, merged)
      PROVE  /\ DOMAIN handler' = Clients
             /\ \A e \in Clients \ {c} : handler'[e] = handler[e]
             /\ handler'[c].id = cmd.id /\ handler'[c].cmd = cmd /\ handler'[c].merged = merged
             /\ handler'[c].seen = Live \ {cmd.id} /\ DOMAIN handler'[c] = OpenFields
             /\ missed' = missed \cup
                  ({cmd.id} \X { handler[d].id : d \in { e \in Open : handler[e].id \notin Live } })
  <2>1. handler'[c] = [id |-> cmd.id, cmd |-> cmd, merged |-> merged, seen |-> Live \ {cmd.id}, at |-> clock]
    BY <1>1 DEF Begin, RowsRight, HandlersRight
  <2>2. handler'[c].id = cmd.id /\ handler'[c].cmd = cmd /\ handler'[c].merged = merged
        /\ handler'[c].seen = Live \ {cmd.id} /\ DOMAIN handler'[c] = OpenFields
    BY <2>1 DEF OpenFields
  <2> QED BY <1>1, <2>2 DEF Begin, RowsRight, HandlersRight
<1>2. CASE handler[c] = None
  <2>1. DOMAIN handler[c] = {"id", "reset"}
    BY <1>2, NonePage
  <2>2. PICK cmd : cmd.id = nextId /\ cmd.ver = 0 /\ Begin(c, cmd, <<>>)
    BY <1>2 DEF Begun
  <2> QED BY <1>1, <1>2, <2>2 DEF Begun
<1>3. CASE handler[c] # None
  <2>1. /\ "cmd" \in DOMAIN handler[c] /\ c \notin Open /\ Begin(c, handler[c].cmd, handler[c].merged)
        /\ nextId' = nextId /\ Accepted(handler[c].cmd) /\ ~Waits(handler[c].id, handler[c].cmd.name)
    BY <1>3 DEF Begun
  <2>2. handler[c].id = handler[c].cmd.id
    BY <1>3, <2>1, PutHas
  <2> QED BY <1>1, <1>3, <2>1, <2>2
<1> QED BY <1>2, <1>3

\* And of a request: nothing, its end, or another.
LEMMA HandlerStep ==
  ASSUME RowsRight, [DataSourcesNext]_dataSourcesVars, NEW c \in Clients
  PROVE  /\ DOMAIN handler' = Clients
         /\ \/ handler'[c] = None
            \/ handler'[c] = handler[c]
            \/ \E b \in Bodies : PutFill(c, b)
            \/ \E i \in SourceIds : DeleteCheck(c, i)
            \/ Begun(c)
<1>1. CASE UNCHANGED handler
  BY <1>1 DEF RowsRight, HandlersRight
<1>2. ASSUME NEW e \in Clients, NEW b \in Bodies, PutFill(e, b)
      PROVE  DOMAIN handler' = Clients /\ (handler'[c] = handler[c] \/ PutFill(c, b))
  <2>1. CASE e = c
    BY <1>2, <2>1 DEF PutFill, RowsRight, HandlersRight
  <2>2. CASE e # c
    BY <1>2, <2>2 DEF PutFill, RowsRight, HandlersRight
  <2> QED BY <2>1, <2>2
<1>3. ASSUME NEW e \in Clients, NEW i \in SourceIds, DeleteCheck(e, i)
      PROVE  DOMAIN handler' = Clients /\ (handler'[c] = handler[c] \/ DeleteCheck(c, i))
  <2>1. CASE e = c
    BY <1>3, <2>1 DEF DeleteCheck, RowsRight, HandlersRight
  <2>2. CASE e # c
    BY <1>3, <2>2 DEF DeleteCheck, RowsRight, HandlersRight
  <2> QED BY <2>1, <2>2
<1>4. ASSUME NEW e \in Clients, Done(e)
      PROVE  DOMAIN handler' = Clients /\ (handler'[c] = handler[c] \/ handler'[c] = None)
  BY <1>4 DEF Done, RowsRight, HandlersRight
<1>5. CASE Stop
  BY <1>5 DEF Stop
<1>6. CASE UNCHANGED dataSourcesVars
  BY <1>1, <1>6 DEF dataSourcesVars
<1>7. ASSUME NEW e \in Clients, NEW n \in Names, NEW def \in BOOLEAN, PostDataSource(e, n, def)
      PROVE  UNCHANGED handler \/ Begun(e)
  <2> DEFINE cmd == [id |-> nextId, ver |-> 0, name |-> n, def |-> def, ro |-> FALSE, blank |-> FALSE,
                     keys |-> Keys]
  <2>1. cmd.id = nextId /\ cmd.ver = 0
    OBVIOUS
  <2>2. CASE database = "postgres" /\ def
    BY <1>7, <2>1, <2>2 DEF PostDataSource, Begun, Free, Elsewhere
  <2>3. CASE ~(database = "postgres" /\ def)
    BY <1>7, <2>3 DEF PostDataSource
  <2> QED BY <2>2, <2>3
<1>8. ASSUME NEW e \in Clients, PutWrite(e) PROVE Done(e) \/ Begun(e)
  BY <1>8 DEF PutWrite, Begun, Elsewhere
<1>9. ASSUME NEW e \in Clients, Begun(e)
      PROVE  DOMAIN handler' = Clients /\ (handler'[c] = handler[c] \/ Begun(c))
  BY <1>9, BegunHas
<1> QED BY <1>1, <1>2, <1>3, <1>4, <1>5, <1>6, <1>7, <1>8, <1>9
        DEF DataSourcesNext, GetDataSource, DeleteWrite, Commit, Rollback,
            ProxyDataSourceRequest, QueryMetrics, Boot, Provision, Serve, Second

\* The row of an open transaction is nobody else's to write.
LEMMA OpenUntouched ==
  ASSUME RowsRight, [DataSourcesNext]_dataSourcesVars, NEW c \in Open, handler'[c] = handler[c]
  PROVE  sources'[handler[c].id] = sources[handler[c].id]
<1> DEFINE k == handler[c].id
<1>1. /\ c \in Clients /\ k \in SourceIds /\ k < nextId /\ handler[c] # None /\ nextId \in Nat
      /\ phase = "up" /\ database = "postgres" /\ k # nextId
  <2>1. /\ c \in Clients /\ k \in SourceIds /\ k < nextId /\ handler[c] # None /\ nextId \in Nat
    BY OpenHas, LiveKept
  <2>2. k # nextId
    BY <2>1 DEF SourceIds
  <2> QED BY <2>1, <2>2 DEF RowsRight, OpensRight
<1> HIDE DEF k
<1>2. ASSUME NEW i \in SourceIds, i # k, NEW seen, OthersKept(i, seen),
             k \notin seen \/ (sources'[i] # NoSource /\ ~sources'[i].def)
      PROVE  sources'[k] = sources[k]
  BY <1>1, <1>2 DEF OthersKept
<1>3. ASSUME NEW i, NEW cmd, NEW at, NEW seen, AddsRow(i, cmd, at, seen), writes < MaxWrites, clock' = clock
      PROVE  i \in SourceIds /\ OthersKept(i, seen) /\ sources'[i].def = cmd.def /\ sources'[i] # NoSource
  <2>1. nextId' \in Nat /\ nextId <= nextId' /\ i \in SourceIds /\ i \notin Live
    BY <1>1, <1>3 DEF AddsRow
  <2>2. OthersKept(i, seen) /\ sources'[i].def = cmd.def /\ i \in Live'
    BY <1>3, <2>1, AddRows DEF AddsRow, RowsRight
  <2> QED BY <2>1, <2>2 DEF Live
<1>4. ASSUME NEW cmd, NEW merged, NEW at, NEW seen, WritesRow(cmd, merged, at, seen), writes < MaxWrites,
             clock' = clock
      PROVE  /\ cmd.id \in SourceIds /\ OthersKept(cmd.id, seen) /\ sources'[cmd.id].def = cmd.def
             /\ sources'[cmd.id] # NoSource
  <2>1. OthersKept(cmd.id, seen) /\ sources'[cmd.id].def = cmd.def /\ cmd.id \in Live' /\ cmd.id \in Live
    BY <1>4, UpdateRows DEF WritesRow, RowsRight
  <2> QED BY <2>1 DEF Live
<1>5. ASSUME NEW e \in Clients, NEW n \in Names, NEW def \in BOOLEAN, PostDataSource(e, n, def)
      PROVE  sources'[k] = sources[k]
  <2> DEFINE cmd == [id |-> nextId, ver |-> 0, name |-> n, def |-> def, ro |-> FALSE, blank |-> FALSE,
                     keys |-> Keys]
  <2>1. cmd.def = def
    OBVIOUS
  <2> HIDE DEF cmd
  <2>2. CASE def
    BY <1>1, <1>5, <2>2 DEF PostDataSource
  <2>3. CASE ~def
    <3>1. AddDataSource(cmd) /\ UNCHANGED <<page, clock>> /\ writes < MaxWrites
      BY <1>5, <2>3 DEF PostDataSource, Elsewhere, cmd
    <3>2. AddsRow(nextId, cmd, clock, Live)
      BY <3>1, AddIsAddsRow
    <3>3. nextId \in SourceIds /\ OthersKept(nextId, Live) /\ sources'[nextId] # NoSource /\ ~sources'[nextId].def
      BY <1>3, <2>1, <2>3, <3>1, <3>2
    <3> QED BY <1>1, <1>2, <3>3
  <2> QED BY <2>2, <2>3
<1>6. ASSUME NEW e \in Clients, PutWrite(e) PROVE sources'[k] = sources[k]
  <2>1. CASE Still
    BY <2>1 DEF Still
  <2>2. ASSUME Transaction, NEW cmd, NEW merged, ~(database = "postgres" /\ cmd.def), handler[e].id = cmd.id,
               WritesRow(cmd, merged, clock, Live)
        PROVE  sources'[k] = sources[k]
    <3>1. /\ cmd.id \in SourceIds /\ OthersKept(cmd.id, Live) /\ ~sources'[cmd.id].def
          /\ sources'[cmd.id] # NoSource
      BY <1>1, <1>4, <2>2 DEF Transaction
    <3>2. cmd.id # k
      BY <1>6, <2>2 DEF PutWrite, Waits, k
    <3> QED BY <1>2, <3>1, <3>2
  <2> QED BY <1>6, <2>1, <2>2, PutKind
<1>7. ASSUME NEW e \in Clients, DeleteWrite(e) PROVE sources'[k] = sources[k]
  <2>1. CASE UNCHANGED sources
    BY <2>1
  <2>2. ASSUME NEW gone, \A d \in Open : handler[d].id \notin gone, NEW i \in gone, Deleted(i)
        PROVE  sources'[k] = sources[k]
    <3>1. i # k
      BY <2>2 DEF k
    <3> QED BY <1>1, <2>2, <3>1 DEF Deleted, Stored, RowsRight, RowsTyped
  <2> QED BY <1>7, <2>1, <2>2 DEF DeleteWrite
<1>8. ASSUME NEW e \in Clients, Commit(e) PROVE sources'[k] = sources[k]
  <2>1. e # c /\ e \in Open
    BY <1>1, <1>8 DEF Commit, Done, RowsRight, HandlersRight
  <2>2. handler[e].id # k /\ k \notin handler[e].seen /\ handler[e].cmd.id = handler[e].id
    BY <1>8, <2>1, OpenHas DEF Commit, RowsRight, OpensRight, k
  <2>3. writes < MaxWrites /\ clock' = clock
    BY <1>8 DEF Commit, Elsewhere
  <2>4. CASE AddsRow(handler[e].id, handler[e].cmd, handler[e].at, handler[e].seen)
    <3>1. handler[e].id \in SourceIds /\ OthersKept(handler[e].id, handler[e].seen)
      BY <1>3, <2>3, <2>4
    <3> QED BY <1>2, <2>2, <3>1
  <2>5. CASE WritesRow(handler[e].cmd, handler[e].merged, handler[e].at, handler[e].seen)
    <3>1. handler[e].id \in SourceIds /\ OthersKept(handler[e].id, handler[e].seen)
      BY <1>4, <2>2, <2>3, <2>5
    <3> QED BY <1>2, <2>2, <3>1
  <2> QED BY <1>8, <2>4, <2>5, CommitKind
<1>9. CASE UNCHANGED sources
  BY <1>9
<1>10. ASSUME Provision PROVE FALSE
  BY <1>1, <1>10 DEF Provision
<1> QED BY <1>5, <1>6, <1>7, <1>8, <1>9, <1>10
        DEF DataSourcesNext, GetDataSource, PutFill, DeleteCheck, Rollback, ProxyDataSourceRequest,
            QueryMetrics, Boot, Serve, Stop, Second, dataSourcesVars, k

LEMMA PagesStep ==
  ASSUME RowsRight, [DataSourcesNext]_dataSourcesVars
  PROVE  PagesRight'
<1>1. ASSUME NEW c \in Clients, page'[c] # None PROVE PageRight(c)'
  <2>1. /\ RowsTyped' /\ nextId <= nextId' /\ nextId \in Nat /\ nextId' \in Nat
        /\ \A i \in Live' : i < nextId => RowMoved(i)
    <3>1. RowsTyped' => nextId' \in Nat
      BY DEF RowsTyped
    <3>2. nextId \in Nat
      BY LiveKept
    <3>3. /\ RowsTyped' /\ nextId <= nextId'
          /\ \A i \in Live' : i < nextId => RowMoved(i)
      BY RowsStep, Zenon
    <3> QED BY <3>1, <3>2, <3>3
  <2>2. page'[c] = page[c] \/ Marked(c) \/ Loaded(c)
    BY PageStep
  <2>3. CASE page'[c] = page[c]
    <3>1. PageRight(c)
      BY <1>1, <2>3 DEF RowsRight, PagesRight
    <3>2. ASSUME page[c].id \in Live', ~page[c].reset
          PROVE  \/ sources'[page[c].id].ver > page[c].ver
                 \/ sources'[page[c].id].ver = page[c].ver /\ sources'[page[c].id].val = page[c].val
      <4> DEFINE i == page[c].id
      <4>1. i \in SourceIds /\ i < nextId /\ page[c].ver \in Nat
        BY <3>1 DEF PageRight
      <4>2. i \in Live /\ (Kept(i) \/ sources'[i].ver > sources[i].ver \/ Recounted(i))
        <5>1. ~Off(i)
          BY <1>1, <2>3 DEF Off
        <5> QED BY <2>1, <3>2, <4>1, <5>1 DEF RowMoved
      <4>3. ~Recounted(i)
        <5>1. ASSUME Recounted(i) PROVE page'[c].reset
          BY <3>1, <5>1 DEF Recounted, PageRight
        <5> QED BY <2>3, <3>2, <5>1
      <4>4. sources[i].ver \in Nat /\ sources'[i].ver \in Nat
        BY <2>1, <3>2, <4>2, LiveKept DEF RowsTyped
      <4>5. \/ sources[i].ver > page[c].ver
            \/ sources[i].ver = page[c].ver /\ sources[i].val = page[c].val
        BY <3>1, <3>2, <4>2 DEF PageRight
      <4> HIDE DEF i
      <4>6. CASE Kept(i)
        BY <4>5, <4>6 DEF Kept, i
      <4>7. CASE sources'[i].ver > sources[i].ver
        BY <4>1, <4>4, <4>5, <4>7 DEF i
      <4> QED BY <4>2, <4>3, <4>6, <4>7
    <3>3. page[c].id \in SourceIds /\ page[c].id < nextId'
      BY <2>1, <3>1 DEF PageRight, SourceIds
    <3> QED BY <2>3, <3>1, <3>2, <3>3 DEF PageRight
  <2>4. CASE Marked(c)
    <3>1. PageRight(c)
      BY <2>4 DEF Marked, RowsRight, PagesRight
    <3>2. /\ page'[c].id = page[c].id /\ page'[c].ver = page[c].ver /\ page'[c].reset = TRUE
          /\ page'[c] = [id |-> page'[c].id, ver |-> page'[c].ver, val |-> page'[c].val,
                         ro |-> page'[c].ro, reset |-> page'[c].reset]
      BY <2>4, <3>1 DEF Marked, PageRight
    <3>3. page[c].id \in SourceIds /\ page[c].id < nextId'
      BY <2>1, <3>1 DEF PageRight, SourceIds
    <3> QED BY <3>1, <3>2, <3>3 DEF PageRight
  <2>5. CASE Loaded(c)
    <3>1. PICK i \in Live :  \E ro \in BOOLEAN \cup {sources[i].ro} :
            page'[c] = [id |-> i, ver |-> sources[i].ver, val |-> sources[i].val, ro |-> ro, reset |-> FALSE]
      BY <2>5 DEF Loaded
    <3>2. /\ page'[c].id = i /\ page'[c].ver = sources[i].ver /\ page'[c].val = sources[i].val
          /\ page'[c].reset = FALSE
          /\ page'[c] = [id |-> page'[c].id, ver |-> page'[c].ver, val |-> page'[c].val,
                         ro |-> page'[c].ro, reset |-> page'[c].reset]
      BY <3>1
    <3>3. UNCHANGED <<sources, nextId>>
      BY <2>5 DEF Loaded
    <3>4. Live' = Live /\ i \in SourceIds /\ i < nextId /\ sources[i].ver \in Nat \ {0}
      BY <3>3, LiveKept DEF Live
    <3> QED BY <3>2, <3>3, <3>4 DEF PageRight
  <2> QED BY <2>2, <2>3, <2>4, <2>5
<1>2. DOMAIN page' = Clients
  <2>1. CASE Clients = {}
    <3>1. UNCHANGED page \/ \E i : Recounted(i)
      BY <2>1 DEF DataSourcesNext, PostDataSource, ProxyDataSourceRequest, QueryMetrics, Boot,
                  Provision, Serve, Stop, Second, dataSourcesVars
    <3> QED BY <3>1 DEF Recounted, RowsRight, PagesRight
  <2>2. CASE Clients # {}
    BY <2>2, PageStep
  <2> QED BY <2>1, <2>2
<1> QED BY <1>1, <1>2 DEF PagesRight

\* An insertion goes on: its row stays apart.
LEMMA AddsOn ==
  ASSUME RowsRight, [DataSourcesNext]_dataSourcesVars, NEW c \in Clients, AddRight(c), handler'[c] = handler[c]
  PROVE  AddRight(c)'
<1> DEFINE k == handler[c].id
<1>1. k \in SourceIds \ Live /\ k < nextId /\ Off(k) /\ c \in Open
  <2>1. handler[c] # None
    BY NonePage DEF AddRight, OpenFields
  <2> QED BY <2>1 DEF AddRight, Open, OpenFields
<1> HIDE DEF k
<1>2. sources'[k] = sources[k]
  BY <1>1, OpenUntouched DEF k
<1>3. k \in SourceIds \ Live'
  BY <1>1, <1>2 DEF Live
<1>4. k < nextId'
  <2>1. nextId \in Nat /\ nextId <= nextId' /\ RowsTyped'
    BY RowsStep, LiveKept
  <2>2. nextId' \in Nat /\ k \in Nat
    BY <1>1, <2>1 DEF RowsTyped, SourceIds
  <2> QED BY <1>1, <2>1, <2>2
<1>5. ASSUME NEW e \in Clients, page'[e] # None PROVE page'[e].id # k
  <2>1. CASE page'[e] = page[e]
    BY <1>1, <1>5, <2>1 DEF Off
  <2>2. CASE Marked(e)
    <3>1. PageRight(e) /\ page[e].id # k
      BY <1>1, <2>2 DEF Marked, RowsRight, PagesRight, Off
    <3> QED BY <2>2, <3>1 DEF Marked, PageRight
  <2>3. CASE Loaded(e)
    BY <1>1, <2>3 DEF Loaded
  <2> QED BY <2>1, <2>2, <2>3, PageStep
<1>6. Off(k)'
  BY <1>5 DEF Off, k
<1> QED BY <1>3, <1>4, <1>6 DEF AddRight, k, SourceIds

\* A transaction begins with a row that is its own.
LEMMA BegunRight ==
  ASSUME RowsRight, NEW c \in Clients, Begun(c)
  PROVE  /\ AddRight(c)' \/ (PutRight(c)' /\ handler'[c].id \in Live' /\ NotOlder(handler[c].cmd)')
         /\ \A d \in Open \ {c} : handler'[c].id # handler[d].id
<1>1. UNCHANGED <<sources, page>> /\ Live' = Live
  BY DEF Begun, Live
<1>2. CASE handler'[c].id = nextId /\ nextId <= MaxId /\ nextId' = nextId + 1 /\ handler'[c].cmd.ver = 0
  <2>1. nextId \in SourceIds /\ nextId \in Nat
    BY <1>2, LiveKept DEF SourceIds, RowsRight, RowsTyped
  <2>3. nextId \in SourceIds \ Live'
    BY <1>1, <2>1, NextIsNew
  <2>4. \A e \in Clients : page'[e] = None \/ page'[e].id # handler'[c].id
    BY <1>1, <1>2, NextIsNew DEF Off
  <2>5. AddRight(c)'
    BY <1>2, <2>1, <2>3, <2>4, BegunHas DEF AddRight, Off, SourceIds
  <2>6. \A d \in Open \ {c} : handler'[c].id # handler[d].id
    BY <1>2, <2>1, OpenHas DEF SourceIds
  <2> QED BY <2>5, <2>6
<1>3. CASE /\ handler[c] # None /\ "cmd" \in DOMAIN handler[c] /\ c \notin Open
           /\ Accepted(handler[c].cmd) /\ ~Waits(handler[c].id, handler[c].cmd.name)
           /\ handler'[c].id = handler[c].id /\ handler'[c].cmd = handler[c].cmd
           /\ handler'[c].merged = handler[c].merged /\ nextId' = nextId
  <2>1. PutRight(c) /\ handler[c].id = handler[c].cmd.id /\ DOMAIN handler'[c] = OpenFields
    BY <1>3, PutHas, BegunHas
  <2>2. PutRight(c)'
    BY <1>1, <1>3, <2>1 DEF PutRight
  <2>3. handler'[c].id \in Live' /\ NotOlder(handler[c].cmd)'
    BY <1>1, <1>3, <2>1 DEF Accepted, NotOlder
  <2>4. \A d \in Open : handler'[c].id # handler[d].id
    BY <1>3 DEF Waits
  <2> QED BY <2>2, <2>3, <2>4
<1> QED BY <1>2, <1>3, BegunHas

LEMMA HandlersStep ==
  ASSUME RowsRight, [DataSourcesNext]_dataSourcesVars
  PROVE  HandlersRight'
<1>1. ASSUME NEW c \in Clients, handler'[c] # None PROVE HandlerRight(c)'
  <2>1. /\ nextId \in Nat
        /\ \A i \in Live' : i < nextId => RowMoved(i)
    <3>1. nextId \in Nat
      BY LiveKept
    <3>2. \A i \in Live' : i < nextId => RowMoved(i)
      BY RowsStep, Zenon
    <3> QED BY <3>1, <3>2
  <2>2. CASE handler'[c] = handler[c]
    <3>1. page'[c] = page[c] \/ Marked(c)
      BY <1>1, <2>2, PageStep DEF Loaded
    <3>2. CASE DOMAIN handler[c] = {"id", "by", "name"} /\ handler[c].id \in SourceIds
      BY <2>2, <3>2 DEF HandlerRight, SourceIds
    <3>3. CASE PutRight(c)
      <4> DEFINE i == page[c].id
      <4>1. PageRight(c)
        BY <3>3 DEF PutRight, RowsRight, PagesRight
      <4>2. /\ page'[c] # None /\ page'[c].id = i /\ page'[c].ver = page[c].ver
            /\ ~page'[c].reset => ~page[c].reset /\ page'[c] = page[c]
        <5>1. CASE page'[c] = page[c]
          BY <3>3, <5>1 DEF PutRight
        <5>2. CASE Marked(c)
          <6>1. /\ page'[c].id = i /\ page'[c].ver = page[c].ver /\ page'[c].reset = TRUE
            BY <4>1, <5>2 DEF Marked, PageRight
          <6>2. page'[c] # None
            BY <6>1, NonePage
          <6> QED BY <6>1, <6>2
        <5> QED BY <3>1, <5>1, <5>2
      <4>3. ASSUME handler[c].merged # << >>, ~page'[c].reset, i \in Live', handler[c].cmd.ver # 0,
                   sources'[i].ver = handler[c].cmd.ver
            PROVE  \A k \in Keys \ handler[c].cmd.keys : handler[c].merged[k] = sources'[i].keys[k]
        <5>1. i \in SourceIds /\ i < nextId /\ page[c].ver \in Nat /\ page'[c] = page[c] /\ ~page[c].reset
          BY <4>1, <4>2, <4>3 DEF PageRight
        <5>2. i \in Live /\ (Kept(i) \/ sources'[i].ver > sources[i].ver \/ Recounted(i))
          <6>1. ~Off(i)
            BY <3>3 DEF Off, PutRight
          <6> QED BY <2>1, <4>3, <5>1, <6>1 DEF RowMoved
        <5>3. ~Recounted(i)
          <6>1. ASSUME Recounted(i) PROVE page'[c].reset
            BY <4>1, <6>1 DEF Recounted, PageRight
          <6> QED BY <4>3, <6>1
        <5>4. sources[i].ver \in Nat /\ sources[i].ver >= page[c].ver
          BY <4>1, <5>1, <5>2, LiveKept DEF PageRight
        <5>5. handler[c].cmd.ver = page[c].ver
          BY <3>3, <4>3 DEF PutRight
        <5>6. Kept(i)
          <6> HIDE DEF i
          <6> QED BY <4>3, <5>1, <5>2, <5>3, <5>4, <5>5
        <5> QED BY <3>3, <4>3, <5>1, <5>2, <5>6 DEF PutRight, Kept
      <4>4. PutRight(c)'
        BY <2>2, <3>3, <4>2, <4>3 DEF PutRight
      <4> QED BY <4>4 DEF HandlerRight
    <3>4. ASSUME AddRight(c) PROVE AddRight(c)'
      BY <2>2, <3>4, AddsOn
    <3> QED BY <1>1, <2>2, <3>2, <3>3, <3>4 DEF RowsRight, HandlersRight, HandlerRight
  <2>3. ASSUME NEW b \in Bodies, PutFill(c, b) PROVE PutRight(c)'
    <3> DEFINE cmd == Cmd(c, b)
    <3>1. page[c] # None /\ PageRight(c) /\ UNCHANGED <<sources, page>>
      BY <2>3 DEF PutFill, RowsRight, PagesRight
    <3>2. cmd.id = page[c].id /\ cmd.ver \in {0, page[c].ver}
      BY DEF Cmd
    <3>3. CASE handler' = [handler EXCEPT ![c] = [id |-> cmd.id, cmd |-> cmd, merged |-> <<>>]]
      <4>1. handler'[c] = [id |-> cmd.id, cmd |-> cmd, merged |-> <<>>]
        BY <3>3 DEF RowsRight, HandlersRight
      <4> HIDE DEF cmd
      <4>2. /\ handler'[c].id = cmd.id /\ handler'[c].cmd = cmd /\ handler'[c].merged = <<>>
            /\ DOMAIN handler'[c] = PutFields
        BY <4>1 DEF PutFields
      <4> QED BY <3>1, <3>2, <4>2 DEF PutRight
    <3>4. CASE handler' = [handler EXCEPT ![c] =
                 [id |-> cmd.id, cmd |-> cmd, merged |-> fillWithSecureJsonData(cmd, sources[cmd.id])]]
      <4> DEFINE m == fillWithSecureJsonData(cmd, sources[cmd.id])
      <4>1. handler'[c] = [id |-> cmd.id, cmd |-> cmd, merged |-> m]
        BY <3>4 DEF RowsRight, HandlersRight
      <4>2. \A k \in Keys \ cmd.keys : m[k] = sources[cmd.id].keys[k]
        BY DEF fillWithSecureJsonData
      <4> HIDE DEF cmd, m
      <4>3. /\ handler'[c].id = cmd.id /\ handler'[c].cmd = cmd /\ handler'[c].merged = m
            /\ DOMAIN handler'[c] = PutFields
        BY <4>1 DEF PutFields
      <4> QED BY <3>1, <3>2, <4>2, <4>3 DEF PutRight
    <3> QED BY <2>3, <3>3, <3>4 DEF PutFill
  <2>4. ASSUME NEW i \in SourceIds, DeleteCheck(c, i)
        PROVE  DOMAIN handler'[c] = {"id", "by", "name"} /\ handler'[c].id \in SourceIds
    <3>1. PICK by \in {"id", "name"} :
            handler' = [handler EXCEPT ![c] = [id |-> i, by |-> by, name |-> sources[i].name]]
      BY <2>4 DEF DeleteCheck
    <3>2. handler'[c] = [id |-> i, by |-> by, name |-> sources[i].name]
      BY <3>1 DEF RowsRight, HandlersRight
    <3> QED BY <3>2
  <2>5. ASSUME Begun(c) PROVE PutRight(c)' \/ AddRight(c)'
    BY <2>5, BegunRight
  <2> QED BY <1>1, <2>2, <2>3, <2>4, <2>5, HandlerStep DEF HandlerRight, SourceIds
<1>2. DOMAIN handler' = Clients
  <2>1. CASE Clients = {}
    <3>1. UNCHANGED handler \/ handler' = [c \in Clients |-> None]
      BY <2>1 DEF DataSourcesNext, ProxyDataSourceRequest, QueryMetrics, Boot,
                  Provision, Serve, Stop, Second, dataSourcesVars
    <3> QED BY <3>1 DEF RowsRight, HandlersRight
  <2>2. CASE Clients # {}
    BY <2>2, HandlerStep
  <2> QED BY <2>1, <2>2
<1> QED BY <1>1, <1>2 DEF HandlersRight, HandlerRight

\* Open transactions of this state are of the one before, or begin.
LEMMA OpenBefore ==
  ASSUME RowsRight, [DataSourcesNext]_dataSourcesVars, NEW c \in Open'
  PROVE  /\ c \in Clients
         /\ (c \in Open /\ handler'[c] = handler[c]) \/ Begun(c)
<1>1. c \in Clients /\ handler'[c] # None /\ "seen" \in DOMAIN handler'[c]
  BY DEF Open
<1>2. CASE handler'[c] = handler[c]
  BY <1>1, <1>2 DEF Open
<1>3. ASSUME NEW b \in Bodies, PutFill(c, b) PROVE FALSE
  <2> DEFINE cmd == Cmd(c, b)
             new(m) == [id |-> cmd.id, cmd |-> cmd, merged |-> m]
  <2>1. \A m : DOMAIN new(m) = PutFields
    BY DEF PutFields
  <2>2. \E m : handler' = [handler EXCEPT ![c] = new(m)]
    BY <1>3 DEF PutFill
  <2> HIDE DEF new
  <2>3. DOMAIN handler'[c] = PutFields
    BY <1>1, <2>1, <2>2 DEF RowsRight, HandlersRight
  <2> QED BY <1>1, <2>3 DEF PutFields
<1>4. ASSUME NEW i \in SourceIds, DeleteCheck(c, i) PROVE FALSE
  <2>1. PICK by \in {"id", "name"} :
          handler' = [handler EXCEPT ![c] = [id |-> i, by |-> by, name |-> sources[i].name]]
    BY <1>4 DEF DeleteCheck
  <2>2. handler'[c] = [id |-> i, by |-> by, name |-> sources[i].name]
    BY <1>1, <2>1 DEF RowsRight, HandlersRight
  <2> QED BY <1>1, <2>2
<1> QED BY <1>1, <1>2, <1>3, <1>4, HandlerStep

LEMMA OpensStep ==
  ASSUME RowsRight, [DataSourcesNext]_dataSourcesVars
  PROVE  OpensRight'
<1>1. ASSUME NEW c \in Open' PROVE phase' = "up" /\ database' = "postgres"
  <2>1. CASE Begun(c)
    BY <2>1 DEF Begun
  <2>2. CASE c \in Open /\ handler'[c] = handler[c]
    <3>1. phase = "up" /\ database = "postgres" /\ handler'[c] # None /\ c \in Clients
      BY <2>2 DEF RowsRight, OpensRight, Open
    <3>2. ~Boot /\ ~Serve /\ ~Stop /\ ~Provision
      BY <3>1 DEF Boot, Serve, Stop, Provision
    <3>3. CASE \E e \in Clients : ClientStep(e)
      BY <3>1, <3>3, ClientKeeps
    <3>4. CASE UNCHANGED <<phase, database>>
      BY <3>1, <3>4
    <3> QED BY <3>2, <3>3, <3>4
            DEF DataSourcesNext, ClientStep, ProxyDataSourceRequest, QueryMetrics, Second, dataSourcesVars
  <2> QED BY <2>1, <2>2, OpenBefore
<1>2. ASSUME NEW c \in Open'
      PROVE  AddRight(c)' \/ (PutRight(c)' /\ handler'[c].id \in Live' /\ NotOlder(handler[c].cmd)')
  <2>1. CASE Begun(c)
    BY <2>1, BegunRight, OpenBefore
  <2>2. CASE c \in Open /\ handler'[c] = handler[c]
    <3>1. HandlerRight(c)' /\ handler'[c] # None /\ DOMAIN handler'[c] = OpenFields
      BY <2>2, OpenHas, HandlersStep DEF HandlersRight
    <3>2. AddRight(c)' \/ PutRight(c)'
      BY <3>1 DEF HandlerRight, OpenFields
    <3>3. CASE AddRight(c)
      BY <2>2, <3>3, OpenHas, AddsOn
    <3>4. CASE handler[c].id \in Live /\ NotOlder(handler[c].cmd)
      <4>1. sources'[handler[c].id] = sources[handler[c].id] /\ handler[c].cmd.id = handler[c].id
        BY <2>2, OpenUntouched, OpenHas
      <4>2. handler'[c].id \in Live' /\ NotOlder(handler[c].cmd)'
        BY <2>2, <3>4, <4>1 DEF Live, NotOlder, SourceIds
      <4> QED BY <3>2, <4>2
    <3> QED BY <2>2, <3>3, <3>4 DEF RowsRight, OpensRight
  <2> QED BY <2>1, <2>2, OpenBefore
<1>3. ASSUME NEW c \in Open', NEW d \in Open', handler'[c].id = handler'[d].id, c # d PROVE FALSE
  <2>1. CASE Begun(c)
    <3>1. handler'[d] = handler[d] /\ d \in Open
      <4>1. c \in Clients /\ d \in Clients /\ handler'[d] = handler[d]
        BY <1>3, <2>1, BegunHas DEF Open
      <4>2. handler[d] # None /\ "seen" \in DOMAIN handler[d]
        BY <4>1 DEF Open
      <4> QED BY <4>1, <4>2 DEF Open
    <3> QED BY <1>3, <2>1, <3>1, BegunRight, OpenBefore
  <2>2. CASE Begun(d)
    <3>1. handler'[c] = handler[c] /\ c \in Open
      <4>1. c \in Clients /\ d \in Clients /\ handler'[c] = handler[c]
        BY <1>3, <2>2, BegunHas DEF Open
      <4>2. handler[c] # None /\ "seen" \in DOMAIN handler[c]
        BY <4>1 DEF Open
      <4> QED BY <4>1, <4>2 DEF Open
    <3> QED BY <1>3, <2>2, <3>1, BegunRight, OpenBefore
  <2>3. CASE c \in Open /\ handler'[c] = handler[c] /\ d \in Open /\ handler'[d] = handler[d]
    BY <1>3, <2>3 DEF RowsRight, OpensRight
  <2> QED BY <2>1, <2>2, <2>3, OpenBefore
<1> QED BY <1>1, <1>2, <1>3 DEF OpensRight

LEMMA RowsInit == DataSourcesInit => RowsRight
<1> SUFFICES ASSUME DataSourcesInit PROVE RowsRight
  OBVIOUS
<1>1. Live = {}
  BY DEF DataSourcesInit, Live
<1>2. RowsTyped
  BY <1>1, DataSourcesAssumption DEF DataSourcesInit, RowsTyped
<1>3. Open = {}
  BY DEF DataSourcesInit, Open
<1>4. PagesRight /\ HandlersRight /\ OpensRight
  BY <1>3 DEF DataSourcesInit, PagesRight, HandlersRight, HandlerRight, OpensRight
<1> QED BY <1>2, <1>4 DEF RowsRight

LEMMA RowsInvariant == DataSourcesSpec => []RowsRight
<1>1. RowsRight /\ [DataSourcesNext]_dataSourcesVars => RowsRight'
  BY RowsStep, PagesStep, HandlersStep, OpensStep DEF RowsRight
<1> QED BY <1>1, RowsInit, PTL DEF DataSourcesSpec

(***************************************************************************)
(* There is more than one default only where one missed the other.         *)
(***************************************************************************)
Told(i, j) == <<i, j>> \in missed \/ <<j, i>> \in missed

\* A transaction will unset the flag of the other defaults, or has missed them.
DefaultsRight ==
  /\ OneDefault
  /\ \A c \in Open, j \in Live :
       sources[j].def /\ j \notin handler[c].seen /\ j # handler[c].id => Told(handler[c].id, j)
  /\ \A c, d \in Open :
       c # d => \/ Told(handler[c].id, handler[d].id)
                \/ handler[c].id \in handler[d].seen \/ handler[d].id \in handler[c].seen

\* Row i is written, and those that have been seen lose their flag to it.
LEMMA WrittenOnce ==
  ASSUME DefaultsRight, NEW i \in SourceIds, NEW seen, OthersKept(i, seen), Live' \subseteq Live \cup {i},
         UNCHANGED <<missed, database>>,
         \A e \in Open' : e \in Open /\ handler'[e] = handler[e],
         i \in Live' /\ sources'[i].def =>
           /\ \A j \in Live : sources[j].def /\ j \notin seen /\ j # i => database = "postgres" /\ Told(i, j)
           /\ \A e \in Open' : i \notin handler[e].seen /\ i # handler[e].id => Told(handler[e].id, i)
  PROVE  DefaultsRight'
<1>1. ASSUME NEW j \in Live', j # i, sources'[j].def
      PROVE  j \in Live /\ sources[j].def /\ (i \in Live' /\ sources'[i].def => j \notin seen)
  BY <1>1 DEF OthersKept, Live
<1>2. \A a, b : Told(a, b)' <=> Told(a, b)
  BY DEF Told
<1>3. OneDefault'
  <2> SUFFICES ASSUME NEW a \in Live', NEW b \in Live', sources'[a].def, sources'[b].def, a # b
               PROVE  database = "postgres" /\ Told(a, b)
    BY DEF OneDefault, Told
  <2>1. CASE a = i
    BY <1>1, <2>1
  <2>2. CASE b = i
    BY <1>1, <2>2 DEF Told
  <2>3. CASE a # i /\ b # i
    BY <1>1, <2>3 DEF DefaultsRight, OneDefault, Told
  <2> QED BY <2>1, <2>2, <2>3
<1>4. ASSUME NEW c \in Open', NEW j \in Live', sources'[j].def, j \notin handler'[c].seen, j # handler'[c].id
      PROVE  Told(handler'[c].id, j)
  <2>1. CASE j = i
    BY <1>4, <2>1
  <2>2. CASE j # i
    BY <1>1, <1>4, <2>2 DEF DefaultsRight
  <2> QED BY <2>1, <2>2
<1>5. ASSUME NEW c \in Open', NEW d \in Open', c # d
      PROVE  \/ Told(handler'[c].id, handler'[d].id)
             \/ handler'[c].id \in handler'[d].seen \/ handler'[d].id \in handler'[c].seen
  BY <1>5 DEF DefaultsRight
<1> QED BY <1>2, <1>3, <1>4, <1>5 DEF DefaultsRight

LEMMA DefaultsStep ==
  ASSUME RowsRight, DefaultsRight, [DataSourcesNext]_dataSourcesVars
  PROVE  DefaultsRight'
<1>1. ASSUME NEW c \in Clients, Begun(c) PROVE DefaultsRight'
  <2> DEFINE i == handler'[c].id
             Now(a, b) == <<a, b>> \in missed' \/ <<b, a>> \in missed'
             others == { handler[d].id : d \in { e \in Open : handler[e].id \notin Live } }
  <2>1. /\ UNCHANGED <<sources, database>> /\ Live' = Live /\ database = "postgres"
    BY <1>1 DEF Begun, Live
  <2>2. /\ handler'[c].seen = Live \ {i} /\ missed' = missed \cup ({i} \X others)
        /\ \A e \in Clients \ {c} : handler'[e] = handler[e]
    BY <1>1, BegunHas
  <2>3. \A a, b : Told(a, b) => Now(a, b)
    BY <2>2 DEF Told
  <2>4. \A e \in Open' : e # c => e \in Open /\ handler'[e] = handler[e]
    BY <2>2 DEF Open
  <2>5. OneDefault'
    BY <2>1, <2>3 DEF DefaultsRight, OneDefault, Told
  <2>6. ASSUME NEW d \in Open', d # c
        PROVE  Now(i, handler'[d].id) \/ handler'[d].id \in handler'[c].seen
    <3>1. d \in Open /\ handler'[d] = handler[d] /\ i # handler[d].id
      BY <1>1, <2>4, <2>6, BegunRight
    <3>2. CASE handler[d].id \in Live
      BY <2>2, <3>1, <3>2
    <3>3. CASE handler[d].id \notin Live
      <4>1. handler[d].id \in others
        BY <3>1, <3>3
      <4>2. <<i, handler[d].id>> \in missed'
        BY <2>2, <4>1
      <4> QED BY <3>1, <4>2 DEF Told
    <3> QED BY <3>2, <3>3
  <2>7. ASSUME NEW e \in Open', NEW j \in Live', sources'[j].def, j \notin handler'[e].seen, j # handler'[e].id
        PROVE  Now(handler'[e].id, j)
    <3>1. CASE e = c
      BY <2>1, <2>2, <2>7, <3>1
    <3>2. CASE e # c
      BY <2>1, <2>3, <2>4, <2>7, <3>2 DEF DefaultsRight
    <3> QED BY <3>1, <3>2
  <2>8. ASSUME NEW e \in Open', NEW d \in Open', e # d
        PROVE  \/ Now(handler'[e].id, handler'[d].id)
               \/ handler'[e].id \in handler'[d].seen \/ handler'[d].id \in handler'[e].seen
    <3>1. CASE e = c
      BY <2>6, <2>8, <3>1
    <3>2. CASE d = c
      BY <2>6, <2>8, <3>2 DEF Told
    <3>3. CASE e # c /\ d # c
      BY <2>3, <2>4, <2>8, <3>3 DEF DefaultsRight
    <3> QED BY <3>1, <3>2, <3>3
  <2> QED BY <2>5, <2>7, <2>8 DEF DefaultsRight, Told
<1>2. CASE \E c \in Clients : Begun(c)
  BY <1>1, <1>2
<1> SUFFICES ASSUME ~\E c \in Clients : Begun(c) PROVE DefaultsRight'
  BY <1>2
<1>3. \A e \in Open' : e \in Open /\ handler'[e] = handler[e]
  BY OpenBefore
<1>4. ASSUME UNCHANGED <<sources, missed, database>> PROVE DefaultsRight'
  <2>1. Live' = Live /\ \A a, b : Told(a, b)' <=> Told(a, b)
    BY <1>4 DEF Live, Told
  <2>2. OneDefault'
    BY <1>4, <2>1 DEF DefaultsRight, OneDefault
  <2> QED BY <1>3, <1>4, <2>1, <2>2 DEF DefaultsRight
\* A write at once: either it takes the flag from all rows, or it has none.
<1>5. ASSUME NEW i \in SourceIds, OthersKept(i, Live), Live' \subseteq Live \cup {i}, UNCHANGED <<missed, database>>,
             (i \in Live' /\ sources'[i].def) => Open = {}
      PROVE  DefaultsRight'
  BY <1>3, <1>5, WrittenOnce
<1>6. ASSUME NEW i, NEW cmd, NEW at, NEW seen, AddsRow(i, cmd, at, seen), writes < MaxWrites, clock' = clock
      PROVE  i \in SourceIds /\ OthersKept(i, seen) /\ sources'[i].def = cmd.def /\ Live' = Live \cup {i}
  <2>1. nextId \in Nat /\ nextId' \in Nat /\ nextId <= nextId' /\ i \in SourceIds /\ i \notin Live
    BY <1>6, LiveKept DEF AddsRow
  <2> QED BY <1>6, <2>1, AddRows DEF AddsRow, RowsRight
<1>7. ASSUME NEW cmd, NEW merged, NEW at, NEW seen, WritesRow(cmd, merged, at, seen), writes < MaxWrites,
             clock' = clock
      PROVE  /\ cmd.id \in SourceIds /\ OthersKept(cmd.id, seen) /\ sources'[cmd.id].def = cmd.def
             /\ Live' = Live
  <2>1. cmd.id \in SourceIds
    BY <1>7 DEF WritesRow, Live
  <2> QED BY <1>7, <2>1, UpdateRows DEF WritesRow, RowsRight
<1>8. ASSUME NEW d \in SourceIds, Deleted(d), writes < MaxWrites, UNCHANGED <<clock, nextId, missed, database>>
      PROVE  DefaultsRight'
  <2>1. OthersKept(d, {}) /\ Live' = Live \ {d}
    BY <1>8, DeleteRows DEF RowsRight
  <2> QED BY <1>3, <1>8, <2>1, WrittenOnce
<1>9. ASSUME NEW e \in Clients, NEW n \in Names, NEW def \in BOOLEAN, PostDataSource(e, n, def)
      PROVE  DefaultsRight'
  <2> DEFINE cmd == [id |-> nextId, ver |-> 0, name |-> n, def |-> def, ro |-> FALSE, blank |-> FALSE,
                     keys |-> Keys]
  <2>1. cmd.def = def /\ cmd.id = nextId /\ cmd.ver = 0
    OBVIOUS
  <2>2. database' = database /\ writes < MaxWrites /\ clock' = clock /\ page' = page
    BY <1>9 DEF PostDataSource, Elsewhere
  <2>3. CASE database = "postgres" /\ def
    <3>1. Begun(e)
      BY <1>9, <2>1, <2>3 DEF PostDataSource, Begun, Free, Elsewhere
    <3> QED BY <3>1
  <2>4. CASE ~(database = "postgres" /\ def)
    <3>1. AddDataSource(cmd) /\ missed' = missed
      BY <1>9, <2>4 DEF PostDataSource
    <3> HIDE DEF cmd
    <3>2. AddsRow(nextId, cmd, clock, Live)
      BY <2>2, <3>1, AddIsAddsRow
    <3>3. def => Open = {}
      BY <2>4 DEF RowsRight, OpensRight
    <3> QED BY <1>5, <1>6, <2>1, <2>2, <3>1, <3>2, <3>3
  <2> QED BY <2>3, <2>4
<1>10. ASSUME NEW e \in Clients, PutWrite(e) PROVE DefaultsRight'
  <2>1. database' = database /\ missed' = missed
    BY <1>10 DEF PutWrite, Begun, Elsewhere
  <2>2. CASE Still
    BY <1>4, <2>1, <2>2 DEF Still
  <2>3. ASSUME Transaction, NEW cmd, NEW merged, ~(database = "postgres" /\ cmd.def),
               WritesRow(cmd, merged, clock, Live)
        PROVE  DefaultsRight'
    <3>1. cmd.def => Open = {}
      BY <2>3 DEF RowsRight, OpensRight
    <3>2. /\ cmd.id \in SourceIds /\ OthersKept(cmd.id, Live) /\ sources'[cmd.id].def = cmd.def
          /\ Live' = Live
      BY <1>7, <2>3 DEF Transaction
    <3> QED BY <1>5, <2>1, <3>1, <3>2
  <2> QED BY <1>10, <2>2, <2>3, PutKind
<1>11. ASSUME NEW e \in Clients, DeleteWrite(e) PROVE DefaultsRight'
  BY <1>4, <1>8, <1>11 DEF DeleteWrite, Elsewhere, Named, Live
<1>12. ASSUME NEW c \in Clients, Commit(c) PROVE DefaultsRight'
  <2> DEFINE i == handler[c].id
             seen == handler[c].seen
  <2>1. /\ c \in Open /\ \A d \in Open \ {c} : handler[d].id \notin seen
        /\ UNCHANGED <<missed, database, clock>> /\ writes < MaxWrites
    BY <1>12 DEF Commit, Elsewhere
  <2>2. database = "postgres" /\ handler[c].cmd.id = i
    BY <2>1, OpenHas DEF RowsRight, OpensRight
  <2>3. i \in SourceIds /\ OthersKept(i, seen) /\ Live' \subseteq Live \cup {i}
    <3>1. CASE AddsRow(i, handler[c].cmd, handler[c].at, seen)
      BY <1>6, <2>1, <3>1
    <3>2. CASE WritesRow(handler[c].cmd, handler[c].merged, handler[c].at, seen)
      BY <1>7, <2>1, <2>2, <3>2
    <3> QED BY <1>12, <3>1, <3>2, CommitKind
  <2>4. \A e \in Open' : e # c /\ e \in Open
    BY <1>3, <1>12 DEF Commit, Done, Open, RowsRight, HandlersRight
  <2>5. \A j \in Live : sources[j].def /\ j \notin seen /\ j # i => Told(i, j)
    BY <2>1 DEF DefaultsRight
  <2>6. ASSUME NEW e \in Open', i \notin handler[e].seen PROVE Told(handler[e].id, i)
    BY <2>1, <2>4, <2>6 DEF DefaultsRight, Told
  <2> HIDE DEF i, seen
  <2> QED BY <1>3, <2>1, <2>2, <2>3, <2>5, <2>6, WrittenOnce
<1>13. ASSUME Provision PROVE DefaultsRight'
  <2>1. UNCHANGED <<missed, database>> /\ Open = {}
    BY <1>13 DEF Provision, RowsRight, OpensRight
  <2>2. CASE Still
    BY <1>4, <2>1, <2>2 DEF Still
  <2>3. ASSUME Transaction, NEW cmd, AddsRow(nextId, cmd, clock, Live) PROVE DefaultsRight'
    <3>1. nextId \in SourceIds /\ OthersKept(nextId, Live) /\ Live' = Live \cup {nextId}
      BY <1>6, <2>3 DEF Transaction
    <3> QED BY <1>5, <2>1, <3>1
  <2>4. ASSUME Transaction, NEW cmd, NEW merged, WritesRow(cmd, merged, clock, Live) PROVE DefaultsRight'
    <3>1. cmd.id \in SourceIds /\ OthersKept(cmd.id, Live) /\ Live' = Live
      BY <1>7, <2>4 DEF Transaction
    <3> QED BY <1>5, <2>1, <3>1
  <2>5. ASSUME Transaction, NEW d \in SourceIds, Deleted(d), nextId' = nextId PROVE DefaultsRight'
    BY <1>8, <2>1, <2>5 DEF Transaction
  <2> QED BY <1>13, <2>2, <2>3, <2>4, <2>5, ProvisionKind
<1> QED BY <1>4, <1>9, <1>10, <1>11, <1>12, <1>13
        DEF DataSourcesNext, GetDataSource, PutFill, DeleteCheck, Rollback, Elsewhere, ProxyDataSourceRequest,
            QueryMetrics, Boot, Serve, Stop, Second, dataSourcesVars

\* Whatever clients, provisioning and restarts do, two data sources are the
\* default only on PostgreSQL, and only if one was made the default while the
\* transaction that inserts the other was open.
THEOREM TheOneDefault == DataSourcesSpec => []OneDefault
<1>1. DataSourcesInit => DefaultsRight
  BY DEF DataSourcesInit, DefaultsRight, OneDefault, Live, Open
<1>2. RowsRight /\ DefaultsRight /\ [DataSourcesNext]_dataSourcesVars => DefaultsRight'
  BY DefaultsStep
<1>3. DefaultsRight => OneDefault
  BY DEF DefaultsRight
<1> QED BY <1>1, <1>2, <1>3, RowsInvariant, PTL DEF DataSourcesSpec

(***************************************************************************)
(* An update that names a version overwrites what its client has loaded.   *)
(***************************************************************************)
LEMMA OverwritesIsUpdate ==
  ASSUME RowsRight, [DataSourcesNext]_dataSourcesVars, NEW c \in Clients, Overwrites(c), ~page[c].reset
  PROVE  /\ \E at, seen : Stored(Updated(handler[c].cmd, handler[c].merged, at, seen))
         /\ NotOlder(handler[c].cmd)
         /\ PutRight(c) /\ handler[c].id \in Live /\ handler[c].cmd.id = handler[c].id
         /\ sources[handler[c].id].ver = handler[c].cmd.ver
         /\ page[c].val = sources[handler[c].id].val
         /\ handler[c].cmd.ver \in Nat
         /\ writes < MaxWrites /\ UNCHANGED <<clock, nextId>>
<1>1. PutWrite(c) \/ Commit(c)
  <2>1. handler'[c] # handler[c] /\ handler'[c] = None /\ handler[c] # None /\ phase' = "up"
        /\ "cmd" \in DOMAIN handler[c] /\ sources' # sources
    BY DEF Overwrites
  <2>2. ASSUME NEW e \in Clients, e # c, Done(e) PROVE FALSE
    BY <2>1, <2>2 DEF Done, RowsRight, HandlersRight
  <2>3. ASSUME DeleteWrite(c) PROVE FALSE
    <3>1. "by" \in DOMAIN handler[c]
      BY <2>3 DEF DeleteWrite
    <3> QED BY <2>1, <3>1
            DEF RowsRight, HandlersRight, HandlerRight, PutRight, AddRight, PutFields, OpenFields
  <2>4. ASSUME NEW e \in Clients, PutWrite(e) PROVE PutWrite(c)
    BY <2>1, <2>2, <2>4 DEF PutWrite
  <2>5. ASSUME NEW e \in Clients, Commit(e) PROVE Commit(c)
    BY <2>2, <2>5 DEF Commit
  <2>6. ASSUME NEW e \in Clients, DeleteWrite(e) PROVE FALSE
    BY <2>2, <2>3, <2>6 DEF DeleteWrite
  <2> QED BY <2>1, <2>4, <2>5, <2>6
          DEF DataSourcesNext, GetDataSource, PostDataSource, PutFill, DeleteCheck, Rollback,
              ProxyDataSourceRequest, QueryMetrics, Boot, Provision, Serve, Stop, Second, dataSourcesVars
<1>2. /\ PutRight(c) /\ handler[c].id \in Live /\ NotOlder(handler[c].cmd)
      /\ \E at, seen : Stored(Updated(handler[c].cmd, handler[c].merged, at, seen))
      /\ writes < MaxWrites /\ UNCHANGED <<clock, nextId>>
  <2>1. CASE PutWrite(c)
    <3>1. PutRight(c) /\ handler[c].id = handler[c].cmd.id
      BY <2>1, PutHas DEF PutWrite
    <3>2. UpdateDataSource(handler[c].cmd, handler[c].merged) /\ writes < MaxWrites
      BY <2>1 DEF PutWrite, Overwrites
    <3> QED BY <2>1, <3>1, <3>2 DEF PutWrite, UpdateDataSource, Accepted, Elsewhere
  <2>2. CASE Commit(c)
    <3>1. c \in Open
      BY <2>2 DEF Commit
    <3>2. PutRight(c) /\ handler[c].id \in Live /\ NotOlder(handler[c].cmd)
      BY <3>1 DEF RowsRight, OpensRight, AddRight, Overwrites
    <3> QED BY <2>2, <3>2 DEF Commit, Elsewhere
  <2> QED BY <1>1, <2>1, <2>2
<1>3. PageRight(c)
  BY <1>2 DEF PutRight, RowsRight, PagesRight
<1>4. /\ handler[c].id = page[c].id /\ handler[c].cmd.id = page[c].id
      /\ handler[c].cmd.ver = page[c].ver /\ page[c].ver \in Nat \ {0}
  BY <1>2, <1>3 DEF PutRight, PageRight, Overwrites
<1>5. page[c].id \in Live /\ sources[page[c].id].ver < page[c].ver + 1
  BY <1>2, <1>4 DEF NotOlder
<1>6. sources[page[c].id].ver \in Nat
  BY <1>5, LiveKept
<1>7. sources[page[c].id].ver = page[c].ver /\ page[c].val = sources[page[c].id].val
  BY <1>3, <1>4, <1>5, <1>6 DEF PageRight
<1> QED BY <1>2, <1>4, <1>5, <1>7

THEOREM UpdatesOfWhatWasLoaded == DataSourcesSpec => NoLostUpdate
<1>1. ASSUME RowsRight, [DataSourcesNext]_dataSourcesVars
      PROVE  [\A c \in Clients : Overwrites(c) =>
                page[c].val = sources[handler[c].id].val \/ page[c].reset]_dataSourcesVars
  BY <1>1, OverwritesIsUpdate
<1> QED BY <1>1, RowsInvariant, PTL DEF DataSourcesSpec, NoLostUpdate

(***************************************************************************)
(* Secrets that an update does not mention survive it.                     *)
(***************************************************************************)
THEOREM SecretsAreKept == DataSourcesSpec => SecretsSurvive
<1>1. ASSUME RowsRight, [DataSourcesNext]_dataSourcesVars
      PROVE  [\A c \in Clients, k \in Keys : Overwrites(c) /\ k \notin handler[c].cmd.keys =>
                LET i == handler[c].id IN
                sources'[i].keys[k] = sources[i].keys[k] \/ page[c].reset]_dataSourcesVars
  <2> SUFFICES ASSUME NEW c \in Clients, NEW k \in Keys, Overwrites(c), k \notin handler[c].cmd.keys,
                      ~page[c].reset
               PROVE  sources'[handler[c].id].keys[k] = sources[handler[c].id].keys[k]
    OBVIOUS
  <2>1. /\ \E at, seen : Stored(Updated(handler[c].cmd, handler[c].merged, at, seen))
        /\ NotOlder(handler[c].cmd) /\ handler[c].cmd.id = handler[c].id
        /\ PutRight(c) /\ handler[c].id \in Live
        /\ sources[handler[c].id].ver = handler[c].cmd.ver
        /\ handler[c].cmd.ver \in Nat
        /\ writes < MaxWrites /\ UNCHANGED <<clock, nextId>>
    BY <1>1, OverwritesIsUpdate
  <2>2. sources'[handler[c].cmd.id].keys =
          IF handler[c].merged = << >> THEN sources[handler[c].cmd.id].keys ELSE handler[c].merged
    BY <1>1, <2>1, UpdateRows DEF RowsRight
  <2>3. handler[c].cmd.id = handler[c].id /\ handler[c].id = page[c].id
    BY <2>1 DEF PutRight
  <2>4. handler[c].merged # << >> => handler[c].merged[k] = sources[handler[c].id].keys[k]
    BY <2>1, <2>3 DEF PutRight, Overwrites
  <2> QED BY <2>2, <2>3, <2>4
<1> QED BY <1>1, RowsInvariant, PTL DEF DataSourcesSpec, SecretsSurvive

(***************************************************************************)
(* What is remembered of data sources.                                     *)
(***************************************************************************)

\* The value w was that of a row in second t or later.
KnownAt(i, w, t) ==
  /\ w \in 1 .. MaxWrites /\ t <= clock
  /\ (i \in Live /\ sources[i].val = w) \/ held[w] >= t

CacheRight(i) ==
  cache[i] # NoSource => cache[i].until \in Nat /\ KnownAt(i, cache[i].ds.val, cache[i].until - TTL)

\* A token is for a data source that may have come from the cache.
TokenRight(i) ==
  tokenCache[i] # NoSource =>
    /\ tokenCache[i].expiresOn \in Nat
    /\ KnownAt(i, tokenCache[i].val, tokenCache[i].expiresOn - Life - TTL + 1)

CachesRight ==
  /\ DOMAIN cache = SourceIds /\ DOMAIN tokenCache = SourceIds
  /\ \A i \in SourceIds : CacheRight(i) /\ TokenRight(i)

\* Who was a row's is remembered when it is no longer.
KnownNext(i, w, t) ==
  /\ w \in 1 .. MaxWrites /\ t <= clock'
  /\ (i \in Live' /\ sources'[i].val = w) \/ held'[w] >= t

LEMMA KnownStep ==
  ASSUME RowsRight, [DataSourcesNext]_dataSourcesVars, NEW i, NEW w, NEW t \in Int, KnownAt(i, w, t)
  PROVE  KnownNext(i, w, t)
<1>1. /\ RowsTyped /\ RowsTyped'
  BY RowsStep DEF RowsRight
<1>2. /\ clock \in Nat /\ clock' \in Nat /\ w \in 1 .. MaxWrites /\ t <= clock
      /\ held[w] \in Int /\ held'[w] \in Int
  BY <1>1 DEF RowsTyped, KnownAt
<1>3. CASE Still
  <2>1. Live' = Live /\ t <= clock'
    BY <1>2, <1>3 DEF Live, Still
  <2> QED BY <1>2, <1>3, <2>1 DEF KnownAt, KnownNext, Still
<1>4. CASE Transaction
  <2>1. /\ clock' = clock
        /\ held'[w] \in held[w] .. clock
        /\ \A j \in Live : sources[j].val = w => held'[w] = clock
    BY <1>1, <1>2, <1>4, HeldRows DEF Transaction
  <2>2. held'[w] >= t
    <3>1. CASE i \in Live /\ sources[i].val = w
      BY <1>2, <2>1, <3>1
    <3>2. CASE held[w] >= t
      BY <1>2, <2>1, <3>2
    <3> QED BY <3>1, <3>2 DEF KnownAt
  <2> QED BY <1>2, <2>1, <2>2 DEF KnownAt, KnownNext
<1> QED BY <1>3, <1>4, StepKinds

\* A data source that a request goes by, and its token.
LEMMA RequestKnown ==
  ASSUME RowsRight, CachesRight, NEW i \in SourceIds, NEW nocache \in BOOLEAN,
         getDatasourceById(i, nocache) # NoSource
  PROVE  /\ KnownAt(i, getDatasourceById(i, nocache).val, clock - TTL + 1)
         /\ LET k == getAccessToken(i, getDatasourceById(i, nocache)) IN
            /\ k.expiresOn \in Nat /\ k.expiresOn > clock + Spare
            /\ KnownAt(i, k.val, k.expiresOn - Life - TTL + 1)
<1> DEFINE ds == getDatasourceById(i, nocache)
           k == getAccessToken(i, ds)
<1>1. RowsTyped /\ clock \in Nat /\ TTL \in Nat \ {0} /\ Life \in Nat /\ Spare \in Nat /\ Spare < Life
  BY DataSourcesAssumption DEF RowsRight, RowsTyped
<1>2. KnownAt(i, ds.val, clock - TTL + 1)
  <2>1. CASE ~nocache /\ cache[i] # NoSource /\ clock < cache[i].until
    <3>1. ds = cache[i].ds
      BY <2>1 DEF getDatasourceById
    <3> HIDE DEF ds
    <3>2. cache[i].until \in Nat /\ KnownAt(i, ds.val, cache[i].until - TTL)
      BY <2>1, <3>1 DEF CachesRight, CacheRight
    <3>3. ds.val \in 1 .. MaxWrites /\ held[ds.val] \in Int
      BY <1>1, <3>2 DEF KnownAt, RowsTyped
    <3>4. clock - TTL + 1 <= cache[i].until - TTL /\ clock - TTL + 1 <= clock
      BY <1>1, <2>1, <3>2
    <3> QED BY <1>1, <3>2, <3>3, <3>4 DEF KnownAt
  <2>2. CASE ~(~nocache /\ cache[i] # NoSource /\ clock < cache[i].until)
    <3>1. ds = sources[i]
      BY <2>2 DEF getDatasourceById
    <3>2. i \in Live
      BY <3>1 DEF Live
    <3>3. sources[i].val \in 1 .. MaxWrites
      BY <1>1, <3>2, DataSourcesAssumption DEF RowsTyped
    <3>4. clock - TTL + 1 <= clock
      BY <1>1
    <3> QED BY <3>1, <3>2, <3>3, <3>4 DEF KnownAt
  <2> QED BY <2>1, <2>2
<1> HIDE DEF ds
<1>3. /\ k.expiresOn \in Nat /\ k.expiresOn > clock + Spare
      /\ KnownAt(i, k.val, k.expiresOn - Life - TTL + 1)
  <2>1. CASE tokenCache[i] # NoSource /\ tokenCache[i].expiresOn > clock + Spare
    <3>1. k = tokenCache[i]
      BY <2>1 DEF getAccessToken
    <3> QED BY <2>1, <3>1 DEF CachesRight, TokenRight
  <2>2. CASE ~(tokenCache[i] # NoSource /\ tokenCache[i].expiresOn > clock + Spare)
    <3>1. k.val = ds.val /\ k.expiresOn = clock + Life
      BY <2>2 DEF getAccessToken
    <3> HIDE DEF k
    <3>2. /\ clock + Life \in Nat /\ clock + Life > clock + Spare
          /\ (clock + Life) - Life - TTL + 1 = clock - TTL + 1
      BY <1>1
    <3> QED BY <1>2, <3>1, <3>2
  <2> QED BY <2>1, <2>2
<1> QED BY <1>2, <1>3 DEF ds

LEMMA CachesStep ==
  ASSUME RowsRight, CachesRight, [DataSourcesNext]_dataSourcesVars
  PROVE  CachesRight'
<1>1. clock \in Nat /\ TTL \in Nat \ {0} /\ Life \in Nat
  BY DataSourcesAssumption DEF RowsRight, RowsTyped
<1>2. ASSUME NEW i \in SourceIds, cache'[i] = cache[i] PROVE CacheRight(i)'
  <2>1. CASE cache[i] # NoSource
    <3> DEFINE w == cache[i].ds.val
               t == cache[i].until - TTL
    <3>1. t \in Int /\ KnownAt(i, w, t) /\ cache[i].until \in Nat
      BY <1>1, <2>1 DEF CachesRight, CacheRight
    <3>2. KnownNext(i, w, t)
      <4> HIDE DEF w, t
      <4> QED BY <3>1, KnownStep
    <3> QED BY <1>2, <3>1, <3>2 DEF CacheRight, KnownAt, KnownNext
  <2>2. CASE cache[i] = NoSource
    BY <1>2, <2>2 DEF CacheRight
  <2> QED BY <2>1, <2>2
<1>3. ASSUME NEW i \in SourceIds, tokenCache'[i] = tokenCache[i] PROVE TokenRight(i)'
  <2>1. CASE tokenCache[i] # NoSource
    <3> DEFINE w == tokenCache[i].val
               t == tokenCache[i].expiresOn - Life - TTL + 1
    <3>1. t \in Int /\ KnownAt(i, w, t) /\ tokenCache[i].expiresOn \in Nat
      BY <1>1, <2>1 DEF CachesRight, TokenRight
    <3>2. KnownNext(i, w, t)
      <4> HIDE DEF w, t
      <4> QED BY <3>1, KnownStep
    <3> QED BY <1>3, <3>1, <3>2 DEF TokenRight, KnownAt, KnownNext
  <2>2. CASE tokenCache[i] = NoSource
    BY <1>3, <2>2 DEF TokenRight
  <2> QED BY <2>1, <2>2
<1>4. ASSUME UNCHANGED <<cache, tokenCache>> PROVE CachesRight'
  <2>1. \A i \in SourceIds : CacheRight(i)' /\ TokenRight(i)'
    BY <1>2, <1>3, <1>4
  <2>2. DOMAIN cache' = SourceIds /\ DOMAIN tokenCache' = SourceIds
    BY <1>4 DEF CachesRight
  <2> QED BY <2>1, <2>2 DEF CachesRight, SourceIds
<1>5. ASSUME Forgotten PROVE CachesRight'
  BY <1>5 DEF Forgotten, CachesRight, CacheRight, TokenRight, SourceIds
<1>6. ASSUME NEW d \in SourceIds, NEW nocache \in BOOLEAN, NEW outcome \in Outcomes,
             ProxyDataSourceRequest(d, nocache, outcome)
      PROVE  CachesRight'
  <2> DEFINE ds == getDatasourceById(d, nocache)
             k == getAccessToken(d, ds)
  <2>1. /\ ds # NoSource
        /\ \/ cache' = cache
           \/ cache' = [cache EXCEPT ![d] = [ds |-> ds, until |-> clock + TTL]] /\ ds = sources[d]
        /\ \/ tokenCache' = tokenCache
           \/ tokenCache' = [tokenCache EXCEPT ![d] = k]
    BY <1>6 DEF ProxyDataSourceRequest, HandleRequest, getDatasourceById
  <2>2. k.expiresOn \in Nat /\ KnownAt(d, k.val, k.expiresOn - Life - TTL + 1)
    BY <2>1, RequestKnown
  <2> HIDE DEF ds, k
  <2>3. CacheRight(d)'
    <3>1. CASE cache' = [cache EXCEPT ![d] = [ds |-> ds, until |-> clock + TTL]] /\ ds = sources[d]
      <4>1. cache'[d].ds = ds /\ cache'[d].until = clock + TTL
        BY <3>1 DEF CachesRight
      <4>2. KnownAt(d, ds.val, clock)
        <5>1. d \in Live /\ RowsTyped
          BY <2>1, <3>1 DEF Live, RowsRight
        <5>2. sources[d].val \in 1 .. MaxWrites
          BY <5>1, DataSourcesAssumption DEF RowsTyped
        <5> QED BY <1>1, <3>1, <5>1, <5>2 DEF KnownAt
      <4>3. KnownNext(d, ds.val, clock)
        BY <1>1, <4>2, KnownStep
      <4>4. clock + TTL \in Nat /\ (clock + TTL) - TTL = clock
        BY <1>1
      <4> QED BY <4>1, <4>3, <4>4 DEF CacheRight, KnownAt, KnownNext
    <3> QED BY <1>2, <2>1, <3>1
  <2>4. TokenRight(d)'
    <3>1. CASE tokenCache' = [tokenCache EXCEPT ![d] = k]
      <4>1. tokenCache'[d] = k
        BY <3>1 DEF CachesRight
      <4>2. k.expiresOn - Life - TTL + 1 \in Int
        BY <1>1, <2>2
      <4>3. KnownNext(d, k.val, k.expiresOn - Life - TTL + 1)
        BY <2>2, <4>2, KnownStep
      <4> QED BY <2>2, <4>1, <4>3 DEF TokenRight, KnownAt, KnownNext
    <3> QED BY <1>3, <2>1, <3>1
  <2>5. ASSUME NEW i \in SourceIds, i # d PROVE CacheRight(i)' /\ TokenRight(i)'
    <3>1. cache'[i] = cache[i]
      BY <2>1, <2>5 DEF CachesRight
    <3>2. tokenCache'[i] = tokenCache[i]
      BY <2>1, <2>5 DEF CachesRight
    <3> QED BY <1>2, <1>3, <2>5, <3>1, <3>2
  <2>6. DOMAIN cache' = SourceIds /\ DOMAIN tokenCache' = SourceIds
    BY <2>1 DEF CachesRight
  <2> QED BY <2>3, <2>4, <2>5, <2>6 DEF CachesRight, SourceIds
<1>7. ASSUME NEW c \in Clients, ClientStep(c) PROVE CachesRight'
  BY <1>4, <1>7, ClientKeeps
<1>8. CASE Boot \/ Stop
  BY <1>5, <1>8 DEF Boot, Stop
<1>9. CASE Provision \/ Serve \/ Second \/ (\E i \in SourceIds : QueryMetrics(i)) \/ UNCHANGED dataSourcesVars
  BY <1>4, <1>9 DEF Provision, Serve, Second, QueryMetrics, Caches, dataSourcesVars
<1> QED BY <1>6, <1>7, <1>8, <1>9 DEF DataSourcesNext, ClientStep

LEMMA CachesInvariant == DataSourcesSpec => [](RowsRight /\ CachesRight)
<1>1. DataSourcesInit => CachesRight
  BY DEF DataSourcesInit, CachesRight, CacheRight, TokenRight
<1>2. RowsRight /\ CachesRight /\ [DataSourcesNext]_dataSourcesVars => CachesRight'
  BY CachesStep
<1> QED BY <1>1, <1>2, RowsInvariant, PTL DEF DataSourcesSpec

(***************************************************************************)
(* What requests go by is no more out of date than the caches allow.       *)
(***************************************************************************)
THEOREM CachesAreFresh == DataSourcesSpec => []BoundedStaleness
<1>1. ASSUME RowsRight, CachesRight PROVE BoundedStaleness
  <2> DEFINE fresh(i, w, age) == (sources[i] # NoSource /\ sources[i].val = w) \/ clock - held[w] <= age
  <2>1. /\ clock \in Nat /\ TTL \in Nat \ {0} /\ Life \in Nat /\ Spare \in Nat /\ Spare < Life
        /\ RowsTyped
    BY <1>1, DataSourcesAssumption DEF RowsRight, RowsTyped
  <2>2. ASSUME NEW i \in SourceIds, NEW w, NEW age \in Int, NEW t \in Int, KnownAt(i, w, t), clock - age <= t
        PROVE  fresh(i, w, age)
    <3>1. w \in 1 .. MaxWrites /\ held[w] \in Int
      BY <2>1, <2>2 DEF KnownAt, RowsTyped
    <3>2. CASE held[w] >= t
      BY <2>1, <2>2, <3>1, <3>2
    <3>3. CASE i \in Live /\ sources[i].val = w
      BY <3>3 DEF Live
    <3> QED BY <2>2, <3>2, <3>3 DEF KnownAt
  <2> HIDE DEF fresh
  <2>3. ASSUME NEW i \in SourceIds, sources[i] # NoSource
        PROVE  InitEngine(i, sources[i]).val = sources[i].val
    <3>1. sources[i].ver # 0
      BY <2>1, <2>3 DEF RowsTyped, Live
    <3> QED BY <3>1 DEF InitEngine
  <2>4. ASSUME NEW i \in SourceIds, NEW nocache \in BOOLEAN, getDatasourceById(i, nocache) # NoSource
        PROVE  LET ds == getDatasourceById(i, nocache) t == GetHttpTransport(i, ds) IN
               /\ fresh(i, ds.val, TTL)
               /\ fresh(i, t.val, TTL) \/ (ds.updated = t.updated /\ ds.val # t.val)
               /\ fresh(i, getAccessToken(i, ds).val, TTL + Life - Spare - 2)
    <3> DEFINE ds == getDatasourceById(i, nocache)
               t == GetHttpTransport(i, ds)
               k == getAccessToken(i, ds)
    <3>1. /\ KnownAt(i, ds.val, clock - TTL + 1)
          /\ k.expiresOn \in Nat /\ k.expiresOn > clock + Spare
          /\ KnownAt(i, k.val, k.expiresOn - Life - TTL + 1)
      BY <1>1, <2>4, RequestKnown
    <3>2. t.val = ds.val \/ ds.updated = t.updated
      BY DEF GetHttpTransport
    <3> HIDE DEF ds, t, k
    <3>3. fresh(i, ds.val, TTL)
      <4>1. clock - TTL + 1 \in Int /\ clock - TTL <= clock - TTL + 1
        BY <2>1
      <4> QED BY <2>1, <2>2, <3>1, <4>1
    <3>4. fresh(i, k.val, TTL + Life - Spare - 2)
      <4>1. /\ TTL + Life - Spare - 2 \in Int /\ k.expiresOn - Life - TTL + 1 \in Int
            /\ clock - (TTL + Life - Spare - 2) <= k.expiresOn - Life - TTL + 1
        BY <2>1, <3>1
      <4> QED BY <2>2, <3>1, <4>1
    <3> QED BY <3>2, <3>3, <3>4 DEF ds, t, k
  <2> QED BY <2>3, <2>4 DEF BoundedStaleness, fresh
<1> QED BY <1>1, CachesInvariant, PTL
=============================================================================
