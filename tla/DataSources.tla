----------------------------- MODULE DataSources -----------------------------
(***************************************************************************)
(* The data sources of an organisation (services/sqlstore/datasource.go,   *)
(* api/datasources.go, services/provisioning) and what is remembered of    *)
(* them while requests are proxied to them (api/dataproxy.go,              *)
(* api/pluginproxy/ds_proxy.go, models/datasource_cache.go) or their       *)
(* database is queried (tsdb/sql_engine.go).                               *)
(* A handler that uses two transactions is two steps.  A transaction is    *)
(* one step: SQLite runs one at a time, and elsewhere one that writes a    *)
(* single row, or on MySQL reads rows that another one has locked, waits   *)
(* or fails.  On PostgreSQL a statement does not see rows that others have *)
(* not committed, so the two statements that make a data source the        *)
(* default are one step and their commit another.  A value stands for a    *)
(* write of what a data source says or of its secure data: it is the       *)
(* number of it.                                                           *)
(***************************************************************************)
EXTENDS Integers, Sequences, FiniteSets, SequencesExt, FiniteSetsExt

CONSTANTS Names,     \* names of data sources
          Keys,      \* keys of their secure data
          Clients,   \* users with a page or a script
          Databases, \* "postgres", "other" or both
          Configs,   \* contents of the directory of datasource.yaml files
          MaxId,     \* bound on ids given
          MaxWrites, \* bound on writes
          MaxClock,  \* bound on seconds
          TTL,       \* seconds that a proxied data source is cached
          Life,      \* seconds that an access token is good for
          Spare,     \* seconds that it must be good for to be used again
          Bodies     \* what updates send: [name, def, blank, keys, forced]; forced
                     \* ones leave the version out

ASSUME DataSourcesAssumption ==
  /\ MaxId \in Nat \ {0} /\ MaxWrites \in Nat /\ MaxClock \in Nat /\ TTL \in Nat \ {0}
  /\ Databases \subseteq {"postgres", "other"}
  /\ Life \in Nat /\ Spare \in Nat /\ Spare < Life
  /\ Bodies \subseteq [name : Names, def : BOOLEAN, blank : BOOLEAN, keys : SUBSET Keys, forced : BOOLEAN]

VARIABLES database,   \* the kind of database
          sources,    \* data_source by id
          nextId,
          writes,  \* number of the last write
          clock,   \* seconds
          phase,   \* "down", "booting", "up"
          sourceSteps,   \* what provisioning has left to do
          config,  \* the configuration of this start
          page,    \* what a client has loaded
          handler, \* a request that is between its two transactions, or whose
                   \* transaction is open
          cache,   \* data sources of the proxy
          ptc,     \* HTTP transports
          tokenCache,  \* access tokens of plugin routes
          engineCache, \* connections to databases
          held,    \* the second in which a value was last that of a row
          missed   \* <<i, j>>: i was made the default when the insertion of j was not committed

dataSourcesVars == <<database, sources, nextId, writes, clock, phase, sourceSteps, config, page,
                     handler, cache, ptc, tokenCache, engineCache, held, missed>>

SourceIds == 1 .. MaxId
NoSource == [name |-> "", ver |-> 0]
None == [id |-> 0, reset |-> FALSE]
Live == { i \in SourceIds : sources[i] # NoSource }
Named(n) == { i \in Live : sources[i].name = n }

-----------------------------------------------------------------------------
(* Transactions *)

\* Values that rows hold until now.
Held == [w \in 1 .. MaxWrites |-> IF \E i \in Live : sources[i].val = w THEN clock ELSE held[w]]

Stored(db) == sources' = db /\ writes' = writes + 1 /\ held' = Held

\* The page of a client whose data source has lost count of its versions.
Recounted(i) == page' = [c \in Clients |-> [page[c] EXCEPT !.reset = @ \/ page[c].id = i]]

\* Secrets that a command gives, and no others.
Given(cmd) == [k \in Keys |-> IF k \in cmd.keys THEN writes + 1 ELSE 0]

Inserted(cmd, at) ==
  [name |-> cmd.name, ver |-> 1, def |-> cmd.def, ro |-> cmd.ro, val |-> writes + 1,
   keys |-> Given(cmd), updated |-> at]

\* Fields that are empty are not written, and neither is empty secure data.
Changed(cmd, merged, at) ==
  [name |-> cmd.name, ver |-> cmd.ver + 1, def |-> cmd.def, ro |-> cmd.ro,
   val |-> IF cmd.blank /\ cmd.keys = {} THEN sources[cmd.id].val ELSE writes + 1,
   keys |-> IF merged = <<>> THEN sources[cmd.id].keys ELSE merged, updated |-> at]

\* The statement unsets the flag in the rows that it sees.
updateIsDefaultFlag(db, i, seen) ==
  IF ~db[i].def THEN db
  ELSE [j \in SourceIds |-> IF j = i \/ j \notin seen \/ db[j] = NoSource THEN db[j]
                            ELSE [db[j] EXCEPT !.def = FALSE]]

Added(i, cmd, at, seen) ==
  updateIsDefaultFlag([sources EXCEPT ![i] = Inserted(cmd, at)], i, seen)

\* Defect: the flag of the others is only cleared when a data source is added.
KeepsOthersDefault(cmd, merged, at, seen) == [sources EXCEPT ![cmd.id] = Changed(cmd, merged, at)]

Updated(cmd, merged, at, seen) ==
  updateIsDefaultFlag([sources EXCEPT ![cmd.id] = Changed(cmd, merged, at)], cmd.id, seen)

AddDataSource(cmd) ==
  /\ nextId <= MaxId /\ Named(cmd.name) = {}
  /\ Stored(Added(nextId, cmd, clock, Live)) /\ nextId' = nextId + 1

\* A version of 0 is not compared, and one larger than the row's is taken.
NotOlder(cmd) == cmd.ver = 0 \/ sources[cmd.id].ver < cmd.ver + 1

\* ErrDataSourceUpdatingOldVersion is also what a deleted data source gets; a
\* name that is taken fails at the unique index.
Accepted(cmd) ==
  cmd.id \in Live /\ NotOlder(cmd) /\ Named(cmd.name) \subseteq {cmd.id}

UpdateDataSource(cmd, merged) ==
  Accepted(cmd) /\ Stored(Updated(cmd, merged, clock, Live))

Deleted(i) == Stored([sources EXCEPT ![i] = NoSource])

-----------------------------------------------------------------------------
(* Clients *)

Free(c) == phase = "up" /\ handler[c] = None
Done(c) == handler' = [handler EXCEPT ![c] = None]
Caches == <<cache, ptc, tokenCache, engineCache>>
Elsewhere == <<database, clock, phase, sourceSteps, config, Caches>>

\* Clients whose transaction has made a row the default and not yet committed it.
Open == { c \in Clients : handler[c] # None /\ "seen" \in DOMAIN handler[c] }

\* A write of a row, or of a name, waits for a transaction that is at it.
Waits(i, n) == \E d \in Open : handler[d].id \in {i} \cup Named(n) \/ handler[d].cmd.name = n

\* The row is written, and the rows whose flag goes are found, those of others'
\* insertions not among them.
Begin(c, cmd, merged) ==
  /\ handler' = [handler EXCEPT ![c] = [id |-> cmd.id, cmd |-> cmd, merged |-> merged,
                                        seen |-> Live \ {cmd.id}, at |-> clock]]
  /\ missed' = missed \cup ({cmd.id} \X { handler[d].id : d \in { e \in Open : handler[e].id \notin Live } })

\* Of a row that another transaction has written the flag waits for its end.  An
\* UPDATE has its row, and nobody else does; an INSERT is of none that is there.
Commit(c) ==
  /\ c \in Open /\ writes < MaxWrites /\ Done(c)
  /\ \A d \in Open \ {c} : handler[d].id \notin handler[c].seen
  /\ LET h == handler[c] IN
     \/ /\ h.id \in Live /\ Stored(Updated(h.cmd, h.merged, h.at, h.seen))
        /\ IF h.cmd.ver = 0 THEN Recounted(h.id) ELSE UNCHANGED page
     \/ h.id \notin Live /\ Stored(Added(h.id, h.cmd, h.at, h.seen)) /\ UNCHANGED page
  /\ UNCHANGED <<nextId, missed, Elsewhere>>

\* Two that wait for each other, or an error, end in this.
Rollback(c) ==
  /\ c \in Open /\ Done(c)
  /\ UNCHANGED <<sources, nextId, writes, page, held, missed, Elsewhere>>

\* GET by id; by name the reply says that the data source is read-only.
GetDataSource(c, i, byName) ==
  /\ Free(c) /\ i \in Live
  /\ page' = [page EXCEPT ![c] = [id |-> i, ver |-> sources[i].ver, val |-> sources[i].val,
                                  ro |-> sources[i].ro \/ byName, reset |-> FALSE]]
  /\ UNCHANGED <<sources, nextId, writes, handler, held, missed, Elsewhere>>

PostDataSource(c, n, def) ==
  /\ Free(c) /\ writes < MaxWrites /\ ~Waits(nextId, n)
  /\ LET cmd == [id |-> nextId, ver |-> 0, name |-> n, def |-> def, ro |-> FALSE, blank |-> FALSE,
                 keys |-> Keys] IN
     IF database = "postgres" /\ def
     THEN /\ nextId <= MaxId /\ Named(n) = {} /\ Begin(c, cmd, <<>>) /\ nextId' = nextId + 1
          /\ UNCHANGED <<sources, writes, held>>
     ELSE AddDataSource(cmd) /\ UNCHANGED <<handler, missed>>
  /\ UNCHANGED <<page, Elsewhere>>

\* A PUT sends what the page shows, with changes; secrets only where they change.
Cmd(c, b) ==
  [id |-> page[c].id, ver |-> IF b.forced THEN 0 ELSE page[c].ver, name |-> b.name, def |-> b.def,
   ro |-> page[c].ro, blank |-> b.blank, keys |-> b.keys]

\* Defect: the secure data of the row is not looked at.
FillsNothing(cmd, row) == Given(cmd)

\* What the request does not set comes from the row as it is read here.
fillWithSecureJsonData(cmd, row) ==
  [k \in Keys |-> IF k \in cmd.keys THEN writes + 1 ELSE row.keys[k]]

\* Without secure data there is nothing to fill in, and no look at ReadOnly.
PutFill(c, b) ==
  /\ Free(c) /\ page[c] # None
  /\ LET cmd == Cmd(c, b) IN
     IF b.keys = {} THEN handler' = [handler EXCEPT ![c] = [id |-> cmd.id, cmd |-> cmd, merged |-> <<>>]]
     ELSE /\ cmd.id \in Live /\ ~sources[cmd.id].ro
          /\ handler' = [handler EXCEPT ![c] =
               [id |-> cmd.id, cmd |-> cmd, merged |-> fillWithSecureJsonData(cmd, sources[cmd.id])]]
  /\ UNCHANGED <<sources, nextId, writes, page, held, missed, Elsewhere>>

PutWrite(c) ==
  /\ phase = "up" /\ handler[c] # None /\ "cmd" \in DOMAIN handler[c] /\ c \notin Open
  /\ LET h == handler[c] IN
     /\ ~Waits(h.id, h.cmd.name)
     /\ \/ /\ database = "postgres" /\ h.cmd.def /\ Accepted(h.cmd) /\ Begin(c, h.cmd, h.merged)
           /\ UNCHANGED <<sources, writes, held, page>>
        \/ /\ ~(database = "postgres" /\ h.cmd.def) /\ writes < MaxWrites
           /\ UpdateDataSource(h.cmd, h.merged) /\ Done(c) /\ UNCHANGED missed
           /\ IF h.cmd.ver = 0 THEN Recounted(h.id) ELSE UNCHANGED page
        \/ ~Accepted(h.cmd) /\ Done(c) /\ UNCHANGED <<sources, writes, held, page, missed>>
  /\ UNCHANGED <<nextId, Elsewhere>>

\* By id or by name: the row that is checked need not be the one that goes.
DeleteCheck(c, i) ==
  /\ Free(c) /\ i \in Live /\ ~sources[i].ro
  /\ \E by \in {"id", "name"} :
       handler' = [handler EXCEPT ![c] = [id |-> i, by |-> by, name |-> sources[i].name]]
  /\ UNCHANGED <<sources, nextId, writes, page, held, missed, Elsewhere>>

DeleteWrite(c) ==
  /\ phase = "up" /\ handler[c] # None /\ "by" \in DOMAIN handler[c] /\ Done(c)
  /\ LET gone == IF handler[c].by = "id" THEN {handler[c].id} \cap Live ELSE Named(handler[c].name) IN
     \/ /\ gone # {} /\ writes < MaxWrites /\ \A d \in Open : handler[d].id \notin gone
        /\ \E i \in gone : Deleted(i)
     \/ gone = {} /\ UNCHANGED <<sources, writes, held>>
  /\ UNCHANGED <<nextId, page, missed, Elsewhere>>

-----------------------------------------------------------------------------
(* Requests that go to data sources *)

\* The cache forgets an entry by its age only.
getDatasourceById(i, nocache) ==
  IF ~nocache /\ cache[i] # NoSource /\ clock < cache[i].until THEN cache[i].ds ELSE sources[i]

\* Defect: a transport is kept for as long as the process runs.
KeptForever(i, ds) == IF ptc[i] # NoSource THEN ptc[i] ELSE [val |-> ds.val, updated |-> ds.updated]

\* A transport is as good as the time of the row it was made for, in seconds.
GetHttpTransport(i, ds) ==
  IF ptc[i] # NoSource /\ ptc[i].updated = ds.updated THEN ptc[i]
  ELSE [val |-> ds.val, updated |-> ds.updated]

\* A token is found by the id of the data source, whatever it now says.
getAccessToken(i, ds) ==
  IF tokenCache[i] # NoSource /\ tokenCache[i].expiresOn > clock + Spare THEN tokenCache[i]
  ELSE [val |-> ds.val, expiresOn |-> clock + Life]

\* Nothing writes engineCache.versions, so an engine is used again only for
\* version 0, which no row has.
InitEngine(i, ds) == IF engineCache[i] # NoSource /\ ds.ver = 0 THEN engineCache[i] ELSE [val |-> ds.val]

\* What comes of a request: validateRequest or a bad certificate may stop it,
\* and the route of a plugin may want a token, which may not be had.
Outcomes == {"refused", "sent", "sent with a token"}

\* Transport and token are of the data source as the proxy got it.
HandleRequest(i, ds, outcome) ==
  /\ ptc' = IF outcome = "refused" THEN ptc ELSE [ptc EXCEPT ![i] = GetHttpTransport(i, ds)]
  /\ tokenCache' = IF outcome # "sent with a token" THEN tokenCache
                   ELSE [tokenCache EXCEPT ![i] = getAccessToken(i, ds)]

ProxyDataSourceRequest(i, nocache, outcome) ==
  /\ phase = "up"
  /\ LET ds == getDatasourceById(i, nocache) IN
     /\ ds # NoSource /\ HandleRequest(i, ds, outcome)
     /\ cache' = IF ~nocache /\ cache[i] # NoSource /\ clock < cache[i].until THEN cache
                 ELSE [cache EXCEPT ![i] = [ds |-> ds, until |-> clock + TTL]]
  /\ UNCHANGED <<database, sources, nextId, writes, clock, phase, sourceSteps, config, page, handler,
                 engineCache, held, missed>>

QueryMetrics(i) ==
  /\ phase = "up" /\ i \in Live
  /\ engineCache' = [engineCache EXCEPT ![i] = InitEngine(i, sources[i])]
  /\ UNCHANGED <<database, sources, nextId, writes, clock, phase, sourceSteps, config, page, handler,
                 cache, ptc, tokenCache, held, missed>>

-----------------------------------------------------------------------------
(* Start, with provisioning *)

Defaults(cfg) == FoldSeq(LAMBDA file, n : n + Cardinality({ i \in DOMAIN file.add : file.add[i].def }), 0, cfg)

\* Of one file after another, what it deletes and then what it adds.
apply(cfg) ==
  FlattenSeq([f \in DOMAIN cfg |->
    [i \in DOMAIN cfg[f].del |-> [op |-> "del", name |-> cfg[f].del[i]]]
    \o [i \in DOMAIN cfg[f].add |-> [op |-> "add", ds |-> cfg[f].add[i]]]])

createInsertCommand(ds) == [name |-> ds.name, def |-> ds.def, ro |-> ~ds.editable, keys |-> ds.keys]

\* The version of the file is not passed on: the row's is 1 again.
createUpdateCommand(ds, i) ==
  [id |-> i, ver |-> 0, name |-> ds.name, def |-> ds.def, ro |-> ~ds.editable, blank |-> FALSE,
   keys |-> ds.keys]

\* The caches are of the process.
Forgotten ==
  LET empty == [i \in SourceIds |-> NoSource] IN
  cache' = empty /\ ptc' = empty /\ tokenCache' = empty /\ engineCache' = empty

\* Two defaults are refused before anything is done, and the process exits.
Boot ==
  /\ phase = "down"
  /\ \E cfg \in Configs :
       Defaults(cfg) <= 1 /\ config' = cfg /\ sourceSteps' = apply(cfg)
  /\ phase' = "booting"
  /\ Forgotten
  /\ UNCHANGED <<database, sources, nextId, writes, clock, page, handler, held, missed>>

\* Secrets of a file take the place of all that the row has.
Provision ==
  /\ phase = "booting" /\ sourceSteps # <<>> /\ sourceSteps' = Tail(sourceSteps)
  /\ LET s == Head(sourceSteps) IN
     \/ /\ s.op = "del" /\ writes < MaxWrites /\ \E i \in Named(s.name) : Deleted(i)
        /\ UNCHANGED <<nextId, page>>
     \/ s.op = "del" /\ Named(s.name) = {} /\ UNCHANGED <<sources, writes, held, nextId, page>>
     \/ /\ s.op = "add" /\ writes < MaxWrites
        /\ AddDataSource(createInsertCommand(s.ds))
        /\ UNCHANGED page
     \/ /\ s.op = "add" /\ writes < MaxWrites
        /\ \E i \in Named(s.ds.name) :
             LET cmd == createUpdateCommand(s.ds, i) IN
             UpdateDataSource(cmd, IF cmd.keys = {} THEN <<>> ELSE Given(cmd)) /\ Recounted(i)
        /\ UNCHANGED nextId
  /\ UNCHANGED <<database, missed, clock, phase, config, handler, Caches>>

Serve ==
  /\ phase = "booting" /\ sourceSteps = <<>> /\ phase' = "up" /\ config' = <<>>
  /\ UNCHANGED <<database, sources, nextId, writes, clock, sourceSteps, page, handler, Caches, held, missed>>

Stop ==
  /\ phase # "down" /\ phase' = "down" /\ sourceSteps' = <<>> /\ config' = <<>>
  /\ handler' = [c \in Clients |-> None]
  /\ Forgotten
  /\ UNCHANGED <<database, sources, nextId, writes, clock, page, held, missed>>

Second ==
  /\ clock < MaxClock /\ clock' = clock + 1
  /\ UNCHANGED <<database, sources, nextId, writes, phase, sourceSteps, config, page, handler, Caches, held,
                 missed>>

DataSourcesInit ==
  /\ database \in Databases /\ missed = {}
  /\ sources = [i \in SourceIds |-> NoSource] /\ nextId = 1 /\ writes = 0 /\ clock = 0
  /\ phase = "down" /\ sourceSteps = <<>> /\ config = <<>>
  /\ page = [c \in Clients |-> None] /\ handler = [c \in Clients |-> None]
  /\ cache = [i \in SourceIds |-> NoSource] /\ ptc = [i \in SourceIds |-> NoSource]
  /\ tokenCache = [i \in SourceIds |-> NoSource] /\ engineCache = [i \in SourceIds |-> NoSource]
  /\ held = [w \in 1 .. MaxWrites |-> 0]

DataSourcesNext ==
  \/ \E c \in Clients :
       \/ \E i \in SourceIds, byName \in BOOLEAN : GetDataSource(c, i, byName)
       \/ \E n \in Names, def \in BOOLEAN : PostDataSource(c, n, def)
       \/ \E b \in Bodies : PutFill(c, b)
       \/ PutWrite(c)
       \/ \E i \in SourceIds : DeleteCheck(c, i)
       \/ DeleteWrite(c)
       \/ Commit(c)
       \/ Rollback(c)
  \/ \E i \in SourceIds, nocache \in BOOLEAN, outcome \in Outcomes : ProxyDataSourceRequest(i, nocache, outcome)
  \/ \E i \in SourceIds : QueryMetrics(i)
  \/ Boot \/ Provision \/ Serve \/ Stop \/ Second

DataSourcesSpec == DataSourcesInit /\ [][DataSourcesNext]_dataSourcesVars

-----------------------------------------------------------------------------
(* Properties *)

\* A new default takes over from the old one, whoever makes it; but for two of
\* which one was made the default, on PostgreSQL, while a transaction that
\* inserts the other as the default was open.
OneDefault ==
  \A i, j \in Live :
    sources[i].def /\ sources[j].def /\ i # j =>
      database = "postgres" /\ (<<i, j>> \in missed \/ <<j, i>> \in missed)

\* An update that names a version is of the row that its client has loaded,
\* unless an update without one has made the versions start again since then.
Overwrites(c) ==
  /\ handler[c] # None /\ handler'[c] = None /\ phase' = "up" /\ "cmd" \in DOMAIN handler[c]
  /\ sources # sources' /\ handler[c].cmd.ver # 0

NoLostUpdate ==
  [][\A c \in Clients : Overwrites(c) =>
       page[c].val = sources[handler[c].id].val \/ page[c].reset]_dataSourcesVars

\* Secrets that an update does not mention are after it what they were before,
\* although they are read in one transaction and written in another.
SecretsSurvive ==
  [][\A c \in Clients, k \in Keys : Overwrites(c) /\ k \notin handler[c].cmd.keys =>
       LET i == handler[c].id IN
       sources'[i].keys[k] = sources[i].keys[k] \/ page[c].reset]_dataSourcesVars

\* What a request goes by is at most TTL seconds out of date, through the cache
\* of data sources and that of transports; except for a second write of the same
\* second.  A token may be older by what it is used again for.  A database is
\* queried over the connection that the row names.
BoundedStaleness ==
  phase = "up" =>
    \A i \in SourceIds :
      LET row == sources[i]
          fresh(w, age) == (row # NoSource /\ row.val = w) \/ clock - held[w] <= age IN
      /\ row # NoSource => InitEngine(i, row).val = row.val
      /\ \A nocache \in BOOLEAN :
           LET ds == getDatasourceById(i, nocache) t == GetHttpTransport(i, ds) IN
           ds # NoSource =>
             /\ fresh(ds.val, TTL)
             /\ fresh(t.val, TTL) \/ (ds.updated = t.updated /\ ds.val # t.val)
             /\ fresh(getAccessToken(i, ds).val, TTL + Life - Spare - 2)

\* A server that starts to serve has the data sources of its files: a name is
\* there as the last file that adds it says, unless a later one deletes it.
LastSays(n) ==
  LET says == { f \in DOMAIN config : n \in ToSet(config[f].del) \/
                                     \E d \in ToSet(config[f].add) : d.name = n } IN
  IF says = {} THEN {} ELSE { d \in ToSet(config[Max(says)].add) : d.name = n }

ConfigApplied ==
  [][(phase = "booting" /\ phase' = "up") =>
       \A n \in Names :
         /\ \A d \in LastSays(n) : \E i \in Named(n) : sources[i].def = d.def /\ sources[i].ro = ~d.editable
         /\ (LastSays(n) = {} /\ \E f \in DOMAIN config : n \in ToSet(config[f].del)) => Named(n) = {}
     ]_dataSourcesVars

\* Updates and provisioning keep what they are not to change.
UpdatesKept == NoLostUpdate /\ SecretsSurvive /\ ConfigApplied
=============================================================================
