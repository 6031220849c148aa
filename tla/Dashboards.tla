------------------------------ MODULE Dashboards ------------------------------
(***************************************************************************)
(* Dashboards, their versions and alert definitions, and the dashboards of *)
(* an app plugin (services/sqlstore, api/dashboard.go, alerting, plugins). *)
(* A thread serves one request, or is the start-up task; it runs the       *)
(* commands of its list, each in a transaction that first reads and then   *)
(* writes.  On SQLite a transaction that finds the tables locked is rolled *)
(* back and run again; on other databases transactions overlap, held       *)
(* together by their unique indexes only.  The process may crash.          *)
(***************************************************************************)
EXTENDS Integers, FiniteSets, Sequences, SequencesExt

CONSTANTS Slots,      \* requests that are served at the same time
          Boot,       \* the start-up task (updateAppDashboards)
          Datas,      \* JSON of dashboards that users save:
                      \* [slug, alerts : sequence of [panel, def, ok], rev]
          Files,      \* Files[n]: the dashboards in version n of the plugin
          Keep,       \* setting.DashboardVersionsToKeep
          Databases,  \* "sqlite", "other" or both
          MaxDash, MaxAlerts, MaxRequests, MaxTries   \* bounds

Threads == Slots \cup {Boot}

Jsons == Datas \cup UNION Range(Files)

ASSUME DashboardsAssumption ==
  /\ IsFiniteSet(Slots) /\ Boot \notin Slots
  /\ Keep \in Int /\ {MaxDash, MaxAlerts, MaxRequests, MaxTries} \subseteq Nat
  /\ Databases \subseteq {"sqlite", "other"}
  /\ Files \in Seq(Range(Files)) /\ Len(Files) > 0
  /\ \A files \in Range(Files) : IsFiniteSet(files)
  /\ \A data \in Jsons : DOMAIN data = {"slug", "alerts", "rev"} /\ IsFiniteSet(DOMAIN data.alerts)

\* The editor gives every panel of a dashboard an id of its own.
ASSUME PanelsAssumption ==
  \A data \in Jsons : \A i, j \in DOMAIN data.alerts :
    data.alerts[i].panel = data.alerts[j].panel => i = j

\* The dashboards of a plugin are told apart by their slugs, by which
\* GetPluginDashboards matches them with the rows.
ASSUME FilesAssumption ==
  \A files \in Range(Files) : \A f, g \in files : f.slug = g.slug => f = g

VARIABLES dashboards,  \* table dashboard: [version, data, plugin] by id
          lastDash,    \* the ids used so far
          history,     \* table dashboard_version: [dash, version, parent, data]
          alerts,      \* table alert: [id, dash, panel, def, state]
          lastAlert,
          plugin,      \* the row of plugin_setting: [exists, enabled, version]
          disk,        \* the version of the plugin that is installed
          todo,        \* the commands each thread has still to run
          database,    \* the kind of database
          arrived,     \* requests so far
          disturbed,   \* dashboards whose alerts were left to chance
          meddled,     \* plugin dashboards changed other than by its sync
          overtaken    \* dashboards of which a version was expired while a
                       \* save that had been overtaken was to write it

rows == <<dashboards, lastDash, history, alerts, lastAlert, plugin>>
dashboardsVars == <<rows, disk, todo, database, arrived, disturbed, meddled, overtaken>>

NoRow == [version |-> 0]
DashIds == 1..MaxDash
Saved(t) == {d \in DashIds : t[d] # NoRow}
WithSlug(t, s) == {d \in Saved(t) : t[d].data.slug = s}
OfPlugin(t) == {d \in Saved(t) : t[d].plugin}
AlertsOf(d) == {a \in alerts : a.dash = d}

-----------------------------------------------------------------------------
(* A thread's commands *)

\* seen is <<>> until the transaction has begun, and then <<what it has read>>
Cmd(op, args) == [op |-> op, seen |-> <<>>, tries |-> 0, args |-> args]
At(p, op) == todo[p] # <<>> /\ Head(todo[p]).op = op
Args(p) == Head(todo[p]).args
Seen(p) == Head(todo[p]).seen[1]
Begun(p) == todo[p] # <<>> /\ Head(todo[p]).seen # <<>>
Waits(p, op) == At(p, op) /\ ~ Begun(p)

Then(p, cmds) == todo' = [todo EXCEPT ![p] = cmds \o Tail(@)]
Fail(p) == todo' = [todo EXCEPT ![p] = <<>>]
Sees(p, t) == todo' = [todo EXCEPT ![p][1].seen = <<t>>]

\* SQLite gives a table to a writer when nobody else is reading it.
Alone(p) == database = "sqlite" => \A q \in Threads \ {p} : ~ Begun(q)
Writes(p, op) == At(p, op) /\ Begun(p) /\ Alone(p)

\* Threads that have still to save alerts of dashboard d.
Saving(d) ==
  {q \in Threads : \E i \in DOMAIN todo[q] :
     todo[q][i].op = "SaveAlerts" /\ todo[q][i].args.dash = d}
Disturb(ds) == disturbed' = disturbed \cup ds

-----------------------------------------------------------------------------
(* SaveDashboard *)

\* Why a save is refused by the rows t, "" if it is not
Refusal(c, t) ==
  CASE c.id > 0 /\ t[c.id] = NoRow -> "not-found"
    [] c.id > 0 /\ ~ c.overwrite /\ t[c.id].version # c.version -> "version-mismatch"
    [] c.id > 0 /\ ~ c.overwrite /\ t[c.id].plugin -> "plugin-dashboard"
    [] ~ c.overwrite /\ WithSlug(t, c.data.slug) \ {c.id} # {} -> "name-exists"
    [] OTHER -> ""

\* The dashboard that is written: the one of that title goes first; 0 is a new one.
Target(c, t) ==
  LET other == WithSlug(t, c.data.slug) \ {c.id}
  IN IF other # {} THEN CHOOSE d \in other : TRUE ELSE c.id
Parent(c, t) == IF Target(c, t) = 0 THEN 0 ELSE t[Target(c, t)].version

SaveRead(p) ==
  /\ Waits(p, "SaveDashboard")
  /\ IF Refusal(Args(p), dashboards) # "" THEN Fail(p) ELSE Sees(p, dashboards)
  /\ UNCHANGED <<rows, disk, database, arrived, disturbed, meddled, overtaken>>

\* Defect: no unique index on the versions of a dashboard.
WritableTwice(d, c, parent) ==
  /\ d = 0 \/ dashboards[d] # NoRow
  /\ WithSlug(dashboards, c.data.slug) \subseteq {d}

\* The row is there, and no unique index is violated: slugs, and the
\* versions of a dashboard.
Writable(d, c, parent) ==
  /\ d = 0 \/ dashboards[d] # NoRow
  /\ WithSlug(dashboards, c.data.slug) \subseteq {d}
  /\ \A v \in history : ~ (v.dash = d /\ v.version = parent + 1)

SaveWrite(p) ==
  /\ Writes(p, "SaveDashboard")
  /\ LET c == Args(p)
         t == Target(c, Seen(p))
         parent == Parent(c, Seen(p))
         d == IF t = 0 THEN lastDash + 1 ELSE t
     IN IF ~ Writable(t, c, parent)
        THEN Fail(p) /\ UNCHANGED <<rows, disturbed, meddled>>
        ELSE /\ d \in DashIds
             /\ lastDash' = IF t = 0 THEN d ELSE lastDash
             /\ dashboards' = [dashboards EXCEPT ![d] =
                  [version |-> parent + 1, data |-> c.data,
                   plugin |-> c.plugin \/ (t # 0 /\ dashboards[t].plugin)]]
             /\ history' = history \cup
                  {[dash |-> d, version |-> parent + 1, parent |-> parent, data |-> c.data]}
             /\ Then(p, IF c.plugin THEN <<>> ELSE
                        <<Cmd("SaveAlerts", [dash |-> d, data |-> c.data])>>)
             /\ Disturb(IF c.plugin \/ Saving(d) # {} THEN {d} ELSE {})
             /\ meddled' = (meddled \/ (~ c.plugin /\ t # 0 /\ dashboards[t].plugin))
             /\ UNCHANGED <<alerts, lastAlert, plugin>>
  /\ UNCHANGED <<disk, database, arrived, overtaken>>

DeleteRead(p) ==
  /\ Waits(p, "DeleteDashboard")
  /\ IF WithSlug(dashboards, Args(p).slug) = {} THEN Fail(p)
     ELSE Sees(p, WithSlug(dashboards, Args(p).slug))
  /\ UNCHANGED <<rows, disk, database, arrived, disturbed, meddled, overtaken>>

\* The dashboard with its versions, and its alerts
DeleteWrite(p) ==
  /\ Writes(p, "DeleteDashboard")
  /\ LET gone == Seen(p) IN
       /\ dashboards' = [d \in DashIds |-> IF d \in gone THEN NoRow ELSE dashboards[d]]
       /\ history' = {v \in history : v.dash \notin gone}
       /\ alerts' = {a \in alerts : a.dash \notin gone}
       /\ Disturb({d \in gone : Saving(d) # {}})
       /\ meddled' = (meddled \/ (~ Args(p).plugin /\ gone \cap OfPlugin(dashboards) # {}))
  /\ Then(p, <<>>)
  /\ UNCHANGED <<lastDash, lastAlert, plugin, disk, database, arrived, overtaken>>

-----------------------------------------------------------------------------
(* The versions that are kept *)

MaxKeep == IF Keep < 1 THEN 1 ELSE Keep
CountOf(d, t) == Cardinality({v \in t : v.dash = d})

Excess(t) == {v \in t : CountOf(v.dash, t) > MaxKeep}

\* The rows come by dashboard, the newest version first: what the loop has
\* counted at v is how many versions of the dashboard are not older.
getVersionIDsToDelete(t) ==
  {v \in t : Cardinality({w \in t : w.dash = v.dash /\ w.version >= v.version}) > MaxKeep}

ExpireRead(p) ==
  /\ Waits(p, "DeleteExpiredVersions")
  /\ Sees(p, getVersionIDsToDelete(Excess(history)))
  /\ UNCHANGED <<rows, disk, database, arrived, disturbed, meddled, overtaken>>

\* The transaction of q is about to write that version of dashboard d.
IsWriting(q, d, version) ==
  /\ At(q, "SaveDashboard") /\ Begun(q)
  /\ Target(Args(q), Seen(q)) = d /\ Parent(Args(q), Seen(q)) + 1 = version

ExpireWrite(p) ==
  /\ Writes(p, "DeleteExpiredVersions")
  /\ history' = history \ Seen(p)
  /\ overtaken' = overtaken \cup
       {d \in DashIds : \E q \in Threads, v \in Seen(p) : v.dash = d /\ IsWriting(q, d, v.version)}
  /\ Then(p, <<>>)
  /\ UNCHANGED <<dashboards, lastDash, alerts, lastAlert, plugin>>
  /\ UNCHANGED <<disk, database, arrived, disturbed, meddled>>

-----------------------------------------------------------------------------
(* Alert definitions *)

\* GetAlerts stops at the first alert that cannot be saved: it fails if the
\* alert is invalid, and returns no alerts if it only lacks an id of a
\* dashboard or panel (ValidToSave).
Unsaved(d, as) == SelectInSeq(as, LAMBDA a : ~ a.ok \/ d = 0 \/ a.panel = 0)
Invalid(d, as) == Unsaved(d, as) # 0 /\ ~ as[Unsaved(d, as)].ok

GetAlerts(d, as) == IF Unsaved(d, as) = 0 THEN ToSet(as) ELSE {}

validateDashboardAlerts(p) ==
  /\ At(p, "validateDashboardAlerts")
  /\ IF Invalid(Args(p).id, Args(p).data.alerts) THEN Fail(p)
     ELSE Then(p, <<Cmd("SaveDashboard", Args(p))>>)
  /\ UNCHANGED <<rows, disk, database, arrived, disturbed, meddled, overtaken>>

\* updateDashboardAlerts, then the reads of SaveAlerts
AlertsRead(p) ==
  /\ Waits(p, "SaveAlerts")
  /\ LET d == Args(p).dash IN
       IF Invalid(d, Args(p).data.alerts) THEN Fail(p) /\ Disturb({d})
       ELSE Sees(p, AlertsOf(d)) /\ UNCHANGED disturbed
  /\ UNCHANGED <<rows, disk, database, arrived, meddled, overtaken>>

\* The alert of that panel among those read, if any
OnPanel(k, as) ==
  LET same == {a \in as : a.panel = k}
  IN {a \in same : \A b \in same : a.id <= b.id}

\* upsertAlerts writes an update over the row as it is now, and with the
\* state it had when it was read.
Upserted(a, wanted, old) ==
  LET w == {x \in wanted : x.panel = a.panel /\ a.id \in {b.id : b \in OnPanel(x.panel, old)}}
  IN IF w = {} THEN a
     ELSE LET x == CHOOSE x \in w : TRUE
              was == CHOOSE b \in old : b.id = a.id
          IN IF x.def = was.def THEN a ELSE [a EXCEPT !.def = x.def, !.state = was.state]

\* Defect: an alert is missing when no alert of the JSON has its definition.
MissingDefs(old, wanted) == {b.id : b \in {a \in old : \A x \in wanted : x.def # a.def}}

\* deleteMissingAlerts
Missing(old, wanted) == {b.id : b \in {a \in old : \A x \in wanted : x.panel # a.panel}}

SaveAlerts(p) ==
  /\ Writes(p, "SaveAlerts")
  /\ LET d == Args(p).dash
         old == Seen(p)
         wanted == GetAlerts(d, Args(p).data.alerts)
         new == SetToSeq({x \in wanted : OnPanel(x.panel, old) = {}})
         inserted == {[id |-> lastAlert + i, dash |-> d, panel |-> new[i].panel,
                       def |-> new[i].def, state |-> "pending"] : i \in DOMAIN new}
     IN /\ lastAlert + Len(new) <= MaxAlerts
        /\ alerts' = inserted \cup
             {Upserted(a, wanted, old) : a \in {b \in alerts : b.id \notin Missing(old, wanted)}}
        /\ lastAlert' = lastAlert + Len(new)
  /\ Then(p, <<>>)
  /\ UNCHANGED <<dashboards, lastDash, history, plugin>>
  /\ UNCHANGED <<disk, database, arrived, disturbed, meddled, overtaken>>

StateRead(p) ==
  /\ Waits(p, "SetAlertState")
  /\ LET row == {a \in alerts : a.id = Args(p).id} IN
       IF \A a \in row : a.state \in {"paused", Args(p).state} THEN Fail(p) ELSE Sees(p, row)
  /\ UNCHANGED <<rows, disk, database, arrived, disturbed, meddled, overtaken>>

\* The whole row is written, with the definition it had when it was read.
SetAlertState(p) ==
  /\ Writes(p, "SetAlertState")
  /\ LET new == {[a EXCEPT !.state = Args(p).state] : a \in Seen(p)}
         over == {a \in alerts : a.id = Args(p).id}
     IN /\ alerts' = IF over = {} THEN alerts ELSE (alerts \ over) \cup new
        /\ Disturb({a.dash : a \in {b \in over : \A n \in new : n.def # b.def}})
  /\ Then(p, <<>>)
  /\ UNCHANGED <<dashboards, lastDash, history, lastAlert, plugin>>
  /\ UNCHANGED <<disk, database, arrived, meddled, overtaken>>

\* One UPDATE; PauseAllAlerts is the same for every alert.
PauseAlert(p) ==
  /\ At(p, "PauseAlert") /\ Alone(p)
  /\ alerts' = {IF a.id \in Args(p).ids THEN [a EXCEPT !.state = Args(p).state] ELSE a : a \in alerts}
  /\ Then(p, <<>>)
  /\ UNCHANGED <<dashboards, lastDash, history, lastAlert, plugin>>
  /\ UNCHANGED <<disk, database, arrived, disturbed, meddled, overtaken>>

-----------------------------------------------------------------------------
(* The dashboards of the plugin *)

\* The event that follows the commit is handled by the same thread.
UpdatePluginSetting(p) ==
  /\ At(p, "UpdatePluginSetting") /\ Alone(p)
  /\ LET on == Args(p).enabled IN
       /\ plugin' = [exists |-> TRUE, enabled |-> on, version |-> disk]
       /\ IF plugin.exists /\ plugin.enabled = on THEN Then(p, <<>>)
          ELSE Then(p, <<Cmd(IF on THEN "syncPluginDashboards" ELSE "removePluginDashboards", [plugin |-> TRUE])>>)
  /\ UNCHANGED <<dashboards, lastDash, history, alerts, lastAlert>>
  /\ UNCHANGED <<disk, database, arrived, disturbed, meddled, overtaken>>

Delete(s) == Cmd("DeleteDashboard", [slug |-> s, plugin |-> TRUE])
Import(data) ==
  Cmd("SaveDashboard", [id |-> 0, version |-> 0, sent |-> 0, data |-> data,
                        overwrite |-> TRUE, plugin |-> TRUE])

SlugsOf(ds) == SetToSeq({dashboards[d].data.slug : d \in ds})

\* Defect: the version is written first.
MarksFirst(imports, deletes) ==
  <<Cmd("UpdatePluginSettingVersion", [plugin |-> TRUE])>> \o imports \o deletes

MarksLast(imports, deletes) ==
  imports \o deletes \o <<Cmd("UpdatePluginSettingVersion", [plugin |-> TRUE])>>

\* GetPluginDashboards: files whose revision is not the imported one, and
\* dashboards whose file is gone; the version is written when all is done.
syncPluginDashboards(p) ==
  /\ At(p, "syncPluginDashboards")
  /\ LET mine == OfPlugin(dashboards)
         current(f) == \E d \in mine : dashboards[d].data.slug = f.slug /\ dashboards[d].data.rev = f.rev
         stale == SetToSeq({f \in Files[disk] : ~ current(f)})
         removed == SlugsOf({d \in mine : \A f \in Files[disk] : f.slug # dashboards[d].data.slug})
     IN Then(p, MarksLast([i \in DOMAIN stale |-> Import(stale[i])],
                          [i \in DOMAIN removed |-> Delete(removed[i])]))
  /\ UNCHANGED <<rows, disk, database, arrived, disturbed, meddled, overtaken>>

UpdatePluginSettingVersion(p) ==
  /\ At(p, "UpdatePluginSettingVersion") /\ Alone(p)
  /\ plugin' = [plugin EXCEPT !.version = disk]
  /\ Then(p, <<>>)
  /\ UNCHANGED <<dashboards, lastDash, history, alerts, lastAlert>>
  /\ UNCHANGED <<disk, database, arrived, disturbed, meddled, overtaken>>

\* handlePluginStateChanged when the plugin has been disabled
removePluginDashboards(p) ==
  /\ At(p, "removePluginDashboards")
  /\ LET mine == SlugsOf(OfPlugin(dashboards))
     IN Then(p, [i \in DOMAIN mine |-> Delete(mine[i])])
  /\ UNCHANGED <<rows, disk, database, arrived, disturbed, meddled, overtaken>>

\* updateAppDashboards, after a restart with version d of the plugin
AtBoot(d) ==
  IF plugin.exists /\ plugin.enabled /\ plugin.version # d
  THEN <<Cmd("syncPluginDashboards", [plugin |-> TRUE])>> ELSE <<>>

-----------------------------------------------------------------------------
(* Locks, crashes and requests *)

\* inTransactionWithRetry runs the same command again, and SaveDashboard has
\* by then put the next version into its JSON.
Retried(c) ==
  LET again == [c EXCEPT !.seen = <<>>, !.tries = @ + 1]
  IN IF c.op = "SaveDashboard" /\ c.args.id > 0
     THEN [again EXCEPT !.args.version = Parent(c.args, c.seen[1]) + 1] ELSE again

Locked(p) ==
  /\ Begun(p) /\ ~ Alone(p)
  /\ IF Head(todo[p]).tries < MaxTries
     THEN todo' = [todo EXCEPT ![p][1] = Retried(@)] /\ UNCHANGED disturbed
     ELSE Fail(p) /\ Disturb({d \in DashIds : p \in Saving(d)})
  /\ UNCHANGED <<rows, disk, database, arrived, meddled, overtaken>>

\* The process dies, perhaps to be upgraded, and starts again.
Restart ==
  /\ arrived < MaxRequests
  /\ arrived' = arrived + 1
  /\ Disturb({d \in DashIds : Saving(d) # {}})
  /\ disk' \in disk..Len(Files)
  /\ todo' = [p \in Threads |-> IF p = Boot THEN AtBoot(disk') ELSE <<>>]
  /\ UNCHANGED <<rows, database, meddled, overtaken>>

PluginOps == {"UpdatePluginSetting", "UpdatePluginSettingVersion", "syncPluginDashboards", "removePluginDashboards"}
Syncing ==
  {q \in Threads : \E i \in DOMAIN todo[q] : LET c == todo[q][i] IN
     c.op \in PluginOps \/ (c.op \in {"SaveDashboard", "DeleteDashboard"} /\ c.args.plugin)}

Arrives(p, cmd) ==
  /\ todo[p] = <<>> /\ arrived < MaxRequests
  /\ arrived' = arrived + 1
  /\ todo' = [todo EXCEPT ![p] = <<cmd>>]
  /\ meddled' = (meddled \/ (cmd.op \in PluginOps /\ Syncing # {}))
  /\ UNCHANGED <<rows, disk, database, disturbed, overtaken>>

Post(d, version, data, overwrite) ==
  Cmd("validateDashboardAlerts", [id |-> d, version |-> version, sent |-> version, data |-> data,
                                  overwrite |-> overwrite, plugin |-> FALSE])

\* The browser sends the version that it has loaded; nobody compares it
\* when the user overwrites.
PostDashboard(p) ==
  \E data \in Datas, overwrite \in BOOLEAN :
    \/ Arrives(p, Post(0, 0, data, overwrite))
    \/ \E d \in Saved(dashboards) : Arrives(p, Post(d, dashboards[d].version, data, overwrite))
    \/ \E d \in Saved(dashboards) : ~ overwrite /\ Arrives(p, Post(d, dashboards[d].version - 1, data, FALSE))

RestoreDashboardVersion(p) ==
  \E v \in history : v.dash \in Saved(dashboards) /\
    Arrives(p, Post(v.dash, dashboards[v.dash].version, v.data, FALSE))

Request(p) ==
  \/ PostDashboard(p) \/ RestoreDashboardVersion(p)
  \/ \E s \in {dashboards[d].data.slug : d \in Saved(dashboards)} :
       Arrives(p, Cmd("DeleteDashboard", [slug |-> s, plugin |-> FALSE]))
  \/ Arrives(p, Cmd("DeleteExpiredVersions", <<>>))
  \/ \E a \in alerts : Arrives(p, Cmd("SetAlertState", [id |-> a.id, state |-> "ok"]))
  \/ \E ids \in {{a.id : a \in alerts}} \cup {{a.id} : a \in alerts}, s \in {"paused", "pending"} :
       Arrives(p, Cmd("PauseAlert", [ids |-> ids, state |-> s]))
  \/ \E b \in BOOLEAN : Arrives(p, Cmd("UpdatePluginSetting", [enabled |-> b]))

Store(p) ==
  \/ SaveRead(p) \/ SaveWrite(p) \/ DeleteRead(p) \/ DeleteWrite(p)
  \/ ExpireRead(p) \/ ExpireWrite(p) \/ AlertsRead(p) \/ SaveAlerts(p)
  \/ StateRead(p) \/ SetAlertState(p) \/ PauseAlert(p) \/ Locked(p)
  \/ UpdatePluginSetting(p) \/ UpdatePluginSettingVersion(p)

Handler(p) ==
  validateDashboardAlerts(p) \/ syncPluginDashboards(p) \/ removePluginDashboards(p)

DashboardsNext ==
  \/ Restart
  \/ \E p \in Threads : Store(p) \/ Handler(p)
  \/ \E p \in Slots : Request(p)

\* One dashboard with an alert, or two with a version to expire each
DashboardsInit ==
  /\ database \in Databases
  /\ lastDash \in {1, 2} \cap DashIds
  /\ \E first \in Datas :
     LET n == IF lastDash = 1 THEN 1 ELSE MaxKeep + 1
         found == SetToSeq(GetAlerts(1, first.alerts))
         data(d) == IF d = 1 THEN first ELSE [first EXCEPT !.slug = "b"]
     IN /\ first.slug = "a" /\ (lastDash = 1 <=> found # <<>>)
        /\ dashboards = [d \in DashIds |->
              IF d <= lastDash THEN [version |-> n, data |-> data(d), plugin |-> FALSE] ELSE NoRow]
        /\ history = UNION {{[dash |-> d, version |-> v, parent |-> v - 1, data |-> data(d)] :
                               v \in 1..n} : d \in 1..lastDash}
        /\ lastAlert = Len(found)
        /\ alerts = {[id |-> i, dash |-> 1, panel |-> found[i].panel, def |-> found[i].def,
                      state |-> "alerting"] : i \in DOMAIN found}
  /\ plugin = [exists |-> FALSE, enabled |-> FALSE, version |-> 0]
  /\ disk = 1
  /\ todo = [p \in Threads |-> <<>>]
  /\ arrived = 0 /\ disturbed = {} /\ meddled = FALSE /\ overtaken = {}

DashboardsSpec == DashboardsInit /\ [][DashboardsNext]_dashboardsVars

-----------------------------------------------------------------------------
\* Every dashboard has the history that SaveDashboard promises: its last
\* version is the row itself, each version replaced the one before it, and
\* none is there twice, whatever requests overlap (an update that another
\* one overtook would show as two rows of one version); a dashboard that is
\* gone has no history; unless a version was expired while a save that had
\* been overtaken was about to write it, on databases that are not serial.
HistoryMatches ==
  \A d \in DashIds \ overtaken :
    LET mine == {v \in history : v.dash = d}
        top == dashboards[d].version
    IN /\ dashboards[d] = NoRow <=> mine = {}
       /\ mine # {} =>
            /\ {v.version : v \in mine} = (top - Cardinality(mine) + 1)..top
            /\ \A v \in mine : v.parent = v.version - 1
            /\ \A v \in mine : v.version = top => v.data = dashboards[d].data

\* DeleteExpiredVersions leaves every dashboard its newest versions, as many
\* as are configured; on SQLite, where nothing is saved meanwhile, no more.
KeepsVersions ==
  [][\A p \in Threads : ExpireWrite(p) => \A d \in DashIds :
       LET n == CountOf(d, history)
           left == IF n > MaxKeep THEN MaxKeep ELSE n
       IN IF database = "sqlite" THEN CountOf(d, history') = left ELSE CountOf(d, history') >= left]_dashboardsVars

\* A dashboard is saved in one transaction and its alerts in another: when
\* both are done the alerts are those of the dashboard, and a dashboard that
\* was deleted has none, unless another request on the dashboard, a crash or
\* an error came between the two.
AlertsFollow ==
  \A d \in DashIds : d \notin disturbed /\ Saving(d) = {} =>
    LET wanted == IF dashboards[d] = NoRow THEN {} ELSE GetAlerts(d, dashboards[d].data.alerts)
    IN /\ Cardinality(AlertsOf(d)) = Cardinality(wanted)
       /\ {<<a.panel, a.def>> : a \in AlertsOf(d)} = {<<x.panel, x.def>> : x \in wanted}

\* Saving the alerts of a dashboard changes no alert's state, so that a
\* paused alert stays paused, unless a new state was saved after the alert
\* was read, which databases other than SQLite allow.
StateSurvivesSave ==
  [][\A p \in Threads : SaveAlerts(p) =>
       \A a \in alerts, b \in alerts' : a.id = b.id /\ a.state # b.state =>
         database # "sqlite" /\ a \notin Seen(p)]_dashboardsVars

\* The plugin's version is marked as processed only when the dashboards of
\* that version are there and those of older ones gone, also when a sync has
\* been cut short by a crash or an error and is run again at the next start,
\* unless somebody else changed them or switched the plugin meanwhile.
MarkedMeansSynced ==
  [][\A p \in Threads : UpdatePluginSettingVersion(p) /\ ~ meddled =>
       LET has(f) == \E d \in OfPlugin(dashboards) :
             dashboards[d].data.slug = f.slug /\ dashboards[d].data.rev = f.rev
       IN /\ \A f \in Files[disk] : has(f)
          /\ \A d \in OfPlugin(dashboards) : \E f \in Files[disk] : f.slug = dashboards[d].data.slug]_dashboardsVars

\* Saving alerts, expiring versions and syncing a plugin keep what they are to keep.
SavesKeep == KeepsVersions /\ StateSurvivesSave /\ MarkedMeansSynced
============================================================================
