------------------------------ MODULE Migrations ------------------------------
(***************************************************************************)
(* The migrations of the database at start-up (services/sqlstore: migrator *)
(* and migrations).  A table is the columns and indexes that migrations    *)
(* give it one by one, and whether it holds the rows that users made; each *)
(* migration is a record, and the migrator runs those that its log does    *)
(* not name.  The process may be killed at any point.                      *)
(***************************************************************************)
EXTENDS Integers, FiniteSets, Sequences, SequencesExt

CONSTANTS MaxStarts,    \* bound on starts of the process
          Servers       \* databases: [driver, found]; found says that
                        \* TableCheckSql looks in the schema that is used

ASSUME MigrationsAssumption ==
  /\ MaxStarts \in Nat \ {0}
  /\ Servers \subseteq [driver : {"sqlite3", "mysql", "postgres"}, found : BOOLEAN]

VARIABLES server,     \* the database
          upgraded,   \* its tables are of before accounts became organisations
          tables,     \* [cols, indexes, rows] by name
          log,        \* migration_log: ids that succeeded
          phase,      \* "down", "migrating", "logging", "admin", "running", "failed"
          todo,       \* the migrations that are left of this start
          starts,
          cut         \* what was done when a kill came before its log entry

migrationsVars == <<server, upgraded, tables, log, phase, todo, starts, cut>>

-----------------------------------------------------------------------------
(* Migrations.  An id is a list of words; the words are shorter than those *)
(* of the code, but two ids are the same where the code's are.             *)

M(id, op, table, arg) ==
  [id |-> id, op |-> op, table |-> table, arg |-> arg, old |-> FALSE, onlyIf |-> ""]

AddTable(t, v) == M(<<"create", t, v>>, "create", t, "")
AddIndex(t, v, cols) == M(<<"index", t, v, cols>>, "index", t, cols)
DropIndex(t, v, cols) == M(<<"drop index", t, v, cols>>, "drop index", t, cols)
AddColumn(t, c) == M(<<"column", t, c>>, "column", t, c)
RenameTable(t, to) == M(<<"rename", t, to>>, "rename", t, to)
DropTable(t, v) == M(<<"drop", t, v>>, "drop", t, "")
Charset(t) == M(<<"charset", t>>, "charset", t, "")
RawSql(t, what) == M(<<what, t>>, "raw", t, what)
CopyNamed(id, to, from) == M(id, "copy", to, from)
CopyTableData(to, from) == CopyNamed(<<"copy", to>>, to, from)
IfTableExists(m, t) == [m EXCEPT !.onlyIf = t]

addTableIndices(t, v, indexes) == [i \in DOMAIN indexes |-> AddIndex(t, v, indexes[i])]
addDropAllIndices(t, v, indexes) == [i \in DOMAIN indexes |-> DropIndex(t, v, indexes[i])]

\* A table as it was before; its migrations are in the log of an old database.
Old(ms) == [i \in DOMAIN ms |-> [ms[i] EXCEPT !.old = TRUE]]

\* The first table is renamed, made anew and copied.
Version1(t, indexes) == Old(<<AddTable(t, "v1")>> \o addTableIndices(t, "v1", indexes))
RenameAway(t, indexes) == addDropAllIndices(t, "v1", indexes) \o <<RenameTable(t, t \o "_v1")>>
Version2(t, indexes) == <<AddTable(t, "v2")>> \o addTableIndices(t, "v2", indexes)
MoveRows(t, id) == <<CopyNamed(id, t, t \o "_v1"), DropTable(t \o "_v1", "v1")>>

addMigrationLogMigrations == Old(<<AddTable("migration_log", "v1")>>)

\* Defect: the old indexes keep their names, which the new ones get too.
UserMigrationsKeepIndexes ==
  Version1("user", <<"login", "email">>) \o <<RenameTable("user", "user_v1")>>
  \o Version2("user", <<"login", "email">>)
  \o MoveRows("user", <<"copy data_source v1 to v2">>)
  \o << AddColumn("user", "help_flags1"), Charset("user"), AddColumn("user", "last_seen_at") >>

\* The copy has the id of the copy of data_source.
addUserMigrations ==
  Version1("user", <<"login", "email">>) \o RenameAway("user", <<"login", "email">>)
  \o Version2("user", <<"login", "email">>)
  \o MoveRows("user", <<"copy data_source v1 to v2">>)
  \o << AddColumn("user", "help_flags1"), Charset("user"), AddColumn("user", "last_seen_at") >>

addTempUserMigrations ==
  <<AddTable("temp_user", "v1-7")>>
  \o addTableIndices("temp_user", "v1-7", <<"email", "org_id", "code", "status">>)
  \o <<Charset("temp_user")>>

addStarMigrations ==
  Old(<<AddTable("star", "v1"), AddIndex("star", "v1", "user_id_dashboard_id")>>)

addOrgMigrations ==
  <<AddTable("org", "v1"), AddIndex("org", "v1", "name"), AddTable("org_user", "v1")>>
  \o addTableIndices("org_user", "v1", <<"org_id", "org_id_user_id">>)
  \o << IfTableExists(CopyTableData("org", "account"), "account"),
        IfTableExists(CopyTableData("org_user", "account_user"), "account_user"),
        DropTable("account", "v1"), DropTable("account_user", "v1"),
        Charset("org"), Charset("org_user") >>

\* The indexes of the tags are dropped and not made again; those of the old
\* dashboards go with the table.
addDashboardMigration ==
  Version1("dashboard", <<"account_id", "account_id_slug">>)
  \o Version1("dashboard_tag", <<"dashboard_id_term">>)
  \o addDropAllIndices("dashboard_tag", "v1", <<"dashboard_id_term">>)
  \o << RenameTable("dashboard", "dashboard_v1") >>
  \o Version2("dashboard", <<"org_id", "org_id_slug">>)
  \o MoveRows("dashboard", <<"copy", "dashboard">>)
  \o << RawSql("dashboard", "mediumtext"), AddColumn("dashboard", "updated_by"),
        AddColumn("dashboard", "created_by"), AddColumn("dashboard", "gnet_id"),
        AddIndex("dashboard", "v2", "gnet_id"), AddColumn("dashboard", "plugin_id"),
        AddIndex("dashboard", "v2", "org_id_plugin_id"), AddIndex("dashboard_tag", "v2", "dashboard_id"),
        Charset("dashboard"), Charset("dashboard_tag") >>

addDataSourceMigration ==
  Version1("data_source", <<"account_id", "account_id_name">>)
  \o RenameAway("data_source", <<"account_id", "account_id_name">>)
  \o Version2("data_source", <<"org_id", "org_id_name">>)
  \o MoveRows("data_source", <<"copy data_source v1 to v2">>)
  \o << AddColumn("data_source", "with_credentials"), AddColumn("data_source", "secure_json_data"),
        Charset("data_source"), RawSql("data_source", "version 1"), AddColumn("data_source", "read_only") >>

addApiKeyMigrations ==
  Version1("api_key", <<"account_id", "key", "account_id_name">>)
  \o RenameAway("api_key", <<"account_id", "key", "account_id_name">>)
  \o Version2("api_key", <<"org_id", "key", "org_id_name">>)
  \o MoveRows("api_key", <<"copy", "api_key">>) \o <<Charset("api_key")>>

addDashboardSnapshotMigrations ==
  <<AddTable("dashboard_snapshot", "v4"), DropTable("dashboard_snapshot", "v4"), AddTable("dashboard_snapshot", "v5")>>
  \o addTableIndices("dashboard_snapshot", "v5", <<"key", "delete_key", "user_id">>)
  \o <<RawSql("dashboard_snapshot", "mediumtext"), Charset("dashboard_snapshot")>>

addQuotaMigration ==
  <<AddTable("quota", "v1"), AddIndex("quota", "v1", "org_id_user_id_target"), Charset("quota")>>

addAppSettingsMigration ==
  << AddTable("plugin_setting", "v1"), AddIndex("plugin_setting", "v1", "org_id_plugin_id"),
     AddColumn("plugin_setting", "plugin_version"), Charset("plugin_setting") >>

addSessionMigration == <<AddTable("session", "v1")>>

addPlaylistMigrations ==
  << DropTable("playlist", "v1"), DropTable("playlist_item", "v1"), AddTable("playlist", "v2"),
     AddTable("playlist_item", "v2"), Charset("playlist"), Charset("playlist_item") >>

addPreferencesMigrations ==
  << DropTable("preferences", "v2"), DropTable("preferences", "v3"), AddTable("preferences", "v3"),
     Charset("preferences") >>

addAlertMigrations ==
  <<AddTable("alert", "v1")>>
  \o addTableIndices("alert", "v1", <<"org_id_id", "state", "dashboard_id">>)
  \o << AddTable("alert_notification", "v1"), AddColumn("alert_notification", "is_default"),
        AddIndex("alert_notification", "v1", "org_id_name"),
        Charset("alert"), Charset("alert_notification") >>

addAnnotationMig ==
  <<DropTable("annotation", "v4"), AddTable("annotation", "v5")>>
  \o addTableIndices("annotation", "v3",
       <<"org_id_alert_id", "org_id_type", "org_id_category_id", "panel_epoch", "org_id_epoch">>)
  \o << Charset("annotation"), AddColumn("annotation", "region_id"),
        DropIndex("annotation", "v3", "org_id_category_id"), AddColumn("annotation", "tags"),
        AddTable("annotation_tag", "v2"), AddIndex("annotation_tag", "v2", "annotation_id_tag_id"),
        RawSql("annotation", "clear text") >>

addTestDataMigrations == <<AddTable("test_data", "v1")>>

addDashboardVersionMigration ==
  <<AddTable("dashboard_version", "v1")>>
  \o addTableIndices("dashboard_version", "v1", <<"dashboard_id", "dashboard_id_version">>)
  \o << RawSql("dashboard", "version 1"), CopyTableData("dashboard_version", "dashboard"),
        RawSql("dashboard_version", "mediumtext") >>

addTagMigration == <<AddTable("tag", "v1"), AddIndex("tag", "v1", "key_value")>>

AddMigrations ==
  addMigrationLogMigrations \o addUserMigrations \o addTempUserMigrations
  \o addStarMigrations \o addOrgMigrations \o addDashboardMigration
  \o addDataSourceMigration \o addApiKeyMigrations \o addDashboardSnapshotMigrations
  \o addQuotaMigration \o addAppSettingsMigration \o addSessionMigration
  \o addPlaylistMigrations \o addPreferencesMigrations \o addAlertMigrations
  \o addAnnotationMig \o addTestDataMigrations \o addDashboardVersionMigration
  \o addTagMigration

-----------------------------------------------------------------------------
(* What a migration does to the tables *)

NoTable == [cols |-> {}, indexes |-> {}, rows |-> FALSE]
Exists(db, t) == t \in DOMAIN db
With(db, t, table) == [x \in DOMAIN db \cup {t} |-> IF x = t THEN table ELSE db[x]]
Without(db, t) == [x \in DOMAIN db \ {t} |-> db[x]]

\* An index keeps its name when its table is renamed.  Names are unique in the
\* database, except on MySQL, where they are unique in the table.
NamesInUse(db, t) ==
  UNION { db[x].indexes : x \in IF server.driver = "mysql" THEN {t} ELSE DOMAIN db }

Applied(m, db) ==
  LET t == m.table IN
  CASE m.op = "create" /\ ~Exists(db, t) -> With(db, t, NoTable)
    [] m.op = "index" -> [db EXCEPT ![t].indexes = @ \cup {<<t, m.arg>>}]
    [] m.op = "drop index" -> [db EXCEPT ![t].indexes = @ \ {<<t, m.arg>>}]
    [] m.op = "column" -> [db EXCEPT ![t].cols = @ \cup {m.arg}]
    [] m.op = "rename" -> With(Without(db, t), m.arg, db[t])
    [] m.op = "drop" -> Without(db, t)
    [] m.op = "copy" -> [db EXCEPT ![t].rows = @ \/ db[m.arg].rows]
    [] OTHER -> db

\* Copies carry the ids, which collide with those of rows that are there.
Succeeds(m) ==
  LET t == m.table IN
  CASE m.op \in {"create", "drop"} -> TRUE
    [] m.op = "index" -> Exists(tables, t) /\ <<t, m.arg>> \notin NamesInUse(tables, t)
    [] m.op = "drop index" -> Exists(tables, t) /\ <<t, m.arg>> \in tables[t].indexes
    [] m.op = "column" -> Exists(tables, t) /\ m.arg \notin tables[t].cols
    [] m.op = "rename" -> Exists(tables, t) /\ ~Exists(tables, m.arg)
    [] m.op = "copy" -> Exists(tables, t) /\ Exists(tables, m.arg)
                        /\ ~(tables[t].rows /\ tables[m.arg].rows)
    [] OTHER -> Exists(tables, t)

\* TableCheckSql of MySQL and Postgres looks in the schema "grafana".
Fulfilled(m) == m.onlyIf = "" \/ (server.found /\ Exists(tables, m.onlyIf))

\* MySQL commits before and after a statement that changes the schema.
Autocommits(m) ==
  server.driver = "mysql" /\ (m.arg = "mediumtext" \/ m.op \notin {"copy", "raw"})

-----------------------------------------------------------------------------
OldMigrations == SelectSeq(AddMigrations, LAMBDA m : m.old)
NoTables == [t \in {} |-> NoTable]

\* An old database holds rows of everything.
OldTables ==
  LET made == FoldLeft(LAMBDA db, m : Applied(m, db), NoTables, OldMigrations) IN
  [t \in DOMAIN made \cup {"account", "account_user"} |->
     [(IF t \in DOMAIN made THEN made[t] ELSE NoTable) EXCEPT !.rows = TRUE]]

MigrationsInit ==
  /\ server \in Servers
  /\ upgraded \in BOOLEAN
  /\ tables = IF upgraded THEN OldTables ELSE NoTables
  /\ log = IF upgraded THEN {m.id : m \in ToSet(OldMigrations)} ELSE {}
  /\ phase = "down" /\ todo = <<>> /\ starts = 0 /\ cut = {}

\* The log is read once: a migration is not skipped for the one before it of the
\* same id, unless that one was of an earlier start.
Start ==
  /\ phase \in {"down", "failed"} /\ starts < MaxStarts
  /\ todo' = SelectSeq(AddMigrations, LAMBDA m : m.id \notin log)
  /\ phase' = "migrating" /\ starts' = starts + 1
  /\ UNCHANGED <<server, upgraded, tables, log, cut>>

\* Defect: the log entry is written before the statement is executed.
LogsFirst(step, m) ==
  CASE step = "log"  -> tables' = Applied(m, tables) /\ UNCHANGED log
    [] step = "exec" -> log' = log \cup {m.id} /\ UNCHANGED tables
    [] step = "both" -> log' = log \cup {m.id} /\ tables' = Applied(m, tables)

\* The statement, and the log entry after it.
Do(step, m) ==
  CASE step = "exec" -> tables' = Applied(m, tables) /\ UNCHANGED log
    [] step = "log"  -> log' = log \cup {m.id} /\ UNCHANGED tables
    [] step = "both" -> log' = log \cup {m.id} /\ tables' = Applied(m, tables)

\* The rollback of a migration whose condition is not fulfilled ends the
\* transaction, and its log entry is not written: it is tried at every start.
Skip ==
  /\ phase = "migrating" /\ todo # <<>> /\ ~Fulfilled(Head(todo))
  /\ todo' = Tail(todo)
  /\ UNCHANGED <<server, upgraded, tables, log, phase, starts, cut>>

\* One transaction; on MySQL its statement is committed before the log entry is.
Exec ==
  /\ phase = "migrating" /\ todo # <<>>
  /\ Fulfilled(Head(todo)) /\ Succeeds(Head(todo))
  /\ IF Autocommits(Head(todo))
     THEN Do("exec", Head(todo)) /\ phase' = "logging" /\ UNCHANGED todo
     ELSE Do("both", Head(todo)) /\ todo' = Tail(todo) /\ UNCHANGED phase
  /\ UNCHANGED <<server, upgraded, starts, cut>>

Log ==
  /\ phase = "logging"
  /\ Do("log", Head(todo))
  /\ phase' = "migrating" /\ todo' = Tail(todo)
  /\ UNCHANGED <<server, upgraded, starts, cut>>

\* The transaction is rolled back and the process exits.
Fail ==
  /\ phase = "migrating" /\ todo # <<>>
  /\ Fulfilled(Head(todo)) /\ ~Succeeds(Head(todo))
  /\ phase' = "failed"
  /\ UNCHANGED <<server, upgraded, tables, log, todo, starts, cut>>

GetSystemStats == [Users |-> tables["user"].rows]

\* The first user comes with an organisation.
EnsureAdminUser ==
  /\ phase = "migrating" /\ todo = <<>>
  /\ tables' = IF GetSystemStats.Users THEN tables
               ELSE [t \in DOMAIN tables |-> [tables[t] EXCEPT
                       !.rows = @ \/ t \in {"user", "org", "org_user"}]]
  /\ phase' = "running"
  /\ UNCHANGED <<server, upgraded, log, todo, starts, cut>>

\* The process is killed, with a start to come.
Kill ==
  /\ phase \in {"migrating", "logging", "running"} /\ starts < MaxStarts
  /\ phase' = "down" /\ todo' = <<>>
  /\ cut' = cut \cup { c \in {"unlogged", "twin"} :
                         IF c = "unlogged" THEN phase = "logging"
                         ELSE \E i \in DOMAIN todo : todo[i].id \in log }
  /\ UNCHANGED <<server, upgraded, tables, log, starts>>

MigrationsNext == Start \/ Skip \/ Exec \/ Log \/ Fail \/ EnsureAdminUser \/ Kill

MigrationsSpec ==
  /\ MigrationsInit /\ [][MigrationsNext]_migrationsVars
  /\ WF_migrationsVars(Start \/ Skip \/ Exec \/ Log \/ Fail \/ EnsureAdminUser)

-----------------------------------------------------------------------------
(* Properties *)

Schema(db) == [t \in DOMAIN db |-> {<<t, c>> : c \in db[t].cols} \cup db[t].indexes]

\* A table, index or column that a migration makes and no later one takes away.
Stays(i) ==
  \A j \in i + 1 .. Len(AddMigrations) :
    LET m == AddMigrations[i] later == AddMigrations[j] IN
    ~(later.table = m.table /\ \/ later.op \in {"drop", "rename"}
                               \/ later.op = "drop index" /\ later.arg = m.arg)

Made(op) == { i \in DOMAIN AddMigrations : AddMigrations[i].op = op /\ Stays(i) }

WholeSchema ==
  [t \in { AddMigrations[i].table : i \in Made("create") } |->
     { <<t, AddMigrations[i].arg>> :
         i \in { i \in Made("column") \cup Made("index") : AddMigrations[i].table = t } }]

\* The schema of a server that runs is the one that the migrations add up to: no
\* migration is lost to a start that was killed, and none of an old database
\* leaves its tables different from new ones.
SchemaComplete == phase = "running" => Schema(tables) = WholeSchema

\* What users made before an upgrade is there after it, however often the start
\* was killed; except the data sources when it was killed before their copy but
\* after the copy of the users, which has its id, and except the accounts where
\* the condition of their copies looks in another schema.
RowsKept ==
  (phase = "running" /\ upgraded) =>
    \A t \in {"user", "dashboard", "dashboard_tag", "star", "data_source", "api_key",
              "org", "org_user", "dashboard_version"} :
      \/ tables[t].rows
      \/ t = "data_source" /\ "twin" \in cut
      \/ t \in {"org", "org_user"} /\ ~server.found

\* Schema and rows of a server that runs are what an upgrade is to leave.
Migrated == SchemaComplete /\ RowsKept

\* The server gets through its migrations in the end, unless MySQL was cut off
\* between a statement and its log entry.
EventuallyStarts == starts > 0 ~> (phase = "running" \/ "unlogged" \in cut)
=============================================================================
