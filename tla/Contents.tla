------------------------------- MODULE Contents --------------------------------
(***************************************************************************)
(* What users keep in the database besides dashboards: annotations with    *)
(* their regions and tags, playlists, preferences, stars and snapshots,    *)
(* the search over them, and the service that removes what has expired.    *)
(*                                                                         *)
(* An action is one transaction of a request, or one statement where the   *)
(* code opens no transaction.  The tables of two topics have nothing in    *)
(* common but the dashboards, so a behaviour is about one topic.           *)
(***************************************************************************)
EXTENDS Integers, Sequences, FiniteSets, SequencesExt

CONSTANTS Procs,        \* the requests that may run at the same time
          Dashboards,   \* numbers, in the order of their titles
          Files,        \* the dashboards that are files, likewise
          Tags, DashTags, \* the tags of each dashboard
          RowLimit,     \* of the rows that a search reads, 1000 in the code
          Limits,       \* the limits that searches ask for
          Users,        \* the user ids of preferences; 0 stands for the organisation
          Nil,          \* a JSON field that the request does not have
          Topics,       \* what is looked at: "annotations", "playlists", "preferences",
                        \* "search" or "expiry"
          Panels,       \* the dashboards that annotations are on, and 0 for none
          MaxRequests,  \* bound on requests
          Lists         \* the lists that a playlist is saved with: items and their order

ASSUME ContentsAssumption == MaxRequests \in Nat /\ 0 \in Users /\ IsFiniteSet(Tags)

VARIABLES topic, made,  \* requests so far; the text or name that a request saves is its number
          req,          \* the requests in progress
          dashboards,
          annotation, annotation_tag, lastId,
          playlist, playlist_item,
          torn,         \* regions or playlists that overlapping, failed or killed requests share
          preferences, asked, star,
          index,        \* the files that the JSON index has read
          snapshot,     \* of each snapshot the hours until it expires, or Never
          image         \* of each rendered image its age

annotations == <<annotation, annotation_tag, lastId>>
playlists == <<playlist, playlist_item>>
personal == <<preferences, asked, star, index, snapshot, image>>
contentsVars == <<topic, made, req, dashboards, annotations, playlists, torn, personal>>

With(f, x, y) == [z \in DOMAIN f \cup {x} |-> IF z = x THEN y ELSE f[z]]
Idle == [at |-> "idle", id |-> 0]
Busy(id) == \E p \in Procs : req[p].at # "idle" /\ req[p].id = id
Torn(ids) == torn' = torn \cup ids

\* A request arrives, or takes its next step, or answers.
Arrives(p, t, r) ==
  /\ topic = t /\ req[p] = Idle /\ made < MaxRequests /\ made' = made + 1
  /\ req' = [req EXCEPT ![p] = r]
Moves(p, step) == req' = [req EXCEPT ![p].at = step] /\ UNCHANGED made
Answers(p) == req' = [req EXCEPT ![p] = Idle] /\ UNCHANGED made

\* A request of one transaction.
AtOnce(t) == topic = t /\ made < MaxRequests /\ made' = made + 1 /\ UNCHANGED req

OnlyAnnotations == UNCHANGED <<topic, dashboards, playlists, personal>>
OnlyPlaylists == UNCHANGED <<topic, dashboards, annotations, personal>>
OnlyPersonal == UNCHANGED <<topic, annotations, playlists, torn>>

-----------------------------------------------------------------------------
(* Annotations: a region is two rows, of which the first has its own id as *)
(* region_id                                                               *)

Row(id) == annotation[id]
InRegion(s) == { id \in DOMAIN annotation : Row(id).region = s }
Pairs(id, tags) == { <<id, t>> : t \in tags }

\* Save: the tags are never nil afterwards.
Save(r, side, region) ==
  LET all == IF r.tags = Nil THEN {} ELSE r.tags IN
  /\ lastId' = lastId + 1
  /\ annotation' = With(annotation, lastId',
       [text |-> r.v, side |-> side, region |-> region, dash |-> r.dash, tags |-> all])
  /\ annotation_tag' = annotation_tag \cup Pairs(lastId', all)

\* An update without tags leaves the rows of annotation_tag.
Tagged(id, tags) ==
  IF tags = Nil THEN annotation_tag
  ELSE { pair \in annotation_tag : pair[1] # id } \cup Pairs(id, tags)

Write(id, r, side, region) ==
  /\ annotation' = [annotation EXCEPT ![id] =
       [text |-> r.v, side |-> side, region |-> IF region # 0 THEN region ELSE @.region,
        dash |-> @.dash, tags |-> r.tags]]
  /\ annotation_tag' = Tagged(id, r.tags) /\ UNCHANGED lastId

\* PostAnnotation and PostGraphiteAnnotation, which has no dashboard: up to three transactions.
PostAnnotation(p, region, tags, dash) ==
  /\ Arrives(p, "annotations", [at |-> "save", id |-> 0, v |-> made + 1, region |-> region,
                                 tags |-> tags, dash |-> dash])
  /\ OnlyAnnotations /\ UNCHANGED <<annotations, torn>>

\* The first row; region_id is not known before it has an id.
SaveStart(p) ==
  LET r == req[p] IN
  /\ r.at = "save"
  /\ Save(r, "from", 0)
  /\ req' = [req EXCEPT ![p] = IF r.region
       THEN [r EXCEPT !.at = "mark", !.id = lastId', !.tags = IF @ = Nil THEN {} ELSE @]
       ELSE Idle]
  /\ OnlyAnnotations /\ UNCHANGED <<made, torn>>

MarkStart(p) ==
  LET r == req[p] IN
  /\ r.at = "mark"
  /\ IF r.id \in DOMAIN annotation
     THEN Write(r.id, r, "from", r.id) /\ Moves(p, "saveEnd")
     ELSE Answers(p) /\ UNCHANGED annotations
  /\ OnlyAnnotations /\ UNCHANGED torn

SaveEnd(p) ==
  LET r == req[p] IN
  /\ r.at = "saveEnd"
  /\ Save(r, "to", r.id)
  /\ Answers(p) /\ OnlyAnnotations /\ UNCHANGED torn

\* UpdateAnnotation, with the id and the region that the page shows.
UpdateAnnotation(p, id, tags) ==
  /\ id \in DOMAIN annotation /\ Row(id).region \in {0, id}
  /\ Arrives(p, "annotations", [at |-> "update", id |-> id, v |-> made + 1,
                                 region |-> Row(id).region = id, tags |-> tags])
  /\ Torn(IF Busy(id) THEN {id} ELSE {})
  /\ OnlyAnnotations /\ UNCHANGED annotations

UpdateStart(p) ==
  LET r == req[p] IN
  /\ r.at = "update"
  /\ IF r.id \in DOMAIN annotation
     THEN Write(r.id, r, "from", 0) /\ (IF r.region THEN Moves(p, "updateEnd") ELSE Answers(p))
     ELSE Answers(p) /\ UNCHANGED annotations
  /\ OnlyAnnotations /\ UNCHANGED torn

\* The row of the region that is not its start.
EndOf(s) == { id \in InRegion(s) : id # s }

UpdateEnd(p) ==
  LET r == req[p] IN
  /\ r.at = "updateEnd" /\ Answers(p) /\ OnlyAnnotations
  /\ \/ /\ EndOf(r.id) = {} /\ Torn({r.id}) /\ UNCHANGED annotations
     \/ \E id \in EndOf(r.id) : Write(id, r, "to", r.id) /\ UNCHANGED torn

\* Delete: by region, by id, or all of a panel.
Deletes(ids) ==
  /\ annotation' = Restrict(annotation, DOMAIN annotation \ ids)
  /\ UNCHANGED lastId
TagsLeft(ids) == { pair \in annotation_tag : pair[1] \notin ids }

Delete(ids) ==
  /\ ids # {} /\ AtOnce("annotations")
  /\ Deletes(ids) /\ annotation_tag' = TagsLeft(ids)
  /\ OnlyAnnotations

DeleteAnnotationRegion(s) == s # 0 /\ Delete(InRegion(s)) /\ Torn(IF Busy(s) THEN {s} ELSE {})
DeleteAnnotationById(id) == Delete({id} \cap DOMAIN annotation) /\ Torn({id, Row(id).region})
DeleteAnnotations(d) ==
  LET ids == { id \in DOMAIN annotation : Row(id).dash = d } IN
  Delete(ids) /\ Torn({ id \in ids : Busy(id) })

\* The dashboard and its annotations are deleted; the rows of annotation_tag stay.
DashboardAnnotations(d) ==
  LET ids == { id \in DOMAIN annotation : Row(id).dash = d } IN
  /\ d \in dashboards /\ AtOnce("annotations") /\ dashboards' = dashboards \ {d}
  /\ Deletes(ids) /\ Torn({ id \in ids : Busy(id) })
  /\ UNCHANGED <<topic, annotation_tag, playlists, personal>>

\* Find counts the rows of annotation_tag that are asked for.
Find(q) ==
  { id \in DOMAIN annotation : Cardinality({ pair \in annotation_tag : pair[1] = id /\ pair[2] \in q }) = Cardinality(q) }

AnnotationsNext ==
  \/ \E p \in Procs :
       \/ \E region \in BOOLEAN, tags \in {Nil} \cup { {t} : t \in Tags }, d \in Panels :
            PostAnnotation(p, region, tags, d)
       \/ SaveStart(p) \/ MarkStart(p) \/ SaveEnd(p)
       \/ \E id \in DOMAIN annotation, tags \in {Nil} \cup { {t} : t \in Tags } : UpdateAnnotation(p, id, tags)
       \/ UpdateStart(p) \/ UpdateEnd(p)
  \/ \E id \in DOMAIN annotation : DeleteAnnotationById(id) \/ DeleteAnnotationRegion(Row(id).region)
  \/ \E d \in Panels : DeleteAnnotations(d) \/ DashboardAnnotations(d)

-----------------------------------------------------------------------------
(* Search: the rows of the database, then the JSON index *)

ByTitle(ds) == SetToSortSeq(ds, LAMBDA d, e : d < e)
FirstN(s, n) == SubSeq(s, 1, IF n < Len(s) THEN n ELSE Len(s))

\* SearchDashboards: one row for each tag, or one without; the limit is on rows.
RowsOf(d) == IF DashTags[d] = {} THEN <<[dash |-> d, term |-> Nil]>>
             ELSE [i \in 1..Cardinality(DashTags[d]) |-> [dash |-> d, term |-> SetToSeq(DashTags[d])[i]]]
Rows(q) ==
  LET kept == { d \in dashboards : d \in q.titles /\ (q.starred => <<q.user, d>> \in star) } IN
  FlattenSeq([i \in 1..Cardinality(kept) |-> RowsOf(ByTitle(kept)[i])])

SearchDashboards(q) ==
  LET rows == FirstN(Rows(q), RowLimit) IN
  { [dash |-> d, tags |-> { row.term : row \in { r \in ToSet(rows) : r.dash = d } } \ {Nil}] :
      d \in { row.dash : row \in ToSet(rows) } }

\* JsonDashIndex.Search: up to one more than the limit, in the order of the paths.
IndexSearch(q) ==
  IF q.starred THEN {}
  ELSE { [dash |-> f, tags |-> DashTags[f]] : f \in ToSet(FirstN(ByTitle(index \cap q.titles), q.limit + 1)) }

\* Defect: the hits are cut to the limit before those without the tags are left out.
CutsFirst(q) ==
  LET hits == SearchDashboards(q) \cup IndexSearch(q)
      cut == ToSet(FirstN(ByTitle({ h.dash : h \in hits }), q.limit)) IN
  ByTitle({ h.dash : h \in { x \in hits : x.dash \in cut /\ q.tags \subseteq x.tags } })

searchHandler(q) ==
  LET hits == SearchDashboards(q) \cup IndexSearch(q) IN
  FirstN(ByTitle({ h.dash : h \in { x \in hits : q.tags \subseteq x.tags } }), q.limit)

\* updateIndex: a file that cannot be read leaves the index as it was.
updateIndex(files) == topic = "search" /\ index' = files /\ OnlyPersonal
                      /\ UNCHANGED <<made, req, dashboards, preferences, asked, star, snapshot, image>>

-----------------------------------------------------------------------------
(* Playlists: no transactions but in DeletePlaylist *)

Items(pl) == { item \in playlist_item : item.playlist = pl }
ItemRows(pl, items) ==
  { [playlist |-> pl, order |-> items[i].order, item |-> items[i].item] : i \in DOMAIN items }
WithRow(pl, row) == With(playlist, pl, row)

\* The items have the order that the request gives.  An error of the first
\* statement is overwritten, and the items are stored for a playlist 0.
CreatePlaylist(p, items) ==
  \E failed \in BOOLEAN :
    LET pl == IF failed THEN 0 ELSE lastId + 1 IN
    /\ Arrives(p, "playlists", [at |-> "insertItems", id |-> pl, v |-> made + 1, items |-> items])
    /\ IF failed THEN UNCHANGED <<playlist, lastId>>
       ELSE playlist' = WithRow(pl, items) /\ lastId' = pl
    /\ UNCHANGED <<topic, dashboards, annotation, annotation_tag, playlist_item, torn, personal>>

\* ValidateOrgPlaylist refuses a playlist that is gone, or that has no items.
ValidateOrgPlaylist(pl) == pl \in DOMAIN playlist /\ Items(pl) # {}

\* Other requests for a playlist that is being written share it.
Shares(pl) == Torn(IF Busy(pl) THEN {pl} ELSE {})

\* An update numbers the items itself.
Numbered(items) == [i \in DOMAIN items |-> [items[i] EXCEPT !.order = i]]

UpdatePlaylist(p, pl, items) ==
  /\ ValidateOrgPlaylist(pl) /\ Shares(pl)
  /\ Arrives(p, "playlists", [at |-> "updateRow", id |-> pl, v |-> made + 1, items |-> Numbered(items)])
  /\ OnlyPlaylists /\ UNCHANGED playlists

\* The check whether the playlist exists never says no, so an update goes on without it.
UpdateRow(p) ==
  LET r == req[p] IN
  /\ r.at = "updateRow" /\ Moves(p, "deleteItems")
  /\ playlist' = IF r.id \in DOMAIN playlist THEN WithRow(r.id, r.items) ELSE playlist
  /\ OnlyPlaylists /\ UNCHANGED <<playlist_item, torn>>

\* Defect: the items of the playlist that the new ones replace are kept.
ItemsKept(pl) == playlist_item

ItemsLeft(pl) == playlist_item \ Items(pl)

DeleteItems(p) ==
  /\ req[p].at = "deleteItems" /\ Moves(p, "insertItems")
  /\ playlist_item' = ItemsLeft(req[p].id)
  /\ OnlyPlaylists /\ UNCHANGED <<playlist, torn>>

InsertItems(p) ==
  /\ req[p].at = "insertItems" /\ Answers(p)
  /\ playlist_item' = playlist_item \cup ItemRows(req[p].id, req[p].items)
  /\ OnlyPlaylists /\ UNCHANGED <<playlist, torn>>

DeletePlaylist(p, pl) ==
  /\ ValidateOrgPlaylist(pl) /\ Shares(pl)
  /\ Arrives(p, "playlists", [at |-> "delete", id |-> pl])
  /\ OnlyPlaylists /\ UNCHANGED playlists

DeleteRows(p) ==
  LET pl == req[p].id IN
  /\ req[p].at = "delete" /\ Answers(p)
  /\ playlist' = Restrict(playlist, DOMAIN playlist \ {pl})
  /\ playlist_item' = playlist_item \ Items(pl)
  /\ OnlyPlaylists /\ UNCHANGED torn

\* populateDashboardsById.  A list has a dashboard once: the editor filters what
\* is in it (playlist_edit_ctrl).
PlayedById(items) ==
  LET places(d) == { i.order : i \in { x \in items : x.item = <<"id", d>> } } IN
  { [dash |-> d, order |-> CHOOSE n \in places(d) : \A k \in places(d) : k <= n] :
      d \in { e \in dashboards : places(e) # {} } }

Everything == [titles |-> Dashboards \cup Files, tags |-> {}, starred |-> FALSE, limit |-> 100, user |-> 0]

\* populateDashboardsByTag, which searches for each tag.
PlayedByTag(items) ==
  UNION { { [dash |-> d, order |-> i.order] :
              d \in ToSet(searchHandler([Everything EXCEPT !.tags = {i.item[2]}])) } :
            i \in { x \in items : x.item[1] = "tag" } }

\* Dashboards of one tag are played in any order.
LoadPlaylistDashboards(pl) == PlayedById(Items(pl)) \cup PlayedByTag(Items(pl))

PlaylistsNext ==
  \E p \in Procs :
    \/ \E items \in Lists : CreatePlaylist(p, items)
    \/ \E pl \in DOMAIN playlist :
         (\E items \in Lists : UpdatePlaylist(p, pl, items)) \/ DeletePlaylist(p, pl)
    \/ UpdateRow(p) \/ DeleteItems(p) \/ InsertItems(p) \/ DeleteRows(p)

-----------------------------------------------------------------------------
(* Preferences, stars, snapshots and rendered images *)

NoPrefs == [theme |-> "", home |-> 0]
Later(row, over) == [theme |-> IF over.theme # "" THEN over.theme ELSE row.theme,
                     home |-> IF over.home # 0 THEN over.home ELSE row.home]
Defaults == [theme |-> "default", home |-> 0]
PrefsOf(u) == IF u \in DOMAIN preferences THEN preferences[u] ELSE NoPrefs

\* The row of user 0 is the organisation's, and comes first.
GetPreferencesWithDefaults(u) == Later(Later(Defaults, PrefsOf(0)), PrefsOf(u))

\* All fields are written, also the ones that the request does not have.
SavePreferences(u, prefs) ==
  /\ AtOnce("preferences")
  /\ preferences' = With(preferences, u, prefs)
  /\ asked' = [asked EXCEPT ![u] = prefs]
  /\ OnlyPersonal /\ UNCHANGED <<dashboards, star, index, snapshot, image>>

\* The page of a home dashboard that is gone is the default one.
GetHomeDashboard(u) ==
  LET home == GetPreferencesWithDefaults(u).home IN IF home \in dashboards THEN home ELSE 0

\* A second star breaks the unique index, and is refused.
StarDashboard(u, d) ==
  /\ <<u, d>> \notin star /\ star' = star \cup {<<u, d>>} /\ AtOnce("search")
  /\ OnlyPersonal /\ UNCHANGED <<dashboards, preferences, asked, index, snapshot, image>>

UnstarDashboard(u, d) ==
  /\ <<u, d>> \in star /\ star' = star \ {<<u, d>>} /\ AtOnce("search")
  /\ OnlyPersonal /\ UNCHANGED <<dashboards, preferences, asked, index, snapshot, image>>

\* The preferences that name the dashboard are left; the playlists lose it, but
\* for those whose items are about to be stored.
DeleteDashboard(d) ==
  /\ topic \in {"playlists", "preferences", "search"} /\ d \in dashboards /\ dashboards' = dashboards \ {d}
  /\ star' = { s \in star : s[2] # d }
  /\ playlist_item' = { row \in playlist_item : row.item # <<"id", d>> }
  /\ UNCHANGED <<topic, made, req, annotations, playlist, torn, preferences, asked, index, snapshot, image>>

Never == 9
CreateDashboardSnapshot(hours) ==
  /\ AtOnce("expiry") /\ snapshot' = With(snapshot, made', hours)
  /\ OnlyPersonal /\ UNCHANGED <<dashboards, preferences, asked, star, index, image>>

\* By the delete key.
DeleteDashboardSnapshot(i) ==
  /\ AtOnce("expiry") /\ snapshot' = Restrict(snapshot, DOMAIN snapshot \ {i})
  /\ OnlyPersonal /\ UNCHANGED <<dashboards, preferences, asked, star, index, image>>

RenderToPng ==
  /\ AtOnce("expiry") /\ image' = With(image, made', 0)
  /\ OnlyPersonal /\ UNCHANGED <<dashboards, preferences, asked, star, index, snapshot>>

Day == 2      \* the age, in ticks of the clock, from which an image may go

\* Defect: images are kept that a day has passed over.
YoungerGo(age) == age < Day

TooOld(age) == age > Day

\* DeleteExpiredSnapshots passes the function time.Now, not the time: the statement
\* fails, and the service does not look at the error.
Expired(hours) == FALSE

\* What the clean-up service does every ten minutes.
CleanUp ==
  /\ topic = "expiry"
  /\ image' = Restrict(image, { i \in DOMAIN image : ~TooOld(image[i]) })
  /\ snapshot' = Restrict(snapshot, { i \in DOMAIN snapshot : ~Expired(snapshot[i]) })
  /\ OnlyPersonal /\ UNCHANGED <<made, req, dashboards, preferences, asked, star, index>>

Tick ==
  /\ topic = "expiry"
  /\ image' = [i \in DOMAIN image |-> IF image[i] > Day THEN image[i] ELSE image[i] + 1]
  /\ snapshot' = [i \in DOMAIN snapshot |-> IF snapshot[i] \in {0, Never} THEN snapshot[i] ELSE snapshot[i] - 1]
  /\ OnlyPersonal /\ UNCHANGED <<made, req, dashboards, preferences, asked, star, index>>

Themes == {"", "dark", "light"}
PersonalNext ==
  \/ \E u \in Users : \E theme \in Themes, home \in dashboards \cup {0} :
       SavePreferences(u, [theme |-> theme, home |-> home])
  \/ \E u \in Users \ {0}, d \in dashboards : StarDashboard(u, d) \/ UnstarDashboard(u, d)
  \/ \E d \in dashboards : DeleteDashboard(d)
  \/ \E files \in SUBSET Files : updateIndex(files)
  \/ \E hours \in {1, Never} : CreateDashboardSnapshot(hours)
  \/ \E i \in DOMAIN snapshot : DeleteDashboardSnapshot(i)
  \/ RenderToPng \/ CleanUp \/ Tick

\* The process ends: what its requests have not written is not written.
Killed ==
  /\ \E p \in Procs : req[p] # Idle
  /\ req' = [p \in Procs |-> Idle] /\ Torn({ req[p].id : p \in Procs } \ {0})
  /\ UNCHANGED <<topic, made, dashboards, annotations, playlists, personal>>

ContentsInit ==
  /\ topic \in Topics /\ made = 0 /\ req = [p \in Procs |-> Idle] /\ dashboards = Dashboards
  /\ annotation = <<>> /\ annotation_tag = {} /\ lastId = 0 /\ torn = {}
  /\ playlist = <<>> /\ playlist_item = {}
  /\ preferences = <<>> /\ asked = [u \in Users |-> NoPrefs] /\ star = {} /\ index = {}
  /\ snapshot = <<>> /\ image = <<>>

ContentsNext == AnnotationsNext \/ PlaylistsNext \/ PersonalNext \/ Killed

\* The service's ticker and the clock go on; nothing else has to.
ContentsSpec ==
  /\ ContentsInit /\ [][ContentsNext]_contentsVars
  /\ WF_contentsVars(CleanUp) /\ WF_contentsVars(Tick)

-----------------------------------------------------------------------------
(* Properties *)

\* A region has two rows, that say the same, and the first begins it: the transactions
\* of PostAnnotation and UpdateAnnotation leave it so when nothing comes between them,
\* and one that a deletion or an overlapping request tears apart is not counted.
RegionsWhole ==
  \A s \in { Row(id).region : id \in DOMAIN annotation } \ {0} :
    Busy(s) \/ s \in torn \/
      /\ s \in InRegion(s) /\ Cardinality(EndOf(s)) = 1 /\ Row(s).side = "from"
      /\ \A e \in EndOf(s) : Row(e).side = "to" /\ Row(e).text = Row(s).text /\ Row(e).tags = Row(s).tags

\* The annotations that a search for tags finds are those that show all of them, except
\* one that was updated without tags.
TagsFound ==
  \A id \in DOMAIN annotation, q \in (SUBSET Tags) \ {{}} : Row(id).tags # Nil =>
    (id \in Find(q) <=> q \subseteq Row(id).tags)

Gone(row) == \E d \in Dashboards \ dashboards : row.item = <<"id", d>>
HasItems(pl) ==
  LET saved == ItemRows(pl, playlist[pl]) IN
  Items(pl) \subseteq saved /\ \A row \in saved \ Items(pl) : Gone(row)

\* The items of a playlist are those that it was last saved with, each at its place,
\* and none is missing but of a dashboard that is gone: an update is three statements
\* without a transaction, the deletion of a dashboard comes between them, and a
\* playlist that overlapping requests wrote, or that one wrote in part, is not counted.
ItemsSaved == \A pl \in DOMAIN playlist : Busy(pl) \/ pl \in torn \/ HasItems(pl)

\* A playlist plays the dashboards that it was last saved with, each at its place and
\* without those that are gone, unless requests have shared it or one was cut off.
PlaysWhatWasSaved ==
  \A pl \in DOMAIN playlist : Busy(pl) \/ pl \in torn \/ Len(Rows(Everything)) > RowLimit \/
    LoadPlaylistDashboards(pl) =
      UNION { { [dash |-> d, order |-> i.order] : d \in { e \in dashboards :
          i.item = <<"id", e>> \/ (i.item[1] = "tag" /\ i.item[2] \in DashTags[e]) } } :
        i \in Range(playlist[pl]) }

\* What a user sees is what he last saved, then what the organisation did, then the
\* default, and the home dashboard is one that exists.
LastSaveShown ==
  \A u \in Users \ {0} :
    LET shown == GetPreferencesWithDefaults(u)
        first(mine, ours, none) == IF mine # none THEN mine ELSE ours IN
    /\ shown.home = first(asked[u].home, asked[0].home, 0)
    /\ shown.theme = first(first(asked[u].theme, asked[0].theme, ""), "default", "")
    /\ GetHomeDashboard(u) \in dashboards \cup {0}

\* A search finds the first dashboards and files of those that match, by title, as long
\* as there are fewer rows than the statement reads and no more files than the limit.
SearchesFind ==
  topic = "search" => \A u \in Users \ {0}, titles \in {Dashboards \cup Files, {1, 2, 5}}, tags \in SUBSET Tags,
     starred \in BOOLEAN, limit \in Limits :
    LET q == [user |-> u, titles |-> titles, tags |-> tags, starred |-> starred, limit |-> limit]
        match == { d \in (dashboards \cup index) \cap titles :
                     tags \subseteq DashTags[d] /\ (starred => <<u, d>> \in star) } IN
    Len(Rows(q)) <= RowLimit /\ Cardinality(index) <= limit + 1 => searchHandler(q) = FirstN(ByTitle(match), limit)

\* What was saved is what is shown, of annotations, playlists and preferences.
ShownAsSaved == RegionsWhole /\ TagsFound /\ ItemsSaved /\ LastSaveShown

\* Whoever searches finds all there is: a user, and a playlist that is played.
SearchFindsAll == SearchesFind /\ PlaysWhatWasSaved

\* A rendered image is kept for a day, and then goes.
ImagesGo ==
  /\ [][\A i \in DOMAIN image \ DOMAIN image' : image[i] > Day]_image
  /\ \A i \in 1..MaxRequests : i \in DOMAIN image ~> i \notin DOMAIN image
=============================================================================
