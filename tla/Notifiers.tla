----------------------------- MODULE Notifiers -----------------------------
(***************************************************************************)
(* Alert notification channels and what they send: the table               *)
(* alert_notification, the choice of the notifiers for a state change, the *)
(* image, the goroutines of the notifiers (services/alerting/notifiers) and*)
(* the effect of their messages on the services that keep incidents.  An   *)
(* announcement is made one at a time: those of two alerts share nothing   *)
(* but the services.                                                       *)
(***************************************************************************)
EXTENDS Integers, FiniteSets, TLC

CONSTANTS Ids,         \* rows of alert_notification
          Alerts,      \* alerts; TestAlert is the one of a test message
          TestAlert,
          Channels,    \* contents of a row: type and settings
          Chosen,      \* contents of the rows to start from
          Linked,      \* the channels that the rule of an alert names
          Namings,     \* names and texts that the rules may have
          Underscored, \* a name with "_" for every space
          Addresses,   \* receivers of a mail
          MaxRounds, MaxEdits   \* bounds

ASSUME ChannelsAssumption ==
  /\ IsFiniteSet(Ids) /\ TestAlert \notin Alerts
  /\ Linked \in [Alerts -> SUBSET Ids] /\ \A r \in Chosen : DOMAIN r = Ids
  /\ \A r \in Namings : DOMAIN r = Alerts \cup {TestAlert}
  /\ {MaxRounds, MaxEdits, Addresses} \subseteq Nat

VARIABLES rows,      \* table alert_notification
          rules,     \* name and text of the rules in the schedule
          announced, \* state of each alert
          round,     \* the announcement being made
          steps,     \* what each notifier's goroutine does next
          slug,      \* EvalContext.dashboardSlug is known
          disk, public,  \* EvalContext.ImageOnDiskPath, ImagePublicUrl
          embedded,  \* images put into mails in this round
          tried,     \* channels that have sent in this round
          open,      \* incidents that the services show
          stranded,  \* incidents of a name that their rule has given up
          told,      \* channels that got the last announcement of an alert
          answer,    \* what a test message returned, and what became of it
          crashed, rounds, edits

work == <<round, steps, slug, disk, public, embedded, tried>>
notifiersVars == <<rows, rules, announced, work, open, stranded, told, answer, crashed, rounds, edits>>

NoRow == [type |-> "none"]
Idle == [phase |-> "idle", alert |-> TestAlert, state |-> "alerting", image |-> ""]
States == {"ok", "alerting", "no_data"}

Due(a) == {n \in Ids : rows[n] # NoRow /\ (rows[n].default \/ n \in Linked[a])}
Busy == round.phase # "idle"

-----------------------------------------------------------------------------
(* The notifiers: what Notify sends.  "nothing" is sent for a state that a *)
(* notifier leaves out; a trigger opens the incident with the key, a       *)
(* resolve closes it, a note does neither.                                 *)

NoKey == [source |-> "", name |-> ""]
Nothing == [event |-> "nothing", key |-> NoKey, url |-> FALSE]
Note == [event |-> "note", key |-> NoKey, url |-> FALSE]
\* The notifier returns an error unless it knows the link to the dashboard.
WithUrl(m) == [m EXCEPT !.url = TRUE]

dingding == Note
email == WithUrl(Note)
hipchat == WithUrl(Note)
kafka == WithUrl(Note)        \* incident_key, but no state
line(s) == IF s = "alerting" THEN WithUrl(Note) ELSE Nothing
pushover == WithUrl(Note)
slack == WithUrl(Note)
teams == WithUrl(Note)
telegram == Note
threema == Note
webhook == Note

OfAlert(a) == [source |-> a, name |-> ""]

\* autoClose; an alert is closed without a link, and not updated for no_data
opsgenie(c, s, a) ==
  CASE s = "alerting" -> [event |-> "trigger", key |-> OfAlert(a), url |-> TRUE]
    [] s = "ok" /\ c.auto -> [event |-> "resolve", key |-> OfAlert(a), url |-> FALSE]
    [] OTHER -> Nothing

pagerduty(c, s, a) ==
  IF s = "ok" /\ ~ c.auto THEN Nothing
  ELSE [event |-> IF s = "ok" THEN "resolve" ELSE "trigger", key |-> OfAlert(a), url |-> TRUE]

\* A check of a source, which is the user's or else the rule; 0 resolves it.
sensu(c, s, a, name) ==
  [event |-> IF s = "ok" THEN "resolve" ELSE "trigger",
   key |-> [source |-> IF c.source # "" THEN c.source ELSE a, name |-> Underscored[name]],
   url |-> FALSE]

\* Defect: the state is passed on as it is, and VictorOps knows no "ok".
victoropsVerbatim(c, s, name) ==
  IF s = "ok" /\ ~ c.auto THEN [Nothing EXCEPT !.url = TRUE]
  ELSE [event |-> "trigger", key |-> [source |-> "", name |-> name], url |-> TRUE]

\* The entity is the name of the rule.
victorops(c, s, name) ==
  IF s = "ok" /\ ~ c.auto THEN [Nothing EXCEPT !.url = TRUE]
  ELSE [event |-> IF s = "ok" THEN "resolve" ELSE "trigger", key |-> [source |-> "", name |-> name], url |-> TRUE]

Message(c, s, a) ==
  CASE c.type = "dingding" -> dingding [] c.type = "email" -> email
    [] c.type = "hipchat" -> hipchat   [] c.type = "kafka" -> kafka
    [] c.type = "LINE" -> line(s)      [] c.type = "opsgenie" -> opsgenie(c, s, a)
    [] c.type = "pagerduty" -> pagerduty(c, s, a)
    [] c.type = "pushover" -> pushover [] c.type = "sensu" -> sensu(c, s, a, rules[a].name)
    [] c.type = "slack" -> slack       [] c.type = "teams" -> teams
    [] c.type = "telegram" -> telegram [] c.type = "threema" -> threema
    [] c.type = "victorops" -> victorops(c, s, rules[a].name)
    [] c.type = "webhook" -> webhook

\* DingDing's body is made by concatenation; when the text of the rule
\* breaks it, the body is nil and is used.
Panics(c, a) == c.type = "dingding" /\ rules[a].breaks

-----------------------------------------------------------------------------
(* The table.  The goroutines of an announcement have copies of their rows,*)
(* so that an edit falls between two announcements.                        *)

Edit(n, c) ==
  /\ edits < MaxEdits /\ edits' = edits + 1
  /\ rows' = [rows EXCEPT ![n] = c]
  /\ told' = [a \in Alerts |-> told[a] \ {n}]
  /\ open' = {i \in open : i[1] # n}      \* another account, from now on
  /\ stranded' = stranded \cap open'
  /\ UNCHANGED <<rules, announced, work, answer, crashed, rounds>>

\* No other channel of the organisation may have the name.
CreateAlertNotificationCommand(n) ==
  /\ rows[n] = NoRow
  /\ \E c \in Channels : Edit(n, c)

UpdateAlertNotification(n) ==
  /\ rows[n] # NoRow
  /\ \E c \in Channels : Edit(n, c)

DeleteAlertNotification(n) == rows[n] # NoRow /\ Edit(n, NoRow)

\* The incident that the messages about alert a are about.
Key(c, a) ==
  IF c.type = "sensu"
  THEN [source |-> IF c.source # "" THEN c.source ELSE a, name |-> Underscored[rules[a].name]]
  ELSE IF c.type = "victorops" THEN [source |-> "", name |-> rules[a].name]
  ELSE OfAlert(a)

\* A rule that was saved with another name or text comes into the schedule;
\* an announcement under way has the rule it began with.  Nothing is sent:
\* who has the incident that a gives up or takes has yet to be told of it.
Update(a) ==
  /\ edits < MaxEdits /\ edits' = edits + 1
  /\ UNCHANGED rows
  /\ rules' \in Namings /\ \A b \in DOMAIN rules \ {a} : rules'[b] = rules[b]
  /\ LET Kept(n) == Key(rows[n], a)' = Key(rows[n], a) IN
       /\ told' = [b \in Alerts |->
            {n \in told[b] : Kept(n) \/ Key(rows[n], b) \notin {Key(rows[n], a), Key(rows[n], a)'}}]
       /\ stranded' = stranded \cup {i \in open : i[2] = Key(rows[i[1]], a) /\ ~ Kept(i[1])}
  /\ UNCHANGED <<announced, work, open, answer, crashed, rounds>>

-----------------------------------------------------------------------------
(* An announcement *)

\* A state change is saved; from pending to ok it is not announced.
handle(a) ==
  /\ ~ Busy /\ rounds < MaxRounds
  /\ \E s \in States \ {announced[a]} :
       /\ announced' = [announced EXCEPT ![a] = s]
       /\ told' = [told EXCEPT ![a] = {}]
       /\ round' = IF announced[a] = "pending" /\ s = "ok" THEN Idle
                   ELSE [phase |-> "send", alert |-> a, state |-> s, image |-> ""]
  /\ rounds' = rounds + 1
  /\ steps' = <<>> /\ slug' = FALSE /\ disk' = "" /\ public' = ""
  /\ embedded' = {} /\ tried' = {}
  /\ UNCHANGED <<rows, rules, open, stranded, answer, crashed, edits>>

Finish == round' = Idle /\ steps' = <<>>

\* Nothing is due, the query fails, or one channel cannot be made, which
\* ends the announcement for all of them.
getNotifiers ==
  /\ round.phase = "send"
  /\ LET due == Due(round.alert) IN
       \/ /\ due # {} /\ \A n \in due : rows[n].valid
          /\ steps' = [n \in due |-> "notify"]
          /\ round' = [round EXCEPT !.phase =
                         IF \E n \in due : rows[n].image THEN "upload" ELSE "notify"]
       \/ Finish
  /\ UNCHANGED <<rows, rules, announced, slug, disk, public, embedded, tried>>
  /\ UNCHANGED <<open, stranded, told, answer, crashed, rounds, edits>>

\* The query, PhantomJS and the image store may each fail; without a store
\* the file on disk is all there is.
uploadImage ==
  /\ round.phase = "upload"
  /\ slug' \in BOOLEAN /\ disk' \in {"", "rendered"} /\ public' \in {"", "url"}
  /\ round' = [round EXCEPT !.phase = "notify", !.image = disk']
  /\ disk' # "" => slug'
  /\ public' # "" => disk' # ""
  /\ UNCHANGED <<rows, rules, announced, steps, embedded, tried>>
  /\ UNCHANGED <<open, stranded, told, answer, crashed, rounds, edits>>

Effect(n, m) ==
  /\ open' = CASE m.event = "trigger" -> open \cup {<<n, m.key>>}
               [] m.event = "resolve" -> open \ {<<n, m.key>>}
               [] OTHER -> open
  /\ stranded' = stranded \ {<<n, m.key>>}

Reaches(n, got) ==
  told' = IF round.alert \in Alerts /\ got
          THEN [told EXCEPT ![round.alert] = @ \cup {n}] ELSE told

\* errgroup: what one goroutine returns does not stop another
After(n, step) == [steps EXCEPT ![n] = step]

\* Defect: the first error ends the loop.
FailedStops(n) == [o \in DOMAIN steps |-> IF steps[o] = "notify" THEN "failed" ELSE steps[o]]

Failed(n) == After(n, "failed")

\* Mails are sent one by one up to the first that fails.
Delivered(c) ==
  IF c.type = "email" THEN {k = Addresses : k \in 0..Addresses} ELSE BOOLEAN

\* OpsGenie's trigger logs an error and returns none.
Returns(c, m, ok) ==
  CASE ok /\ c.type = "slack" /\ c.token /\ c.image -> "file"
    [] ok -> "done"
    [] ~ ok /\ c.type = "opsgenie" /\ m.event = "trigger" -> "lost"
    [] OTHER -> "failed"

Notify(n) ==
  LET c == rows[n]
      a == round.alert
      m == Message(c, round.state, a)
      linked == slug' \/ a = TestAlert
  IN
  /\ round.phase = "notify" /\ n \in DOMAIN steps /\ steps[n] = "notify"
  /\ slug' \in (IF slug THEN {TRUE} ELSE BOOLEAN)
  /\ \/ /\ Panics(c, a) /\ crashed' = TRUE
        /\ UNCHANGED <<steps, embedded, tried, open, stranded, told>>
     \/ /\ ~ Panics(c, a) /\ m.url /\ ~ linked
        /\ steps' = Failed(n)
        /\ UNCHANGED <<embedded, tried, open, stranded, told, crashed>>
     \/ /\ ~ Panics(c, a) /\ (m.url => linked) /\ m.event = "nothing"
        /\ steps' = After(n, "done")
        /\ tried' = tried \cup {n} /\ Reaches(n, TRUE)
        /\ UNCHANGED <<embedded, open, stranded, crashed>>
     \/ /\ ~ Panics(c, a) /\ (m.url => linked) /\ m.event # "nothing"
        /\ tried' = tried \cup {n}
        /\ embedded' = IF c.type = "email" /\ public = "" /\ disk # ""
                       THEN embedded \cup {disk} ELSE embedded
        /\ \E ok \in Delivered(c) :
             /\ IF ok THEN Effect(n, m) ELSE UNCHANGED <<open, stranded>>
             /\ Reaches(n, ok)
             /\ steps' = IF Returns(c, m, ok) = "failed" THEN Failed(n)
                         ELSE After(n, Returns(c, m, ok))
        /\ UNCHANGED crashed
  /\ UNCHANGED <<rows, rules, announced, round, disk, public, answer, rounds, edits>>

\* Defect: the stock image is uploaded whether there is one or not.
SlackFileUploadStock(n) ==
  /\ round.phase = "notify" /\ n \in DOMAIN steps /\ steps[n] = "file"
  /\ disk' = "stock"
  /\ steps' \in {After(n, "done"), Failed(n)}
  /\ UNCHANGED <<rows, rules, announced, round, slug, public, embedded, tried>>
  /\ UNCHANGED <<open, stranded, told, answer, crashed, rounds, edits>>

\* Slack gets the image by another request; without one, a stock image,
\* whose path is left in the context that all notifiers share.
SlackFileUpload(n) ==
  /\ round.phase = "notify" /\ n \in DOMAIN steps /\ steps[n] = "file"
  /\ disk' = IF disk = "" THEN "stock" ELSE disk
  /\ steps' \in {After(n, "done"), Failed(n)}
  /\ UNCHANGED <<rows, rules, announced, round, slug, public, embedded, tried>>
  /\ UNCHANGED <<open, stranded, told, answer, crashed, rounds, edits>>

\* g.Wait; the handler of results drops the error, a test returns it
Wait ==
  /\ round.phase = "notify" /\ \A n \in DOMAIN steps : steps[n] \notin {"notify", "file"}
  /\ answer' = IF round.alert # TestAlert THEN answer
               ELSE [ok |-> \A n \in DOMAIN steps : steps[n] # "failed",
                     lost |-> {rows[n].type : n \in {o \in DOMAIN steps : steps[o] # "done"}}]
  /\ Finish
  /\ UNCHANGED <<rows, rules, announced, slug, disk, public, embedded, tried>>
  /\ UNCHANGED <<open, stranded, told, crashed, rounds, edits>>

\* A test message, with the settings of a row: rule 0, alerting, no image
\* of its own.
handleNotificationTestCommand(n) ==
  /\ ~ Busy /\ rounds < MaxRounds /\ rows[n] # NoRow
  /\ rounds' = rounds + 1
  /\ IF rows[n].valid
     THEN /\ round' = [phase |-> "notify", alert |-> TestAlert, state |-> "alerting", image |-> ""]
          /\ steps' = [o \in {n} |-> "notify"]
     ELSE UNCHANGED <<round, steps>>
  /\ slug' = FALSE /\ disk' = "" /\ public' = IF rows[n].image THEN "url" ELSE ""
  /\ embedded' = {} /\ tried' = {}
  /\ UNCHANGED <<rows, rules, announced, open, stranded, told, answer, crashed, edits>>

-----------------------------------------------------------------------------
NotifiersInit ==
  /\ rows \in Chosen /\ rules \in Namings
  /\ announced = [a \in Alerts |-> "pending"]
  /\ round = Idle /\ steps = <<>> /\ slug = FALSE /\ disk = "" /\ public = ""
  /\ embedded = {} /\ tried = {} /\ open = {} /\ stranded = {}
  /\ told = [a \in Alerts |-> {}]
  /\ answer = [ok |-> TRUE, lost |-> {}]
  /\ crashed = FALSE /\ rounds = 0 /\ edits = 0

NotifiersNext ==
  /\ ~ crashed
  /\ \/ \E n \in Ids : ~ Busy /\
          (CreateAlertNotificationCommand(n) \/ UpdateAlertNotification(n) \/ DeleteAlertNotification(n))
     \/ \E a \in Alerts : handle(a) \/ (~ Busy /\ Update(a))
     \/ getNotifiers \/ uploadImage \/ Wait
     \/ \E n \in Ids : Notify(n) \/ SlackFileUpload(n) \/ handleNotificationTestCommand(n)

NotifiersSpec == NotifiersInit /\ [][NotifiersNext]_notifiersVars

-----------------------------------------------------------------------------
Resolving(c) == c.type = "sensu" \/ (c.type \in {"opsgenie", "pagerduty", "victorops"} /\ c.auto)

\* Another alert, or a test message, is about the same incident.
Shared(c, a) == \E b \in (Alerts \cup {TestAlert}) \ {a} : Key(c, b) = Key(c, a)

\* What was last said of alert a at channel n, if it arrived, is that it is ok.
Closed(a, n) == a \in Alerts /\ announced[a] = "ok" /\ n \in told[a]

\* An incident does not outlive the alert: a service that closes incidents
\* and that got the last announcement of an alert shows one if the alert is
\* alerting and none if it is ok, whatever was lost before and whatever the
\* rule was named before, unless another alert or a test message shares the
\* incident; and an incident that is open belongs to an alert that the
\* service has not been told is ok, or to a name that its rule has given up.
IncidentFollowsAlert ==
  ~ Busy =>
    /\ \A a \in Alerts : \A n \in told[a] :
         Resolving(rows[n]) /\ ~ Shared(rows[n], a) =>
           /\ announced[a] = "alerting" => <<n, Key(rows[n], a)>> \in open
           /\ announced[a] = "ok" => <<n, Key(rows[n], a)>> \notin open
    /\ \A i \in open \ stranded : Resolving(rows[i[1]]) =>
         \E a \in Alerts \cup {TestAlert} : Key(rows[i[1]], a) = i[2] /\ ~ Closed(a, i[1])

\* An announcement tries every channel that is due and knows its link, or
\* none: an error of one channel does not keep another from sending; only
\* those whose message needs the link may give up without it.
AllOrNone ==
  round.phase = "notify" => \A n \in DOMAIN steps :
    steps[n] = "failed" /\ n \notin tried => Message(rows[n], round.state, round.alert).url

\* A mail embeds the image that was rendered for its alert; one that was not
\* may only come from a Slack channel with a token that had none to upload.
MailShowsOwnImage ==
  Busy => \A i \in embedded : i # round.image =>
    round.image = "" /\ \E n \in DOMAIN steps : rows[n].type = "slack" /\ rows[n].token

\* A test that reports success has reached the service, or was for OpsGenie,
\* whose trigger drops the error.
TestTellsTruth == answer.ok => answer.lost \subseteq {"opsgenie"}

\* Every channel that is due is told, and who asks whether one was is not misled.
ChannelsTold == AllOrNone /\ TestTellsTruth
============================================================================
