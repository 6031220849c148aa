---------------------------- MODULE NotifiersMC ----------------------------
(***************************************************************************)
(* An instance of Notifiers for TLC: one channel of each type beside a     *)
(* channel that shares its context.                                        *)
(***************************************************************************)
EXTENDS Notifiers
CONSTANTS n1, n2, a1, a2, test

Channel(type, auto, token, image, default) ==
  [type |-> type, valid |-> TRUE, auto |-> auto, token |-> token, image |-> image,
   default |-> default, source |-> ""]
Plain(type) == Channel(type, FALSE, FALSE, FALSE, FALSE)

Resolvers == {Channel(t, b, FALSE, FALSE, FALSE) : t \in {"opsgenie", "pagerduty", "victorops"},
                                                  b \in BOOLEAN}

Others == {Plain(t) : t \in {"dingding", "hipchat", "kafka", "LINE", "pushover", "sensu",
                             "teams", "telegram", "threema", "webhook"}}
Sourced == [Plain("sensu") EXCEPT !.source = "grafana"]
Email == Channel("email", FALSE, FALSE, TRUE, TRUE)
Slack == Channel("slack", FALSE, TRUE, TRUE, TRUE)
Unfinished == [Plain("webhook") EXCEPT !.valid = FALSE]

FirstRows ==
  {n1 :> c @@ n2 :> Email : c \in Resolvers \cup Others \cup {Sourced, Slack}}
    \cup {n1 :> Email @@ n2 :> NoRow}
NewRows == {Email, Unfinished}
Links == a1 :> {n1} @@ a2 :> {n1}

Rule(name) == [name |-> name, breaks |-> name = "disk"]
Rules ==
  {a1 :> Rule(x) @@ a2 :> Rule(y) @@ test :> Rule("test") :
     x \in {"cpu load", "disk"}, y \in {"cpu_load", "disk"}}
Underscores == [x \in {"cpu load", "cpu_load", "disk", "test"} |->
                  IF x = "cpu load" THEN "cpu_load" ELSE x]

\* No other type looks at the rules: theirs have one name throughout.
RulesTellApart ==
  \/ \E n \in Ids : rows[n].type \in {"dingding", "sensu", "victorops"}
  \/ rules[a1].name = rules[a2].name
============================================================================
