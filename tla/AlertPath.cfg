SPECIFICATION AlertPathSpec
CONSTANTS
\* Notification channels
  n1 = n1
  n2 = n2
  a1 = a1
  a2 = a2
  test = test
  Ids = {n1, n2}
  Alerts = {a1, a2}
  TestAlert = test
  Channels <- NewRows
  Chosen <- FirstRows
  Linked <- Links
  Namings <- Rules
  Underscored <- Underscores
  Addresses = 2
  MaxRounds = 3
  MaxEdits = 1
\* Data sources
  Names = {"a", "b"}
  Keys = {k1, k2}
  Clients = {c1, c2}
  Databases = {"postgres", "other"}
  Configs <- MCConfigs
  MaxId = 2
  MaxWrites = 3
  MaxClock = 2
  TTL = 1
  Life = 3
  Spare = 1
  k1 = k1
  k2 = k2
  Bodies <- MCBodies
\* Conditions and rules
  Null = Null
  Reducers <- AllReducers
  Evaluators <- AllEvaluators
  SeriesLists <- Lists
  MaxFloat = 1000
  OperatorLists <- FirstAnd
CONSTRAINTS WhatClientsDo RulesTellApart
SYMMETRY DataSourcesSymmetry
INVARIANTS OneDefault BoundedStaleness ReducersRight IncidentFollowsAlert ChannelsTold MailShowsOwnImage
PROPERTIES UpdatesKept RuleRight
\* The bounds end it, and a condition that has said what it finds is done.
CHECK_DEADLOCK FALSE
