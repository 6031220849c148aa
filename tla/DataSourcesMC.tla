--------------------------- MODULE DataSourcesMC ---------------------------
(* No file; one that adds a default; two, of which the first deletes the    *)
(* name that it adds and the second deletes the other; and two defaults,    *)
(* which are refused.                                                       *)
EXTENDS DataSources, TLC

CONSTANTS k1, k2

FileOf(n, def, editable, keys) ==
  [del |-> <<>>, add |-> <<[name |-> n, def |-> def, editable |-> editable, keys |-> keys]>>]

MCConfigs ==
  { <<>>,
    << FileOf("a", TRUE, FALSE, {}) >>,
    << [FileOf("a", FALSE, TRUE, {k1}) EXCEPT !.del = <<"a">>], [del |-> <<"b">>, add |-> <<>>] >>,
    << FileOf("a", TRUE, TRUE, {}), FileOf("b", TRUE, TRUE, {}) >> }

Body(n, def, blank, keys, forced) ==
  [name |-> n, def |-> def, blank |-> blank, keys |-> keys, forced |-> forced]

MCBodies ==
  { Body("a", FALSE, TRUE, {}, FALSE), Body("a", TRUE, FALSE, {k1}, FALSE),
    Body("a", FALSE, FALSE, {k2}, FALSE), Body("b", TRUE, FALSE, {k1}, TRUE) }

\* Two clients are at work on one data source, without a restart.  Time passes,
\* and data sources are queried, with one client and two writes, and databases
\* without the other requests.
OneClientInTime ==
  LET idle == \E c \in Clients : page[c] = None /\ handler[c] = None IN
  /\ idle \/ (phase = "up" /\ nextId <= 2)
  /\ (clock > 0 \/ \E i \in SourceIds : {cache[i], engineCache[i]} # {NoSource}) =>
       nextId <= 2 /\ writes <= 2 /\ idle
  /\ \A i \in SourceIds : engineCache[i] # NoSource => cache[i] = NoSource /\ clock = 0

\* With PostgreSQL they are at work on two, without files, time and queries.
TwoAtOnce ==
  /\ sourceSteps = <<>> /\ clock = 0 /\ \A i \in SourceIds : {cache[i], engineCache[i]} = {NoSource}
  /\ (\A c \in Clients : page[c] # None \/ handler[c] # None) =>
       phase = "up" /\ (writes <= 2 \/ Open # {})

WhatClientsDo == IF database = "postgres" THEN TwoAtOnce ELSE OneClientInTime

DataSourcesSymmetry == Permutations(Clients)
=============================================================================
