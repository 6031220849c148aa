------------------------------- MODULE Outlets -------------------------------
(***************************************************************************)
(* What the server gives out besides its answers, each outlet with state   *)
(* of its own: the log file with its rotation, the counters pushed to      *)
(* Graphite, the queue of mails, and the avatars fetched for pages.        *)
(***************************************************************************)
EXTENDS Integers, Sequences, FiniteSets

CONSTANTS Clients,      \* goroutines that log, send mail or serve an avatar
          Outlets,      \* what is looked at: "log", "metrics", "mail", "avatars"
          MaxLines, KeepDays, MaxNum,  \* Maxlines, Maxdays and 999
          MaxDay, MaxFaults, MaxUses,  \* bounds
          Metrics,      \* the counters, a sequence
          Capacity, Addresses,         \* of mailQueue; addresses of a mail
          Hashes

MetricNames == { Metrics[i] : i \in DOMAIN Metrics }

ASSUME OutletsAssumption ==
  /\ IsFiniteSet(Clients) /\ Clients # {} /\ MaxLines \in Nat \ {0}
  /\ KeepDays \in Nat /\ MaxNum \in Nat /\ Metrics \in Seq(MetricNames)

VARIABLES outlet, uses, faults, day,
          files,        \* log files: <<0, 0>> is Filename, <<d, n>> one rotated on day d;
                        \* each with its lines and the day of its last
          fdOpen, curLines, openDate,
          lines,        \* lines that were written: [id, day]
          ranOut,       \* no number was free for a rotation
          client,       \* where each client is
          tidying,      \* deleteOldLog runs
          counter, lastValue, pushing,
          graphite,     \* what Graphite has added up, of each counter
          counted,      \* of lastValue before the last restart
          broken,       \* deltas whose write failed
          mailQueue, blocked, worker, mailed,
          silent,       \* the mail server has taken the connection and does not answer
          cache,        \* hash |-> avatar
          avatar,       \* avatars made: [hash, data, notFound, fresh]; data is the task
                        \* whose buffer it is, or 0
          fetches,      \* tasks of the downloader: [id, avatar, for, at]
          full, cut     \* tasks that filled their buffer, and that broke off doing so

logs == <<files, fdOpen, curLines, openDate, lines, tidying, ranOut>>
metrics == <<counter, lastValue, pushing, graphite, counted, broken>>
mails == <<mailQueue, blocked, worker, mailed, silent>>
avatars == <<cache, avatar, fetches, full, cut>>
outletVars == <<outlet, uses, faults, day, client, logs, metrics, mails, avatars>>

Uses == uses < MaxUses /\ uses' = uses + 1
Fails(fault) == fault => faults < MaxFaults
Counts(fault) == Fails(fault) /\ faults' = IF fault THEN faults + 1 ELSE faults
Free(c) == client[c].at = "idle"
GoesOn(c, place) == client' = [client EXCEPT ![c] = place]

-----------------------------------------------------------------------------
(* The log file *)

Current == <<0, 0>>
NoLines == [lines |-> {}, day |-> day]

\* StartLogger: the lines of a file that is there already are counted.
StartLogger ==
  /\ fdOpen' = TRUE /\ openDate' = day
  /\ curLines' = Cardinality(files'[Current].lines)

\* Defect: the numbers start again with the process, and no file is looked for.
NextNumber(names) == 1

\* The first number that no file of today has; MaxNum + 1 when all are taken.
FreeNumber(names) ==
  CHOOSE n \in 1..(MaxNum + 1) :
    <<day, n>> \notin names /\ \A k \in 1..(n - 1) : <<day, k>> \in names

Renamed(new) ==
  [n \in (DOMAIN files \ {Current}) \cup {new} |-> IF n = new THEN files[Current] ELSE files[n]]
WithCurrent(f) == [n \in DOMAIN f \cup {Current} |-> IF n = Current THEN NoLines ELSE f[n]]

\* DoRotate; outcome is how far it gets, and when it is done the line that follows is
\* counted.  Without a file of that name there is nothing to rotate, and the descriptor
\* stays as it is.
DoRotate(outcome) ==
  LET n == FreeNumber(DOMAIN files)
      new == <<day, n>> IN
  CASE Current \notin DOMAIN files -> outcome = "done" /\ curLines' = curLines + 1 /\ UNCHANGED <<files, fdOpen, openDate, tidying>>
    [] n > MaxNum -> outcome = "no number" /\ UNCHANGED <<files, fdOpen, openDate, curLines, tidying>>
    [] OTHER ->
       \/ /\ outcome = "not renamed"
          /\ fdOpen' = FALSE /\ UNCHANGED <<files, openDate, curLines, tidying>>
       \/ /\ outcome = "not opened"
          /\ files' = Renamed(new) /\ fdOpen' = FALSE /\ UNCHANGED <<openDate, curLines, tidying>>
       \/ /\ outcome = "done"
          /\ files' = WithCurrent(Renamed(new)) /\ tidying' = TRUE
          /\ fdOpen' = TRUE /\ openDate' = day /\ curLines' = 1

\* docheck, under startLock: what comes after a failed rotation is not counted.
docheck(c, outcome) ==
  /\ outlet = "log" /\ Free(c) /\ Uses
  /\ GoesOn(c, [at |-> "write", line |-> uses])
  /\ Counts(outcome \in {"not renamed", "not opened"})
  /\ IF curLines >= MaxLines \/ openDate # day
     THEN DoRotate(outcome)
     ELSE outcome = "done" /\ curLines' = curLines + 1 /\ UNCHANGED <<files, fdOpen, openDate, tidying>>
  /\ ranOut' = (ranOut \/ outcome = "no number")
  /\ UNCHANGED <<outlet, day, lines, metrics, mails, avatars>>

\* The line is written to whatever file is current by then, or lost.
WriteLine(c) ==
  /\ outlet = "log" /\ client[c].at = "write" /\ GoesOn(c, [at |-> "idle"])
  /\ IF fdOpen
     THEN /\ files' = [files EXCEPT ![Current] = [lines |-> @.lines \cup {client[c].line}, day |-> day]]
          /\ lines' = lines \cup {[id |-> client[c].line, day |-> day]}
     ELSE UNCHANGED <<files, lines>>
  /\ UNCHANGED <<outlet, uses, faults, day, fdOpen, curLines, openDate, tidying, ranOut, metrics, mails, avatars>>

deleteOldLog ==
  /\ tidying /\ tidying' = FALSE
  /\ files' = [n \in { f \in DOMAIN files : files[f].day + KeepDays >= day } |-> files[n]]
  /\ UNCHANGED <<outlet, uses, faults, day, client, fdOpen, curLines, openDate, lines, ranOut, metrics, mails, avatars>>

\* The process is killed, and started again.
RestartLog ==
  /\ outlet = "log" /\ Counts(TRUE)
  /\ client' = [c \in Clients |-> [at |-> "idle"]]
  /\ files' = IF Current \in DOMAIN files THEN files ELSE WithCurrent(files)
  /\ StartLogger /\ tidying' = FALSE
  /\ UNCHANGED <<outlet, uses, day, lines, ranOut, metrics, mails, avatars>>

\* Old files are deleted on the day of the rotation.
NextDay ==
  /\ outlet = "log" /\ day < MaxDay /\ day' = day + 1 /\ ~tidying
  /\ UNCHANGED <<outlet, uses, faults, client, logs, metrics, mails, avatars>>

-----------------------------------------------------------------------------
(* Counters pushed to Graphite as deltas *)

Increase(m) ==
  /\ outlet = "metrics" /\ Uses /\ counter' = [counter EXCEPT ![m] = @ + 1]
  /\ UNCHANGED <<outlet, faults, day, client, logs, lastValue, pushing, graphite, counted, broken, mails, avatars>>

\* Push: the counters are read, and a connection made.
Push(dials) ==
  /\ outlet = "metrics" /\ pushing = <<>> /\ Uses /\ Counts(~dials)
  /\ pushing' = IF dials THEN [i \in DOMAIN Metrics |-> [metric |-> Metrics[i], value |-> counter[Metrics[i]]]]
                ELSE <<>>
  /\ UNCHANGED <<outlet, day, client, logs, counter, lastValue, graphite, counted, broken, mails, avatars>>

\* returnDelta keeps the value before it is sent.
returnDelta(m, value, fails) == [lastValue EXCEPT ![m] = value]

\* writeMetrics; with the first write that fails the rest is left for the next push.
\* What failed may have arrived.
writeMetric(fails, arrives) ==
  /\ pushing # <<>> /\ Counts(fails) /\ (~fails => arrives)
  /\ LET m == Head(pushing).metric
         delta == Head(pushing).value - lastValue[m] IN
     /\ lastValue' = returnDelta(m, Head(pushing).value, fails)
     /\ graphite' = IF arrives THEN [graphite EXCEPT ![m] = @ + delta] ELSE graphite
     /\ broken' = IF arrives THEN broken ELSE [broken EXCEPT ![m] = @ + delta]
  /\ pushing' = IF fails THEN <<>> ELSE Tail(pushing)
  /\ UNCHANGED <<outlet, uses, day, client, logs, counter, counted, mails, avatars>>

RestartMetrics ==
  /\ outlet = "metrics" /\ Counts(TRUE)
  /\ counter' = [m \in DOMAIN counter |-> 0] /\ lastValue' = [m \in DOMAIN lastValue |-> 0]
  /\ counted' = [m \in DOMAIN counted |-> counted[m] + lastValue[m]] /\ pushing' = <<>>
  /\ UNCHANGED <<outlet, uses, day, client, logs, graphite, broken, mails, avatars>>

-----------------------------------------------------------------------------
(* Mails that requests leave to a goroutine *)

\* buildEmailMessage succeeds or fails: SMTP may be off, and a template wrong.
Builds == BOOLEAN

\* sendEmailCommandHandler; a sign-up is marked when the mail is in the queue.
sendEmail(c, builds) ==
  /\ outlet = "mail" /\ Free(c) /\ Uses
  /\ IF builds THEN GoesOn(c, [at |-> "adding", mail |-> uses]) /\ blocked' = Append(blocked, c)
     ELSE UNCHANGED <<client, blocked>>
  /\ UNCHANGED <<outlet, faults, day, logs, metrics, mailQueue, worker, mailed, silent, avatars>>

\* Senders that wait for room in the channel are served in their order.
addToMailQueue(c) ==
  /\ blocked # <<>> /\ Head(blocked) = c /\ Len(mailQueue) < Capacity
  /\ mailQueue' = Append(mailQueue, client[c].mail) /\ blocked' = Tail(blocked)
  /\ GoesOn(c, [at |-> "idle"])
  /\ UNCHANGED <<outlet, uses, faults, day, logs, metrics, worker, mailed, silent, avatars>>

processMailQueue ==
  /\ worker = <<>> /\ mailQueue # <<>>
  /\ worker' = [i \in 1..Addresses |-> [mail |-> Head(mailQueue), to |-> i]] /\ mailQueue' = Tail(mailQueue)
  /\ UNCHANGED <<outlet, uses, faults, day, client, logs, metrics, blocked, mailed, silent, avatars>>

\* Defect: the goroutine returns when a mail cannot be sent.
EndsAt(fails) == IF fails THEN <<[mail |-> -1, to |-> 0]>> ELSE Tail(worker)

\* What is left to send: after an address that fails, nothing.
LeftToSend(fails) == IF fails THEN <<>> ELSE Tail(worker)

\* The dial is given ten seconds, the session none: a server that takes the connection
\* may leave the goroutine waiting, until the connection breaks.
FallsSilent ==
  /\ worker # <<>> /\ worker[1].to # 0 /\ ~silent /\ Counts(TRUE) /\ silent' = TRUE
  /\ UNCHANGED <<outlet, uses, day, client, logs, metrics, mailQueue, blocked, worker, mailed, avatars>>

\* send, address by address.
DialAndSend(fails) ==
  /\ worker # <<>> /\ worker[1].to # 0 /\ Counts(fails) /\ (silent => fails)
  /\ silent' = FALSE
  /\ mailed' = IF fails THEN mailed ELSE Append(mailed, worker[1])
  /\ worker' = LeftToSend(fails)
  /\ UNCHANGED <<outlet, uses, day, client, logs, metrics, mailQueue, blocked, avatars>>

-----------------------------------------------------------------------------
(* Avatars *)

Avatars == 1..Len(avatar)

\* The avatar that is written, or 0 for that of notFound; own is the fetch waited for.
Page(a, error, own) ==
  [at |-> "page", avatar |-> IF error \/ avatar[a].notFound THEN 0 ELSE a, own |-> own]

\* CacheServer.Handler finds an avatar or makes one; one that has expired is fetched.
Handler(c, h) ==
  /\ outlet = "avatars" /\ Free(c) /\ Uses
  /\ LET made == h \notin DOMAIN cache
         a == IF made THEN Len(avatar) + 1 ELSE cache[h]
         old == made \/ ~avatar[a].fresh IN
     /\ avatar' = IF made THEN Append(avatar, [hash |-> h, data |-> 0, notFound |-> FALSE, fresh |-> FALSE])
                  ELSE avatar
     /\ fetches' = IF old THEN fetches \cup {[id |-> uses', avatar |-> a, for |-> c, at |-> "queued"]} ELSE fetches
     /\ GoesOn(c, IF old THEN [at |-> "update"] ELSE Page(a, FALSE, 0))
  /\ UNCHANGED <<outlet, faults, day, logs, metrics, mails, cache, full, cut>>

Over(t) == t.at \in {"got", "failed"} /\ t.for \notin Clients
Others(t) == fetches \ {t}
Becomes(t, place) == fetches' = Others(t) \cup { x \in {[t EXCEPT !.at = place]} : ~Over(x) }

\* thunderTask.fetch: the time is set before anything is asked for, and an answer puts an
\* empty buffer, to be filled, in the place of what others are served.
FetchBegins(t) ==
  /\ t.at = "queued" /\ Becomes(t, "asked") /\ avatar' = [avatar EXCEPT ![t.avatar].fresh = TRUE]
  /\ UNCHANGED <<outlet, uses, faults, day, client, logs, metrics, mails, cache, full, cut>>

FetchAnswered(t, found) ==
  /\ t.at = "asked" /\ Counts(~found)
  /\ Becomes(t, IF found THEN "filling" ELSE "failed")
  /\ avatar' = IF found THEN [avatar EXCEPT ![t.avatar].data = t.id]
               ELSE [avatar EXCEPT ![t.avatar].notFound = TRUE]
  /\ UNCHANGED <<outlet, uses, day, client, logs, metrics, mails, cache, full, cut>>

FetchEnds(t, whole) ==
  /\ t.at = "filling" /\ Counts(~whole)
  /\ Becomes(t, IF whole THEN "got" ELSE "failed")
  /\ full' = IF whole THEN full \cup {t.id} ELSE full
  /\ cut' = IF whole THEN cut ELSE cut \cup {t.id}
  /\ UNCHANGED <<outlet, uses, day, client, logs, metrics, mails, cache, avatar>>

\* Defect: what has been asked for is cached, whatever comes.
CachedAnyway(a, error) == [x \in DOMAIN cache \cup {avatar[a].hash} |-> IF x = avatar[a].hash THEN a ELSE cache[x]]

\* The cache after an update: an avatar that Gravatar does not have is not kept.
Cached(a, error) ==
  IF error \/ avatar[a].notFound THEN cache
  ELSE [x \in DOMAIN cache \cup {avatar[a].hash} |-> IF x = avatar[a].hash THEN a ELSE cache[x]]

\* Update returns with the answer, or because three seconds are over: then the fetch
\* goes on, and nobody waits for it.
Updated(c, t, error) ==
  /\ client[c].at = "update" /\ t.for = c /\ (~error => t.at = "got")
  /\ cache' = Cached(t.avatar, error)
  /\ GoesOn(c, Page(t.avatar, error, t.id))
  /\ fetches' = Others(t) \cup { x \in {[t EXCEPT !.for = 0]} : ~Over(x) }
  /\ UNCHANGED <<outlet, uses, faults, day, logs, metrics, mails, avatar, full, cut>>

\* The image is written; one that was not found has that of notFound.
Encode(c) ==
  /\ outlet = "avatars" /\ client[c].at = "page" /\ GoesOn(c, [at |-> "idle"])
  /\ UNCHANGED <<outlet, uses, faults, day, logs, metrics, mails, avatars>>

Expire(a) ==
  /\ outlet = "avatars" /\ avatar[a].fresh /\ Uses /\ avatar' = [avatar EXCEPT ![a].fresh = FALSE]
  /\ UNCHANGED <<outlet, faults, day, client, logs, metrics, mails, cache, fetches, full, cut>>

-----------------------------------------------------------------------------
OutletsInit ==
  /\ outlet \in Outlets /\ uses = 0 /\ faults = 0 /\ day = 0
  /\ client = [c \in Clients |-> [at |-> "idle"]]
  /\ files = [n \in {Current} |-> [lines |-> {}, day |-> 0]] /\ fdOpen = TRUE
  /\ curLines = 0 /\ openDate = 0 /\ lines = {} /\ tidying = FALSE /\ ranOut = FALSE
  /\ LET zero == [m \in MetricNames |-> 0] IN
     counter = zero /\ lastValue = zero /\ graphite = zero /\ counted = zero /\ broken = zero
  /\ pushing = <<>>
  /\ mailQueue = <<>> /\ blocked = <<>> /\ worker = <<>> /\ mailed = <<>> /\ silent = FALSE
  /\ cache = <<>> /\ avatar = <<>> /\ fetches = {} /\ full = {} /\ cut = {}

Outcomes == {"done", "no number", "not renamed", "not opened"}
\* A session that is answered comes to an end; of one that is not nothing is promised.
Sends == processMailQueue \/ \E fails \in BOOLEAN : ~silent /\ DialAndSend(fails)

OutletsNext ==
  \/ \E c \in Clients :
       \/ \E outcome \in Outcomes : docheck(c, outcome)
       \/ WriteLine(c)
       \/ \E builds \in Builds : sendEmail(c, builds)
       \/ addToMailQueue(c)
       \/ \E h \in Hashes : Handler(c, h)
       \/ \E t \in fetches, error \in BOOLEAN : Updated(c, t, error)
       \/ Encode(c)
  \/ deleteOldLog \/ RestartLog \/ NextDay
  \/ \E m \in DOMAIN counter : Increase(m)
  \/ \E dials \in BOOLEAN : Push(dials)
  \/ \E fails, arrives \in BOOLEAN : writeMetric(fails, arrives)
  \/ RestartMetrics \/ processMailQueue \/ FallsSilent \/ \E fails \in BOOLEAN : DialAndSend(fails)
  \/ \E t \in fetches : FetchBegins(t) \/ \E ok \in BOOLEAN : FetchAnswered(t, ok) \/ FetchEnds(t, ok)
  \/ \E a \in Avatars : Expire(a)

OutletsSpec ==
  /\ OutletsInit /\ [][OutletsNext]_outletVars
  /\ WF_outletVars(Sends) /\ \A c \in Clients : WF_outletVars(addToMailQueue(c))

-----------------------------------------------------------------------------
(* Properties *)

\* A line that was written is in a file for the days that files are kept, however rotations
\* of several goroutines, restarts and failed renames come between.
LinesKept == \A l \in lines : l.day + KeepDays >= day => \E n \in DOMAIN files : l.id \in files[n].lines

\* No file has more lines than the limit and those that other goroutines had checked when
\* the file was rotated, unless the numbers of a day ran out.
FilesBounded ==
  ranOut \/ \A n \in DOMAIN files : Cardinality(files[n].lines) < MaxLines + Cardinality(Clients)

\* Graphite has added up what was counted, through restarts, but for the deltas whose
\* write failed.
DeltasAdd == \A m \in DOMAIN counter : graphite[m] + broken[m] = counted[m] + lastValue[m]

\* What is given out is neither lost nor given out twice.
NothingLost == LinesKept /\ FilesBounded /\ DeltasAdd

\* A page is given a whole image, whatever others fetch, give up or do not find, but for two
\* cases that are no fetch of its own: the same avatar is being fetched anew, and such a
\* fetch has broken off.
ServesAnImage ==
  \A c \in Clients : LET a == client[c].avatar IN
    client[c].at = "page" /\ a # 0 =>
      \/ avatar[a].data \in full
      \/ /\ avatar[a].data # client[c].own
         /\ \/ avatar[a].data \in cut
            \/ \E t \in fetches : t.id = avatar[a].data /\ t.at = "filling"

\* A request that sends a mail goes on, also when the mail server fails, but not while the
\* server keeps a session waiting.
MailTaken == \A c \in Clients : client[c].at = "adding" ~> client[c].at # "adding" \/ silent
=============================================================================
