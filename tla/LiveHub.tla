------------------------------- MODULE LiveHub -------------------------------
(***************************************************************************)
(* The hub of live streams (api/live): one goroutine that owns the         *)
(* connections and the subscriptions, and of each connection a reader and  *)
(* a writer.  The reader's channels to the hub are unbuffered: a send is a *)
(* step of both.                                                           *)
(***************************************************************************)
EXTENDS Integers, Sequences, FiniteSets, SequencesExt

CONSTANTS Conns, Streams,
          Buffer,       \* capacity of connection.send, 256 in the code
          Stray         \* clients also unsubscribe from streams nobody has subscribed to

ASSUME LiveHubAssumption == Buffer \in Nat \ {0} /\ Stray \in BOOLEAN

VARIABLES hub,          \* is its goroutine running
          connections,  \* hub.connections
          streams,      \* hub.streams; a stream without an entry is not in the domain
          send,         \* connection.send: [open, buf]
          reader,       \* at "none", "registering", "reading", "handing" over a
                        \* subscription, "unregistering", "done"
          writer,       \* "none", "running", "done"
          ws,           \* is the socket open
          wanted,       \* what the hub has let a client subscribe to and not unsubscribe from
          dropped,      \* connections whose buffer was full
          owed,         \* messages of wanted streams that the socket has not got yet
          panicked      \* a send on a closed channel, or a second close

liveVars == <<hub, connections, streams, send, reader, writer, ws, wanted, dropped, owed, panicked>>

At(c, place) == reader[c].at = place
ReaderGoes(c, place) == reader' = [reader EXCEPT ![c] = [at |-> place]]
Hands(c, sub) == reader' = [reader EXCEPT ![c] = [at |-> "handing", sub |-> sub]]

\* Closing a channel that is closed panics, and the process with it.
Close(c) ==
  /\ send' = [send EXCEPT ![c].open = FALSE]
  /\ panicked' = (panicked \/ ~send[c].open)

-----------------------------------------------------------------------------
(* The hub, and the reader that it takes from *)

Serve(c) ==
  /\ At(c, "none") /\ ReaderGoes(c, "registering") /\ ws' = [ws EXCEPT ![c] = TRUE]
  /\ UNCHANGED <<hub, connections, streams, send, writer, wanted, dropped, owed, panicked>>

Register(c) ==
  /\ hub /\ At(c, "registering") /\ ReaderGoes(c, "reading")
  /\ connections' = connections \cup {c} /\ writer' = [writer EXCEPT ![c] = "running"]
  /\ UNCHANGED <<hub, streams, send, ws, wanted, dropped, owed, panicked>>

\* A connection that was dropped is not in the map any more.
Unregister(c) ==
  /\ hub /\ At(c, "unregistering") /\ ReaderGoes(c, "done")
  /\ connections' = connections \ {c} /\ ws' = [ws EXCEPT ![c] = FALSE]
  /\ IF c \in connections THEN Close(c) ELSE UNCHANGED <<send, panicked>>
  /\ UNCHANGED <<hub, streams, writer, wanted, dropped, owed>>

Subscribers(s) == IF s \in DOMAIN streams THEN streams[s] ELSE {}
WithSubscribers(s, cs) == [x \in DOMAIN streams \cup {s} |-> IF x = s THEN cs ELSE streams[x]]

\* Defect: an unsubscription is not told from a subscription.
Subscribed(c, sub) == WithSubscribers(sub.name, Subscribers(sub.name) \cup {c})

\* An unsubscription from a stream without an entry makes one, and subscribes.
Handed(c, sub) ==
  IF sub.name \in DOMAIN streams /\ sub.remove
  THEN WithSubscribers(sub.name, Subscribers(sub.name) \ {c})
  ELSE WithSubscribers(sub.name, Subscribers(sub.name) \cup {c})

Subscribe(c) ==
  /\ hub /\ At(c, "handing") /\ ReaderGoes(c, "reading")
  /\ LET sub == reader[c].sub IN
     /\ streams' = Handed(c, sub)
     /\ wanted' = [wanted EXCEPT ![c] = IF sub.remove THEN @ \ {sub.name} ELSE @ \cup {sub.name}]
  /\ UNCHANGED <<hub, connections, send, writer, ws, dropped, owed, panicked>>

\* The connections that are left when those whose buffer is full are dropped.
LeftConnected(full) == connections \ full

\* The hub never waits for a connection: one whose buffer is full is closed.
Publish(s) ==
  /\ hub
  /\ LET live == Subscribers(s) \cap connections
         full == { c \in live : Len(send[c].buf) >= Buffer } IN
     /\ streams' = IF Subscribers(s) = {} THEN streams ELSE WithSubscribers(s, live \ full)
     /\ connections' = LeftConnected(full)
     /\ send' = [c \in Conns |->
          IF c \in full THEN [send[c] EXCEPT !.open = FALSE]
          ELSE IF c \in live THEN [send[c] EXCEPT !.buf = Append(@, s)] ELSE send[c]]
     /\ panicked' = (panicked \/ \E c \in live : ~send[c].open)
     /\ owed' = [c \in Conns |-> IF s \in wanted[c] /\ c \in connections \ full
                                 THEN Append(owed[c], s) ELSE owed[c]]
     /\ dropped' = dropped \cup full
  /\ UNCHANGED <<hub, reader, writer, ws, wanted>>

\* The context of the server is cancelled: nothing is taken from readers any more.
Stop ==
  /\ hub /\ hub' = FALSE
  /\ UNCHANGED <<connections, streams, send, reader, writer, ws, wanted, dropped, owed, panicked>>

-----------------------------------------------------------------------------
(* Reader, writer and client *)

handleMessage(c, s, remove) ==
  /\ At(c, "reading") /\ ws[c] /\ (remove => Stray \/ s \in DOMAIN streams)
  /\ Hands(c, [name |-> s, remove |-> remove])
  /\ UNCHANGED <<hub, connections, streams, send, writer, ws, wanted, dropped, owed, panicked>>

\* The socket is closed, by either side or a deadline.
ReadFails(c) ==
  /\ At(c, "reading") /\ ~ws[c] /\ ReaderGoes(c, "unregistering")
  /\ UNCHANGED <<hub, connections, streams, send, writer, ws, wanted, dropped, owed, panicked>>

Leave(c) ==
  /\ ws[c] /\ ws' = [ws EXCEPT ![c] = FALSE]
  /\ UNCHANGED <<hub, connections, streams, send, reader, writer, wanted, dropped, owed, panicked>>

\* Defect: the writer returns on a closed channel without closing the socket.
ReturnsOnly(c) == UNCHANGED ws

\* The deferred close of the socket, which the reader is woken up by.
WriterCloses(c) == ws' = [ws EXCEPT ![c] = FALSE]

\* What is buffered is written before the channel is seen to be closed.
writePump(c) ==
  /\ writer[c] = "running"
  /\ \/ /\ send[c].buf # <<>> /\ ws[c]
        /\ send' = [send EXCEPT ![c].buf = Tail(@)]
        /\ owed' = [owed EXCEPT ![c] = IF @ = <<>> THEN @ ELSE Tail(@)]
        /\ UNCHANGED <<writer, ws>>
     \/ /\ (send[c].buf # <<>> /\ ~ws[c]) \/ (send[c].buf = <<>> /\ ~send[c].open)
        /\ send' = [send EXCEPT ![c].buf = IF @ = <<>> THEN @ ELSE Tail(@)]
        /\ writer' = [writer EXCEPT ![c] = "done"] /\ WriterCloses(c)
        /\ UNCHANGED owed
  /\ UNCHANGED <<hub, connections, streams, reader, wanted, dropped, panicked>>

\* A ping finds the socket closed.
Ping(c) ==
  /\ writer[c] = "running" /\ ~ws[c] /\ writer' = [writer EXCEPT ![c] = "done"]
  /\ UNCHANGED <<hub, connections, streams, send, reader, ws, wanted, dropped, owed, panicked>>

LiveInit ==
  /\ hub = TRUE /\ connections = {} /\ streams = <<>>
  /\ send = [c \in Conns |-> [open |-> TRUE, buf |-> <<>>]]
  /\ reader = [c \in Conns |-> [at |-> "none"]] /\ writer = [c \in Conns |-> "none"]
  /\ ws = [c \in Conns |-> FALSE] /\ wanted = [c \in Conns |-> {}]
  /\ dropped = {} /\ owed = [c \in Conns |-> <<>>] /\ panicked = FALSE

LiveNext ==
  \/ \E c \in Conns : \/ Serve(c) \/ Register(c) \/ Unregister(c) \/ Subscribe(c)
                      \/ ReadFails(c) \/ Leave(c) \/ writePump(c) \/ Ping(c)
                      \/ \E s \in Streams, remove \in BOOLEAN : handleMessage(c, s, remove)
  \/ \E s \in Streams : Publish(s)
  \/ Stop

LiveSpec ==
  /\ LiveInit /\ [][LiveNext]_liveVars
  /\ \A c \in Conns : WF_liveVars(Register(c) \/ Unregister(c) \/ Subscribe(c))
                      /\ WF_liveVars(ReadFails(c)) /\ WF_liveVars(writePump(c) \/ Ping(c))

-----------------------------------------------------------------------------
(* Properties *)

\* No goroutine sends on a closed channel or closes one twice, although both
\* the hub itself and the reader's unregistration end a connection.
NeverPanics == ~panicked

\* A client gets, in order, exactly the messages of the streams that it has
\* subscribed to and not unsubscribed from, until it is dropped.
GetsWhatIsDue == \A c \in Conns : writer[c] = "running" => send[c].buf = owed[c]

\* The hub neither takes the process down nor mixes up who gets what.
HubRight == NeverPanics /\ GetsWhatIsDue

\* A connection that the hub drops ends: its writer closes the socket, and its
\* reader gets to unregister, unless the server stops.
DroppedEnds == \A c \in Conns : c \in dropped ~> (At(c, "done") \/ ~hub)
=============================================================================
