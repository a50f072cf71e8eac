------------------------------ MODULE Session ------------------------------
(***************************************************************************)
(* internal/session: one multiplexed connection, both of its ends.         *)
(*                                                                         *)
(* The "opener" end calls Session.Open (C towards S, S towards E); the     *)
(* "acceptor" end runs the Handler.  Per end there are a readLoop, a       *)
(* dispatchLoop, any number of shutdown callers and, per stream, one       *)
(* goroutine that writes and one that reads (the two copies of Relay).     *)
(* An action is one critical section, or one channel operation, of one of  *)
(* these goroutines.  Request IDs are the ones Open draws from nextID, so  *)
(* they are pairwise different.                                            *)
(***************************************************************************)
EXTENDS Naturals, Sequences, FiniteSets

CONSTANTS Ids,              \* request IDs
          BufferSize,       \* capacity of Stream.reads (32 in New)
          IncomingSize,     \* capacity of Session.incoming (64 in New)
          Loads             \* what may happen in a behaviour: see Load

Ends == {"opener", "acceptor"}

Load == [ids : SUBSET Ids,         \* the streams that are opened
         data : [Ends -> Nat],     \* bound: Data frames per stream and writing end
         control : [Ends -> Nat],  \* bound: control frames per sending end
         handlers : SUBSET Ends,   \* ends with a control handler before Start
         closers : SUBSET Ends,    \* ends whose owner may call Session.Close
         mayBreak : BOOLEAN]       \* whether the network may drop the connection

ASSUME SessionAssumption ==
  /\ Ids \subseteq Nat
  /\ BufferSize \in Nat \ {0}
  /\ IncomingSize \in Nat \ {0}
  /\ Loads \subseteq Load

VARIABLES
  load,       \* the load of this behaviour
  wire,       \* wire[e]: frames on their way to end e
  conn,       \* conn[e]: FALSE once e closed its side of the connection
  broken,     \* the network dropped the connection
  sclosed,    \* Session.closed, Session.done
  todo,       \* streams that shutdown copied and has yet to force-close
  closing,    \* a call of Session.Close is in progress
  control,    \* a control handler is installed
  ctl,        \* control frames sent
  panicked,   \* the process at this end died of a panic
  loop,       \* readLoop: "read", "deliver" or "stopped"
  held,       \* the stream and payload readLoop delivers
  streams,    \* Session.streams
  closed,     \* Stream.closed, .done, .readErr and .writeErr, set together
  remoteEOF,  \* Stream.remoteEOF, and Stream.reads closed
  localEOF,   \* Stream.localEOF
  reads,      \* contents of the channel Stream.reads
  ack,        \* contents of the channel Stream.ack (at the opener)
  opener,     \* progress of Open
  handler,    \* progress of the accepting handler
  writer,     \* progress of the writing goroutine
  reader,     \* progress of the reading goroutine
  sent,       \* history: Data frames handed to the connection
  got         \* history: payloads returned by Read

connVars == <<load, conn, broken>>
sessVars == <<sclosed, todo, closing, control, ctl, panicked>>
loopVars == <<loop, held>>
closeVars == <<streams, closed, remoteEOF>>
chanVars == <<localEOF, reads, ack>>
appVars == <<opener, handler, writer, reader, sent, got>>
vars == <<wire, connVars, sessVars, loopVars, closeVars, chanVars, appVars>>

Frame == [type : {"Open", "OpenAck", "Data", "Close", "Error"}, id : Ids, n : Nat]
         \cup [type : {"Control"}, id : {0}, n : {0}]

TypeOK ==
  /\ load \in Load
  /\ wire \in [Ends -> Seq(Frame)]
  /\ conn \in [Ends -> BOOLEAN]
  /\ broken \in BOOLEAN
  /\ sclosed \in [Ends -> BOOLEAN]
  /\ todo \in [Ends -> SUBSET Ids]
  /\ closing \in [Ends -> BOOLEAN]
  /\ control \in [Ends -> BOOLEAN]
  /\ ctl \in [Ends -> Nat]
  /\ panicked \in [Ends -> BOOLEAN]
  /\ loop \in [Ends -> {"read", "deliver", "stopped"}]
  /\ held \in [Ends -> [id : Ids \cup {0}, n : Nat]]
  /\ streams \in [Ends -> SUBSET Ids]
  /\ closed \in [Ends -> SUBSET Ids]
  /\ remoteEOF \in [Ends -> SUBSET Ids]
  /\ localEOF \in [Ends -> SUBSET Ids]
  /\ reads \in [Ends -> [Ids -> Seq(Nat)]]
  /\ ack \in [Ids -> {"none", "ok", "nok"}]
  /\ opener \in [Ids -> {"idle", "registered", "waiting", "open", "failed",
                         "cancelled"}]
  /\ handler \in [Ids -> {"none", "incoming", "overflow", "handling",
                          "accepted", "ended"}]
  /\ writer \in [Ends -> [Ids -> {"idle", "next", "chunk", "done"}]]
  /\ reader \in [Ends -> [Ids -> {"idle", "select", "eof", "err"}]]
  /\ sent \in [Ends -> [Ids -> Nat]]
  /\ got \in [Ends -> [Ids -> Seq(Nat)]]

\* Whether the owner installs the control handler before Start (the client's
\* startSession) or after it (waitForRegistration, on the session of an exit).
handlerAfterStart(e) == FALSE
handlerAtStart(e) == e \in load.handlers

NoFrame == [id |-> 0, n |-> 0]

Init ==
  /\ load \in Loads
  /\ wire = [e \in Ends |-> <<>>]
  /\ conn = [e \in Ends |-> TRUE]
  /\ broken = FALSE
  /\ sclosed = [e \in Ends |-> FALSE]
  /\ todo = [e \in Ends |-> {}]
  /\ closing = [e \in Ends |-> FALSE]
  /\ control = [e \in Ends |-> handlerAtStart(e)]
  /\ ctl = [e \in Ends |-> 0]
  /\ panicked = [e \in Ends |-> FALSE]
  /\ loop = [e \in Ends |-> "read"]
  /\ held = [e \in Ends |-> NoFrame]
  /\ streams = [e \in Ends |-> {}]
  /\ closed = [e \in Ends |-> {}]
  /\ remoteEOF = [e \in Ends |-> {}]
  /\ localEOF = [e \in Ends |-> {}]
  /\ reads = [e \in Ends |-> [x \in Ids |-> <<>>]]
  /\ ack = [x \in Ids |-> "none"]
  /\ opener = [x \in Ids |-> "idle"]
  /\ handler = [x \in Ids |-> "none"]
  /\ writer = [e \in Ends |-> [x \in Ids |-> "idle"]]
  /\ reader = [e \in Ends |-> [x \in Ids |-> "idle"]]
  /\ sent = [e \in Ends |-> [x \in Ids |-> 0]]
  /\ got = [e \in Ends |-> [x \in Ids |-> <<>>]]

-----------------------------------------------------------------------------
(* The connection and the pieces shared by several operations.             *)

Peer(e) == IF e = "opener" THEN "acceptor" ELSE "opener"

F(type, x, n) == [type |-> type, id |-> x, n |-> n]

\* Frames written while Up arrive; later ones are lost, with or without an
\* error being reported to the writer.
Up == ~broken /\ \A e \in Ends : conn[e]

\* protocol.Writer.Write: the mutex makes a frame one unit on the wire.
Put(e, f) == wire' = [wire EXCEPT ![Peer(e)] = IF Up THEN Append(@, f) ELSE @]

\* Session.writeFrame and writeFrameJSON where the caller ignores the error:
\* nothing is written once the session is closed.
PutUnlessClosed(e, f) == IF sclosed[e] THEN UNCHANGED wire ELSE Put(e, f)

\* Stream.forceClose on the streams of S (closeOnce: a second call is void),
\* with the removeStream it ends in.
forceClose(e, S) ==
  /\ closed' = [closed EXCEPT ![e] = @ \cup S]
  /\ remoteEOF' = [remoteEOF EXCEPT ![e] = @ \cup S]
  /\ streams' = [streams EXCEPT ![e] = @ \ S]

\* The copy of streams that shutdown takes under Session.mu.
noCopy(e) == {}
streamsCopy(e) == streams[e]

\* Session.shutdown up to close(done); ShutdownNext is the loop after it.
shutdown(e) ==
  IF sclosed[e]
  THEN UNCHANGED <<sclosed, todo>>
  ELSE /\ sclosed' = [sclosed EXCEPT ![e] = TRUE]
       /\ todo' = [todo EXCEPT ![e] = streamsCopy(e)]

ShutdownNext(e) ==
  /\ ~panicked[e]
  /\ \E x \in todo[e] : /\ forceClose(e, {x})
                        /\ todo' = [todo EXCEPT ![e] = @ \ {x}]
  /\ UNCHANGED <<wire, connVars, sclosed, closing, control, ctl, panicked,
                 loopVars, chanVars, appVars>>

\* Session.Close: shutdown, then (CloseConn) conn.Close.
Close(e) ==
  /\ ~panicked[e] /\ e \in load.closers /\ ~closing[e]
  /\ closing' = [closing EXCEPT ![e] = TRUE]
  /\ shutdown(e)
  /\ UNCHANGED <<wire, connVars, control, ctl, panicked, loopVars, closeVars,
                 chanVars, appVars>>

CloseConn(e) ==
  /\ ~panicked[e] /\ closing[e] /\ todo[e] = {} /\ conn[e]
  /\ conn' = [conn EXCEPT ![e] = FALSE]
  /\ UNCHANGED <<load, wire, broken, sessVars, loopVars, closeVars, chanVars, appVars>>

\* The network fails.
Break ==
  /\ load.mayBreak /\ Up
  /\ broken' = TRUE
  /\ UNCHANGED <<load, wire, conn, sessVars, loopVars, closeVars, chanVars, appVars>>

SetControlHandler(e) ==
  /\ ~panicked[e] /\ ~control[e]
  /\ control' = [control EXCEPT ![e] = TRUE]
  /\ UNCHANGED <<wire, connVars, sclosed, todo, closing, ctl, panicked,
                 loopVars, closeVars, chanVars, appVars>>

\* Session.WriteJSON of a heartbeat, registration or catalog frame.
WriteJSON(e) ==
  /\ ~panicked[e] /\ ~sclosed[e] /\ ctl[e] < load.control[e]
  /\ ctl' = [ctl EXCEPT ![e] = @ + 1]
  /\ Put(e, F("Control", 0, 0))
  /\ UNCHANGED <<connVars, sclosed, todo, closing, control, panicked,
                 loopVars, closeVars, chanVars, appVars>>

-----------------------------------------------------------------------------
(* Session.Open                                                            *)

\* The test of Session.closed that precedes the registration.
neverRefused == FALSE
openRefused == sclosed["opener"]

\* Up to the registration in streams, under Session.mu.
Open(x) ==
  /\ ~panicked["opener"] /\ opener[x] = "idle" /\ x \in load.ids
  /\ IF openRefused
     THEN /\ opener' = [opener EXCEPT ![x] = "failed"]
          /\ UNCHANGED streams
     ELSE /\ opener' = [opener EXCEPT ![x] = "registered"]
          /\ streams' = [streams EXCEPT !["opener"] = @ \cup {x}]
  /\ UNCHANGED <<wire, connVars, sessVars, loopVars, closed, remoteEOF,
                 chanVars, handler, writer, reader, sent, got>>

\* The Open frame; n = 0 stands for a request that DecodeOpen refuses.  The
\* write does not look at Session.closed.
OpenWrite(x) ==
  /\ ~panicked["opener"] /\ opener[x] = "registered"
  /\ \/ /\ \E valid \in {0, 1} : Put("opener", F("Open", x, valid))
        /\ opener' = [opener EXCEPT ![x] = "waiting"]
        /\ UNCHANGED closeVars
     \/ /\ ~Up
        /\ forceClose("opener", {x})
        /\ opener' = [opener EXCEPT ![x] = "failed"]
        /\ UNCHANGED wire
  /\ UNCHANGED <<connVars, sessVars, loopVars, chanVars, handler, writer,
                 reader, sent, got>>

\* case <-stream.done, case <-s.done
neverDone(x) == FALSE
openDone(x) == x \in closed["opener"] \/ sclosed["opener"]

\* The select: any case that is ready may be the one taken.
OpenSelect(x) ==
  /\ ~panicked["opener"] /\ opener[x] = "waiting"
  /\ \/ /\ ack[x] = "ok"
        /\ opener' = [opener EXCEPT ![x] = "open"]
        /\ UNCHANGED closeVars
     \/ /\ ack[x] = "nok"
        /\ opener' = [opener EXCEPT ![x] = "failed"]
        /\ forceClose("opener", {x})
     \/ /\ openDone(x)
        /\ opener' = [opener EXCEPT ![x] = "failed"]
        /\ UNCHANGED closeVars
  /\ UNCHANGED <<wire, connVars, sessVars, loopVars, chanVars, handler,
                 writer, reader, sent, got>>

\* case <-ctx.Done()
OpenCancel(x) ==
  /\ ~panicked["opener"] /\ opener[x] = "waiting"
  /\ opener' = [opener EXCEPT ![x] = "cancelled"]
  /\ forceClose("opener", {x})
  /\ UNCHANGED <<wire, connVars, sessVars, loopVars, chanVars, handler,
                 writer, reader, sent, got>>

-----------------------------------------------------------------------------
(* Session.readLoop: one action per frame type, and one for a read error.  *)

Reading(e) == ~panicked[e] /\ loop[e] = "read" /\ conn[e]

Arrives(e, type) == Reading(e) /\ wire[e] # <<>> /\ Head(wire[e]).type = type

\* The frame is consumed; Answer also writes f back.
Take(e) == wire' = [wire EXCEPT ![e] = Tail(@)]
Answer(e, f) ==
  wire' = [wire EXCEPT ![e] = Tail(@),
                       ![Peer(e)] = IF Up /\ ~sclosed[e] THEN Append(@, f) ELSE @]

\* ReadFrame fails: the loop shuts the session down and returns.
ReadError(e) ==
  /\ ~panicked[e] /\ loop[e] = "read" /\ ~Up
  /\ shutdown(e)
  /\ loop' = [loop EXCEPT ![e] = "stopped"]
  /\ UNCHANGED <<wire, connVars, closing, control, ctl, panicked, held,
                 closeVars, chanVars, appVars>>

\* dispatch puts the stream into incoming, or hands it to a goroutine of its
\* own when the channel is full.
Dispatched ==
  IF Cardinality({y \in Ids : handler[y] = "incoming"}) < IncomingSize
  THEN "incoming" ELSE "overflow"

ReadOpen ==
  /\ Arrives("acceptor", "Open")
  /\ LET f == Head(wire["acceptor"]) IN
     \/ /\ f.n = 0
        /\ Answer("acceptor", F("Error", f.id, 0))
        /\ UNCHANGED <<closeVars, handler>>
     \/ /\ f.n # 0 /\ sclosed["acceptor"]
        /\ Take("acceptor")
        /\ forceClose("acceptor", {f.id})
        /\ UNCHANGED handler
     \/ /\ f.n # 0 /\ ~sclosed["acceptor"]
        /\ Take("acceptor")
        /\ streams' = [streams EXCEPT !["acceptor"] = @ \cup {f.id}]
        /\ handler' = [handler EXCEPT ![f.id] = Dispatched]
        /\ UNCHANGED <<closed, remoteEOF>>
  /\ UNCHANGED <<connVars, sessVars, loopVars, chanVars, opener, writer,
                 reader, sent, got>>

ackAlwaysOK(f) == "ok"
ackOf(f) == IF f.n = 1 THEN "ok" ELSE "nok"

\* The acknowledgement goes into the one-slot channel of a known stream.
ReadOpenAck ==
  /\ Arrives("opener", "OpenAck")
  /\ LET f == Head(wire["opener"]) IN
     ack' = IF f.id \in streams["opener"] /\ ack[f.id] = "none"
            THEN [ack EXCEPT ![f.id] = ackOf(f)]
            ELSE ack
  /\ Take("opener")
  /\ UNCHANGED <<connVars, sessVars, loopVars, closeVars, localEOF, reads,
                 appVars>>

\* lookup of the stream of a Data frame; deliver is the next step.
ReadData(e) ==
  /\ Arrives(e, "Data")
  /\ LET f == Head(wire[e]) IN
     IF f.id \in streams[e]
     THEN /\ Take(e)
          /\ loop' = [loop EXCEPT ![e] = "deliver"]
          /\ held' = [held EXCEPT ![e] = [id |-> f.id, n |-> f.n]]
     ELSE /\ Answer(e, F("Close", f.id, 0))
          /\ UNCHANGED loopVars
  /\ UNCHANGED <<connVars, sessVars, closeVars, chanVars, appVars>>

\* Stream.deliver.  The select blocks while reads is full.  A stream that was
\* closed after the lookup offers two ready cases: done, which returns an
\* error (and the forceClose that follows is void), and a send on the closed
\* channel reads, which panics.
Deliver(e) ==
  /\ ~panicked[e] /\ loop[e] = "deliver"
  /\ LET x == held[e].id IN
     \/ /\ x \notin remoteEOF[e] /\ Len(reads[e][x]) < BufferSize
        /\ reads' = [reads EXCEPT ![e][x] = Append(@, held[e].n)]
        /\ loop' = [loop EXCEPT ![e] = "read"]
        /\ UNCHANGED <<panicked, conn>>
     \/ /\ x \in closed[e]
        /\ loop' = [loop EXCEPT ![e] = "read"]
        /\ UNCHANGED <<reads, panicked, conn>>
     \/ /\ x \in remoteEOF[e]
        /\ loop' = [loop EXCEPT ![e] = "stopped"]
        /\ panicked' = [panicked EXCEPT ![e] = TRUE]
        /\ conn' = [conn EXCEPT ![e] = FALSE]
        /\ UNCHANGED reads
  /\ held' = [held EXCEPT ![e] = NoFrame]
  /\ UNCHANGED <<load, wire, broken, sclosed, todo, closing, control, ctl,
                 closeVars, localEOF, ack, appVars>>

\* Stream.remoteClose of a known stream.
noRemoteClose(e, x) == UNCHANGED remoteEOF
remoteClose(e, x) ==
  remoteEOF' = [remoteEOF EXCEPT ![e] = @ \cup ({x} \cap streams[e])]

ReadClose(e) ==
  /\ Arrives(e, "Close")
  /\ remoteClose(e, Head(wire[e]).id)
  /\ Take(e)
  /\ UNCHANGED <<connVars, sessVars, loopVars, streams, closed, chanVars,
                 appVars>>

ReadErrorFrame(e) ==
  /\ Arrives(e, "Error")
  /\ forceClose(e, {Head(wire[e]).id} \cap streams[e])
  /\ Take(e)
  /\ UNCHANGED <<connVars, sessVars, loopVars, chanVars, appVars>>

\* A control frame with no handler installed ends the session; the
\* connection itself stays open.
ReadControl(e) ==
  /\ Arrives(e, "Control")
  /\ Take(e)
  /\ IF control[e]
     THEN UNCHANGED <<sclosed, todo, loop>>
     ELSE shutdown(e) /\ loop' = [loop EXCEPT ![e] = "stopped"]
  /\ UNCHANGED <<connVars, closing, control, ctl, panicked, held, closeVars,
                 chanVars, appVars>>

readLoop(e) ==
  \/ ReadError(e) \/ ReadData(e) \/ Deliver(e) \/ ReadClose(e)
  \/ ReadErrorFrame(e) \/ ReadControl(e)
  \/ e = "acceptor" /\ ReadOpen
  \/ e = "opener" /\ ReadOpenAck

-----------------------------------------------------------------------------
(* dispatchLoop, and Stream.Accept and Reject as the handler calls them.   *)

\* The goroutine of dispatch: room in incoming, or the session is done.
DispatchOverflow(x) ==
  /\ ~panicked["acceptor"] /\ handler[x] = "overflow"
  /\ \/ /\ Dispatched = "incoming"
        /\ handler' = [handler EXCEPT ![x] = "incoming"]
        /\ UNCHANGED closeVars
     \/ /\ sclosed["acceptor"]
        /\ handler' = [handler EXCEPT ![x] = "ended"]
        /\ forceClose("acceptor", {x})
  /\ UNCHANGED <<wire, connVars, sessVars, loopVars, chanVars, opener,
                 writer, reader, sent, got>>

\* Taken from incoming: a goroutine runs the handler.  Once done is closed
\* the loop may return instead, leaving the stream in the channel.
dispatchLoop(x) ==
  /\ ~panicked["acceptor"] /\ handler[x] = "incoming"
  /\ handler' = [handler EXCEPT ![x] = "handling"]
  /\ UNCHANGED <<wire, connVars, sessVars, loopVars, closeVars, chanVars,
                 opener, writer, reader, sent, got>>

\* writeFrameJSON of an Ack, under the ID of the stream.
openAck(x, ok) == F("OpenAck", x, ok)

Accept(x) ==
  /\ ~panicked["acceptor"] /\ handler[x] = "handling"
  /\ \/ /\ x \in closed["acceptor"]
        /\ handler' = [handler EXCEPT ![x] = "ended"]
        /\ UNCHANGED <<wire, closeVars>>
     \/ /\ x \notin closed["acceptor"]
        /\ sclosed["acceptor"] \/ ~Up
        /\ handler' = [handler EXCEPT ![x] = "ended"]
        /\ forceClose("acceptor", {x})
        /\ UNCHANGED wire
     \/ /\ x \notin closed["acceptor"] /\ ~sclosed["acceptor"]
        /\ handler' = [handler EXCEPT ![x] = "accepted"]
        /\ Put("acceptor", openAck(x, 1))
        /\ UNCHANGED closeVars
  /\ UNCHANGED <<connVars, sessVars, loopVars, chanVars, opener, writer,
                 reader, sent, got>>

Reject(x) ==
  /\ ~panicked["acceptor"] /\ handler[x] = "handling"
  /\ handler' = [handler EXCEPT ![x] = "ended"]
  /\ PutUnlessClosed("acceptor", openAck(x, 0))
  /\ forceClose("acceptor", {x})
  /\ UNCHANGED <<connVars, sessVars, loopVars, chanVars, opener, writer,
                 reader, sent, got>>

-----------------------------------------------------------------------------
(* Stream.Write, CloseWrite and Read, as the copy goroutines of a relay    *)
(* call them: one writer, which writes and then closes, and one reader.    *)

Established(e, x) ==
  /\ ~panicked[e]
  /\ IF e = "opener" THEN opener[x] = "open" ELSE handler[x] = "accepted"

SetWriter(e, x, pc) == writer' = [writer EXCEPT ![e][x] = pc]
SetReader(e, x, pc) == reader' = [reader EXCEPT ![e][x] = pc]

\* The checks of writeErr and closed, made once per Write.
Write(e, x) ==
  /\ Established(e, x) /\ writer[e][x] = "idle" /\ sent[e][x] < load.data[e]
  /\ SetWriter(e, x, IF x \in closed[e] THEN "done" ELSE "next")
  /\ UNCHANGED <<wire, connVars, sessVars, loopVars, closeVars, chanVars,
                 opener, handler, reader, sent, got>>

\* Before each chunk of 64 KiB, writeFrame looks at the session ...
WriteNext(e, x) ==
  /\ Established(e, x) /\ writer[e][x] = "next"
  /\ IF sclosed[e]
     THEN SetWriter(e, x, "done") /\ forceClose(e, {x})
     ELSE SetWriter(e, x, "chunk") /\ UNCHANGED closeVars
  /\ UNCHANGED <<wire, connVars, sessVars, loopVars, chanVars, opener,
                 handler, reader, sent, got>>

\* ... and then writes the chunk, whatever happened in between.
WriteChunk(e, x) ==
  /\ Established(e, x) /\ writer[e][x] = "chunk"
  /\ \/ /\ Put(e, F("Data", x, sent[e][x] + 1))
        /\ sent' = [sent EXCEPT ![e][x] = @ + 1]
        /\ \/ SetWriter(e, x, "idle")
           \/ sent[e][x] + 1 < load.data[e] /\ SetWriter(e, x, "next")
        /\ UNCHANGED closeVars
     \/ /\ ~Up
        /\ SetWriter(e, x, "done")
        /\ forceClose(e, {x})
        /\ UNCHANGED <<wire, sent>>
  /\ UNCHANGED <<connVars, sessVars, loopVars, chanVars, opener, handler,
                 reader, got>>

CloseWrite(e, x) ==
  /\ Established(e, x) /\ writer[e][x] = "idle"
  /\ SetWriter(e, x, "done")
  /\ IF x \in closed[e]
     THEN UNCHANGED <<wire, localEOF>>
     ELSE /\ localEOF' = [localEOF EXCEPT ![e] = @ \cup {x}]
          /\ PutUnlessClosed(e, F("Close", x, 0))
  /\ UNCHANGED <<connVars, sessVars, loopVars, closeVars, reads, ack, opener,
                 handler, reader, sent, got>>

\* The check of readErr, then the select.
Read(e, x) ==
  /\ Established(e, x) /\ reader[e][x] = "idle"
  /\ SetReader(e, x, IF x \in closed[e] THEN "err" ELSE "select")
  /\ UNCHANGED <<wire, connVars, sessVars, loopVars, closeVars, chanVars,
                 opener, handler, writer, sent, got>>

\* The end of reads is io.EOF only while readErr is not set.
alwaysEOF(e, x) == "eof"
endOfReads(e, x) == IF x \in closed[e] THEN "err" ELSE "eof"

\* A closed channel is drained before it reports its end.
notDrained(e, x) == x \in remoteEOF[e]
atEnd(e, x) == reads[e][x] = <<>> /\ x \in remoteEOF[e]

\* The channel (and the buffer of a payload read in parts) after a Read.
bufferKept(c) == c
received(c) == Tail(c)

ReadSelect(e, x) ==
  /\ Established(e, x) /\ reader[e][x] = "select"
  /\ \/ /\ reads[e][x] # <<>>
        /\ got' = [got EXCEPT ![e][x] = Append(@, Head(reads[e][x]))]
        /\ reads' = [reads EXCEPT ![e][x] = received(@)]
        /\ SetReader(e, x, "idle")
     \/ /\ atEnd(e, x)
        /\ SetReader(e, x, endOfReads(e, x))
        /\ UNCHANGED <<got, reads>>
     \/ /\ x \in closed[e]
        /\ SetReader(e, x, "err")
        /\ UNCHANGED <<got, reads>>
  /\ UNCHANGED <<wire, connVars, sessVars, loopVars, closeVars, localEOF,
                 ack, opener, handler, writer, sent>>

-----------------------------------------------------------------------------
Next ==
  \/ Break
  \/ \E e \in Ends :
       \/ readLoop(e) \/ ShutdownNext(e) \/ Close(e) \/ CloseConn(e)
       \/ SetControlHandler(e) \/ WriteJSON(e)
       \/ \E x \in Ids :
            \/ Write(e, x) \/ WriteNext(e, x) \/ WriteChunk(e, x)
            \/ CloseWrite(e, x) \/ Read(e, x) \/ ReadSelect(e, x)
  \/ \E x \in Ids :
       \/ Open(x) \/ OpenWrite(x) \/ OpenSelect(x) \/ OpenCancel(x)
       \/ DispatchOverflow(x) \/ dispatchLoop(x) \/ Accept(x) \/ Reject(x)

Spec == Init /\ [][Next]_vars

(* The Go scheduler runs every goroutine that can run.  No fairness is     *)
(* assumed of the network, of cancellation, of the owner's Close or of new *)
(* requests and writes; a relay keeps reading and, once it starts, ends.   *)
Fairness ==
  /\ \A e \in Ends :
       /\ WF_vars(readLoop(e)) /\ WF_vars(ShutdownNext(e))
       /\ WF_vars(CloseConn(e)) /\ WF_vars(SetControlHandler(e))
       /\ \A x \in Ids :
            /\ WF_vars(WriteNext(e, x)) /\ WF_vars(WriteChunk(e, x))
            /\ WF_vars(Read(e, x)) /\ WF_vars(ReadSelect(e, x))
  /\ \A x \in Ids :
       /\ WF_vars(OpenWrite(x)) /\ WF_vars(OpenSelect(x))
       /\ WF_vars(DispatchOverflow(x))
       /\ WF_vars(~sclosed["acceptor"] /\ dispatchLoop(x))
       /\ WF_vars(Accept(x) \/ Reject(x))

FairSpec == Spec /\ Fairness

-----------------------------------------------------------------------------
(* Properties                                                              *)

\* What Read returned at one end is, in order and without a gap, what Write
\* sent at the other end, whatever closes, breaks or is cancelled meanwhile.
StreamIntegrity ==
  \A e \in Ends, x \in Ids :
    /\ Len(got[e][x]) <= sent[Peer(e)][x]
    /\ \A i \in 1..Len(got[e][x]) : got[e][x][i] = i

\* A reader is told io.EOF only after everything the peer ever wrote; a
\* transfer cut short by a shutdown, a break or a rejection ends in an error.
EOFIntegrity ==
  \A e \in Ends, x \in Ids :
    reader[e][x] = "eof" => Len(got[e][x]) = sent[Peer(e)][x]

\* Open returns a stream only if the handler at the other end accepted it.
OpenImpliesAccepted ==
  \A x \in Ids : opener[x] = "open" => handler[x] = "accepted"

\* When shutdown has gone through its copy of streams, no stream that was ever
\* registered is left open: none can be registered behind its back.
ShutdownClosesAll ==
  \A e \in Ends :
    sclosed[e] /\ todo[e] = {} =>
      /\ streams[e] = {}
      /\ \A x \in Ids : Established(e, x) => x \in closed[e]

\* An end that has its control handler in place before Start loses its session
\* only because its owner closed it or the connection went away; no order of
\* arriving frames ends it.
EndsOnlyForCause ==
  \A e \in load.handlers : sclosed[e] => closing[e] \/ ~Up

outcome == [e \in Ends |-> [x \in Ids |->
              IF reader[e][x] \in {"eof", "err"} THEN reader[e][x] ELSE "open"]]

Pipes == INSTANCE Pipe WITH Other <- Peer

\* Every stream of the session is a pair of pipes: the detailed protocol
\* implements the abstract one.  Beyond the two invariants above, no step ever
\* sends after the other end was told io.EOF or takes back an outcome.
ImplementsPipes == Pipes!Spec

\* readLoop never sends on the channel reads of a stream that was closed.
NoSendOnClosedReads == \A e \in Ends : ~panicked[e]

\* Open always returns.
OpenReturns ==
  \A x \in Ids :
    opener[x] \in {"registered", "waiting"} ~>
      (opener[x] \notin {"registered", "waiting"} \/ panicked["opener"])

\* A half-close reaches the reader at the other end: it ends, in io.EOF or in
\* an error.
HalfCloseEndsReader ==
  \A e \in Ends, x \in Ids :
    (Established(Peer(e), x) /\ x \in localEOF[e]) ~>
      (reader[Peer(e)][x] \in {"eof", "err"} \/ panicked[Peer(e)])

\* Shutting a session down releases every reader of its streams.
ShutdownEndsReaders ==
  \A e \in Ends, x \in Ids :
    (sclosed[e] /\ Established(e, x)) ~>
      (reader[e][x] \in {"eof", "err"} \/ panicked[e])
=============================================================================
