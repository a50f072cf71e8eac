----------------------------- MODULE LocalProxy -----------------------------
(***************************************************************************)
(* C's local side once Runtime.Start has returned: the HTTP and the SOCKS5 *)
(* listener (internal/proxy), a handler goroutine per connection with the  *)
(* two copies of proxy.Relay, the count of active streams, and Shutdown,   *)
(* which closes the listeners, drains the streams and closes the manager.  *)
(* What Start and Shutdown do to the system proxy is the subject of        *)
(* ProxyJournal, and what a stream does between C and S that of Session.   *)
(***************************************************************************)
EXTENDS Naturals, FiniteSets, Sequences

CONSTANTS Conns,    \* connections of local applications
          Loads,    \* what the applications may do with them, see Load
          Drain     \* whether Shutdown is called with drain > 0

Kinds == {"connect", "plain", "socks"}

\* Of a connection: the requests it may make, whether its application sends
\* data without waiting for the reply, and two bounds: the items that the
\* application sends, and the items of the destination that wait to be read.
Load == [kinds : SUBSET Kinds, eager : BOOLEAN, up : Nat, down : Nat]

ASSUME LocalProxyAssumption ==
  /\ IsFiniteSet(Conns)
  /\ \A l \in Loads : l \in [Conns -> Load]
  /\ Drain \in BOOLEAN

VARIABLES
  load,       \* one of Loads
  shut,       \* progress of Runtime.Shutdown
  expired,    \* the drain ended by its timer or context, or was not asked for
  active,     \* Runtime.active
  kind,       \* what a connection asks for: CONNECT, a plain request, SOCKS5
  pc,         \* where its handler is
  app,        \* the application: "open", "half" (sent its EOF) or "away"
  sent,       \* items it sent
  replied,    \* it was told that the tunnel is open
  socket,     \* items in the socket
  buf,        \* items in the handler's bufio.Reader
  atDest,     \* items written to the stream
  target,     \* the stream: counted from Runtime.active.Add(1) to Close
  dead,       \* its session is gone
  localEOF,   \* CloseWrite sent its Close frame
  destEOF,    \* the destination ended its side
  pending,    \* its items that are not yet read
  up, down,   \* the two copies of Relay
  inFlight    \* history: the counted streams when Shutdown began

shutVars == <<load, shut, expired, inFlight>>
appVars == <<kind, app, sent, replied>>
upVars == <<socket, buf, atDest, up, localEOF>>
downVars == <<destEOF, pending, down>>
streamVars == <<active, target>>
vars == <<shutVars, pc, appVars, upVars, downVars, streamVars, dead>>

TypeOK ==
  /\ load \in [Conns -> Load]
  /\ shut \in {"none", "http", "socks", "drain", "manager", "done"}
  /\ expired \in BOOLEAN
  /\ active \in Nat
  /\ kind \in [Conns -> Kinds]
  /\ pc \in [Conns -> {"none", "reading", "dialing", "dialed", "reply", "writing",
                       "relay", "deferred", "gone"}]
  /\ app \in [Conns -> {"open", "half", "away"}]
  /\ sent \in [Conns -> Nat] /\ \A c \in Conns : sent[c] <= load[c].up
  /\ socket \in [Conns -> Seq(Nat)] /\ buf \in [Conns -> Seq(Nat)]
  /\ atDest \in [Conns -> Seq(Nat)]
  /\ target \in [Conns -> {"none", "open", "counted", "closed"}]
  /\ replied \in SUBSET Conns /\ inFlight \in SUBSET Conns
  /\ dead \in SUBSET Conns /\ localEOF \in SUBSET Conns /\ destEOF \in SUBSET Conns
  /\ pending \in [Conns -> Nat] /\ \A c \in Conns : pending[c] <= load[c].down
  /\ up \in [Conns -> {"idle", "copying", "done"}]
  /\ down \in [Conns -> {"idle", "copying", "done"}]

Init ==
  /\ load \in Loads
  /\ shut = "none" /\ expired = FALSE /\ inFlight = {}
  /\ active = 0
  /\ kind = [c \in Conns |-> "connect"]
  /\ pc = [c \in Conns |-> "none"]
  /\ app = [c \in Conns |-> "open"]
  /\ sent = [c \in Conns |-> 0]
  /\ socket = [c \in Conns |-> <<>>] /\ buf = [c \in Conns |-> <<>>]
  /\ atDest = [c \in Conns |-> <<>>]
  /\ target = [c \in Conns |-> "none"]
  /\ replied = {} /\ dead = {} /\ localEOF = {} /\ destEOF = {}
  /\ pending = [c \in Conns |-> 0]
  /\ up = [c \in Conns |-> "idle"] /\ down = [c \in Conns |-> "idle"]

-----------------------------------------------------------------------------
(* Runtime.Shutdown, up to the closing of the manager.                     *)

\* Streams that the drain waits for.
Counted == {c \in Conns : target[c] = "counted"}

\* The session ends, and with it every stream.
Sever == dead' = dead \cup {c \in Conns : target[c] \in {"open", "counted"}}

\* Under Runtime.mu: closed is set and the servers are copied.
BeginShutdown ==
  /\ shut = "none"
  /\ shut' = "http" /\ expired' = ~Drain
  /\ inFlight' = Counted
  /\ UNCHANGED <<load, pc, appVars, upVars, downVars, streamVars, dead>>

\* httpServer.Close, then socksServer.Close.
CloseListener ==
  /\ \/ shut = "http" /\ shut' = "socks"
     \/ shut = "socks" /\ shut' = IF Drain THEN "drain" ELSE "manager"
  /\ UNCHANGED <<load, expired, inFlight, pc, appVars, upVars, downVars, streamVars, dead>>

\* A tick of the 20ms ticker ends the drain when no stream is active ...
almostDrained == active <= 1
drained == active = 0

DrainTick ==
  /\ shut = "drain" /\ drained
  /\ shut' = "manager"
  /\ UNCHANGED <<load, expired, inFlight, pc, appVars, upVars, downVars, streamVars, dead>>

\* ... and so do the deadline and the context of Shutdown.
DrainExpires ==
  /\ shut = "drain"
  /\ shut' = "manager" /\ expired' = TRUE
  /\ UNCHANGED <<load, inFlight, pc, appVars, upVars, downVars, streamVars, dead>>

ManagerClose ==
  /\ shut = "manager"
  /\ shut' = "done" /\ Sever
  /\ UNCHANGED <<load, expired, inFlight, pc, appVars, upVars, downVars, streamVars>>

Shutdown == CloseListener \/ DrainTick \/ DrainExpires \/ ManagerClose

-----------------------------------------------------------------------------
(* Applications, destinations and the network.                             *)

\* A listener accepts until Shutdown has closed it.
accepting(k) == shut = "none" \/ shut = "http" \/ (k = "socks" /\ shut = "socks")

\* serve accepts a connection: go handle().
Accept(c, k) ==
  /\ pc[c] = "none" /\ k \in load[c].kinds /\ accepting(k)
  /\ pc' = [pc EXCEPT ![c] = "reading"]
  /\ kind' = [kind EXCEPT ![c] = k]
  /\ UNCHANGED <<shutVars, app, sent, replied, upVars, downVars, streamVars, dead>>

Connected(c) == pc[c] \notin {"none", "gone"}

\* The application sends the body of its request, or data for the tunnel: once
\* told that the tunnel is open, or at once if it is eager.
AppSend(c) ==
  /\ Connected(c) /\ app[c] = "open" /\ sent[c] < load[c].up
  /\ kind[c] = "plain" \/ c \in replied \/ load[c].eager
  /\ sent' = [sent EXCEPT ![c] = @ + 1]
  /\ socket' = [socket EXCEPT ![c] = Append(@, sent[c] + 1)]
  /\ UNCHANGED <<shutVars, pc, kind, app, replied, buf, atDest, up, localEOF, downVars,
                 streamVars, dead>>

\* It ends its sending side, or both sides.
AppEnds(c, to) ==
  /\ Connected(c) /\ app[c] = "open"
  /\ app' = [app EXCEPT ![c] = to]
  /\ UNCHANGED <<shutVars, pc, kind, sent, replied, upVars, downVars, streamVars, dead>>

\* The destination sends, or ends its side.
StreamOpen(c) == target[c] \in {"open", "counted"} /\ c \notin dead \cup destEOF

DestSend(c) ==
  /\ StreamOpen(c) /\ pending[c] < load[c].down
  /\ pending' = [pending EXCEPT ![c] = @ + 1]
  /\ UNCHANGED <<shutVars, pc, appVars, upVars, destEOF, down, streamVars, dead>>

DestEnds(c) ==
  /\ StreamOpen(c)
  /\ destEOF' = destEOF \cup {c}
  /\ UNCHANGED <<shutVars, pc, appVars, upVars, pending, down, streamVars, dead>>

\* The session to S is lost; the manager dials a new one (see Manager).
SessionLost ==
  /\ shut # "done" /\ Sever
  /\ UNCHANGED <<shutVars, pc, appVars, upVars, downVars, streamVars>>

-----------------------------------------------------------------------------
(* handle: every wait before the relay ends at the latest with the         *)
(* deadline of ApplyIdleDeadline, or after the 30s of the dial.            *)

Goto(c, from, to) == pc[c] = from /\ pc' = [pc EXCEPT ![c] = to]

\* The handler returns, connection.Close is deferred: what belongs to the
\* connection is garbage.
Return(c) ==
  /\ pc' = [pc EXCEPT ![c] = "gone"]
  /\ kind' = [kind EXCEPT ![c] = "connect"]
  /\ app' = [app EXCEPT ![c] = "open"]
  /\ sent' = [sent EXCEPT ![c] = 0]
  /\ socket' = [socket EXCEPT ![c] = <<>>] /\ buf' = [buf EXCEPT ![c] = <<>>]
  /\ atDest' = [atDest EXCEPT ![c] = <<>>]
  /\ pending' = [pending EXCEPT ![c] = 0]
  /\ up' = [up EXCEPT ![c] = "idle"] /\ down' = [down EXCEPT ![c] = "idle"]
  /\ replied' = replied \ {c} /\ dead' = dead \ {c}
  /\ localEOF' = localEOF \ {c} /\ destEOF' = destEOF \ {c}
  /\ UNCHANGED shutVars

\* How many items reading the request takes from the socket.  http.ReadRequest
\* fills a bufio.Reader with what has arrived; the SOCKS5 server reads exactly
\* the bytes of the greeting and of the request.
readAhead(c) == 0 .. Len(socket[c])
readOver(c) == IF kind[c] = "socks" THEN {0} ELSE 0 .. Len(socket[c])

ReadRequest(c) ==
  /\ Goto(c, "reading", "dialing")
  /\ \E n \in readOver(c) :
       /\ buf' = [buf EXCEPT ![c] = SubSeq(socket[c], 1, n)]
       /\ socket' = [socket EXCEPT ![c] = SubSeq(@, n + 1, Len(@))]
  /\ UNCHANGED <<shutVars, appVars, atDest, up, localEOF, downVars, streamVars, dead>>

\* The request is malformed, unsupported or too late, or the dial fails: an
\* error is written.
RequestFails(c) ==
  /\ pc[c] \in {"reading", "dialing"}
  /\ Return(c)
  /\ UNCHANGED streamVars

\* Manager.Dial returns a stream ...
Dial(c) ==
  /\ shut # "done"
  /\ Goto(c, "dialing", "dialed")
  /\ target' = [target EXCEPT ![c] = "open"]
  /\ UNCHANGED <<shutVars, appVars, upVars, downVars, active, dead>>

\* ... and managerDialer.Dial counts it.
Count(c) ==
  /\ Goto(c, "dialed", IF kind[c] = "plain" THEN "writing" ELSE "reply")
  /\ target' = [target EXCEPT ![c] = "counted"]
  /\ active' = active + 1
  /\ UNCHANGED <<shutVars, appVars, upVars, downVars, dead>>

\* The success reply, and Relay.
Reply(c) ==
  /\ Goto(c, "reply", "relay")
  /\ replied' = replied \cup {c}
  /\ up' = [up EXCEPT ![c] = "copying"] /\ down' = [down EXCEPT ![c] = "copying"]
  /\ UNCHANGED <<shutVars, kind, app, sent, socket, buf, atDest, localEOF, destEOF,
                 pending, streamVars, dead>>

\* countedStream.Close: the stream is closed, and uncounted, once.
closeOnce(c) == IF target[c] = "counted" THEN active - 1 ELSE active

CloseTarget(c) ==
  /\ active' = closeOnce(c)
  /\ target' = [target EXCEPT ![c] = "closed"]

\* The reply cannot be written or request.Write fails, because the application
\* ended, the deadline passed or the stream is dead.
leaveTarget(c) == UNCHANGED streamVars
giveUp(c) == CloseTarget(c)

HandlerFails(c) ==
  /\ pc[c] \in {"reply", "writing"}
  /\ giveUp(c)
  /\ Return(c)

\* handleHTTP: request.Write passes the body on, from the reader ...
WriteBody(c) ==
  /\ pc[c] = "writing" /\ c \notin dead
  /\ \/ /\ buf[c] # <<>>
        /\ atDest' = [atDest EXCEPT ![c] = Append(@, Head(buf[c]))]
        /\ buf' = [buf EXCEPT ![c] = Tail(@)]
        /\ UNCHANGED socket
     \/ /\ buf[c] = <<>> /\ socket[c] # <<>>
        /\ atDest' = [atDest EXCEPT ![c] = Append(@, Head(socket[c]))]
        /\ socket' = [socket EXCEPT ![c] = Tail(@)]
        /\ UNCHANGED buf
  /\ UNCHANGED <<shutVars, pc, appVars, up, localEOF, downVars, streamVars, dead>>

\* CloseWrite sends a Close frame, if there is a session to send it on.
noCloseWrite(c) == localEOF
closeWrite(c) == localEOF \cup ({c} \ dead)

\* ... then CloseWrite, and the response is copied back.
BodyWritten(c) ==
  /\ Len(atDest[c]) = load[c].up
  /\ Goto(c, "writing", "relay")
  /\ localEOF' = closeWrite(c)
  /\ up' = [up EXCEPT ![c] = "done"] /\ down' = [down EXCEPT ![c] = "copying"]
  /\ UNCHANGED <<shutVars, appVars, socket, buf, atDest, destEOF, pending, streamVars, dead>>

-----------------------------------------------------------------------------
(* Relay                                                                   *)

\* copyOne(target, connection): an item is passed on; or writing it fails, or
\* the application has ended, and then the copy ends with CloseWrite.
CopyUp(c) ==
  /\ up[c] = "copying"
  /\ \/ /\ socket[c] # <<>> /\ c \notin dead
        /\ socket' = [socket EXCEPT ![c] = Tail(@)]
        /\ atDest' = [atDest EXCEPT ![c] = Append(@, Head(socket[c]))]
        /\ UNCHANGED <<localEOF, up>>
     \/ /\ IF socket[c] = <<>> THEN app[c] # "open" ELSE c \in dead
        /\ up' = [up EXCEPT ![c] = "done"]
        /\ localEOF' = closeWrite(c)
        /\ UNCHANGED <<socket, atDest>>
  /\ UNCHANGED <<shutVars, pc, appVars, buf, downVars, streamVars, dead>>

\* copyOne(connection, target): an item is passed on; or the stream has ended,
\* or an application that is away does not take the item, and the copy ends.
CopyDown(c) ==
  /\ down[c] = "copying"
  /\ \/ /\ pending[c] > 0
        /\ pending' = [pending EXCEPT ![c] = @ - 1]
        /\ UNCHANGED down
     \/ /\ IF pending[c] = 0 THEN c \in destEOF \cup dead
                             ELSE c \in dead \/ app[c] = "away"
        /\ down' = [down EXCEPT ![c] = "done"]
        /\ UNCHANGED pending
  /\ UNCHANGED <<shutVars, pc, appVars, upVars, destEOF, streamVars, dead>>

\* Relay waits for both copies, and closes both sides.
oneDone(c) == up[c] = "done" \/ down[c] = "done"
bothDone(c) == up[c] = "done" /\ down[c] = "done"

RelayReturns(c) ==
  /\ pc[c] = "relay" /\ bothDone(c)
  /\ CloseTarget(c)
  /\ IF kind[c] = "socks"
     THEN /\ pc' = [pc EXCEPT ![c] = "deferred"]
          /\ UNCHANGED <<shutVars, appVars, upVars, downVars, dead>>
     ELSE Return(c)

\* The SOCKS5 handler has deferred another Close of the stream.
DeferredClose(c) ==
  /\ pc[c] = "deferred"
  /\ CloseTarget(c)
  /\ Return(c)

-----------------------------------------------------------------------------
Handler(c) ==
  \/ ReadRequest(c) \/ RequestFails(c) \/ Dial(c) \/ Count(c) \/ Reply(c)
  \/ HandlerFails(c) \/ WriteBody(c) \/ BodyWritten(c) \/ RelayReturns(c) \/ DeferredClose(c)

Environment(c) ==
  \/ AppSend(c) \/ AppEnds(c, "half") \/ AppEnds(c, "away")
  \/ DestSend(c) \/ DestEnds(c) \/ \E k \in Kinds : Accept(c, k)

Next ==
  \/ BeginShutdown \/ Shutdown \/ SessionLost
  \/ \E c \in Conns : Environment(c) \/ Handler(c) \/ CopyUp(c) \/ CopyDown(c)

Spec == Init /\ [][Next]_vars

(* Goroutines run on, timers fire, and waits before the relay are bounded  *)
(* by their deadlines; nothing is assumed of applications, of destinations *)
(* or of the moment Shutdown is called.                                    *)
Fairness ==
  /\ WF_vars(Shutdown)
  /\ \A c \in Conns : WF_vars(Handler(c)) /\ WF_vars(CopyUp(c)) /\ WF_vars(CopyDown(c))

FairSpec == Spec /\ Fairness

-----------------------------------------------------------------------------
(* Properties                                                              *)

\* Runtime.active is the number of handlers that have a stream: however they
\* overlap and whichever way they leave, none returns without uncounting its
\* stream, and none uncounts it twice.
ActiveCounts == active = Cardinality({c \in Conns : pc[c] \in {"reply", "writing", "relay"}})

\* A drain that ended before its time was up has waited for every stream that
\* was active when Shutdown began.
DrainSparesStreams ==
  shut \in {"manager", "done"} /\ ~expired => \A c \in inFlight : target[c] = "closed"

\* The destination gets what the application sent, in order and from the
\* first item on, and all of it before the EOF of the application.  An
\* application that sends behind a CONNECT before it is answered has no such
\* promise: what the bufio.Reader took of its data is not relayed.
UploadIntact ==
  \A c \in Conns :
    kind[c] # "connect" \/ ~load[c].eager =>
      /\ atDest[c] = [i \in 1 .. Len(atDest[c]) |-> i]
      /\ up[c] = "done" /\ c \in localEOF \ dead => Len(atDest[c]) = sent[c]

\* Relay closes a stream only after both of its directions have ended: a
\* half-closed connection still gets what the destination has to say.
ResponseSurvivesHalfClose ==
  [][\A c \in Conns :
       target[c] = "counted" /\ target'[c] = "closed" /\ c \in replied /\ app[c] # "away"
         => c \in dead \/ (c \in destEOF /\ pending[c] = 0)]_vars

\* Once an application has ended its side, its connection is released, unless
\* its end was passed on to a destination that has not ended its own side.
EndIsPassedOn ==
  \A c \in Conns :
    (pc[c] # "none" /\ app[c] # "open") ~>
      (pc[c] = "gone" \/ (c \in localEOF /\ c \notin destEOF \cup dead))
=============================================================================
