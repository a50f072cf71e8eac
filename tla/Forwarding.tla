----------------------------- MODULE Forwarding -----------------------------
(***************************************************************************)
(* One request from end to end: managerDialer.Dial at C, forwardOpen at S, *)
(* and the session between S and E, whose ends find the stream of a frame  *)
(* by the request ID it carries.  C draws the IDs from the counter of its  *)
(* session, and S passes them on to E.  What becomes of a stream between C *)
(* and S is the subject of Session; here it is delivered at once.          *)
(***************************************************************************)
EXTENDS Naturals, Sequences

CONSTANTS Clients,    \* client sessions
          Dials,      \* calls of managerDialer.Dial
          Client,     \* the client of a dial
          Exits,      \* remote exits, each with one session to S
          Direct,     \* the local exit of S
          AnyExit,    \* the request for any exit
          Want,       \* the exit selected at the client, by dial
          Fallback,   \* the dials made with fallback on
          MayCancel   \* dials that may time out

\* The first request of a dial and the one for fallback.
Requests == Dials \X {1, 2}

ASSUME ForwardingAssumption ==
  /\ Client \in [Dials -> Clients]
  /\ Direct \notin Exits /\ AnyExit \notin Exits \cup {Direct}
  /\ Want \in [Dials -> Exits \cup {Direct, AnyExit}]
  /\ Fallback \subseteq Dials
  /\ MayCancel \subseteq Dials

VARIABLES
  nextID,      \* Session.nextID, by client
  id,          \* the ID of a request, 0 before it has one
  dialer,      \* the request at C
  forward,     \* forwardOpen of the request at S
  via,         \* the exit it chose
  ack,         \* the channel Stream.ack of the stream towards E
  serve,       \* Exit.serve of the request at E
  exit,        \* an exit at S: "up", "dead" (its session), "unmapped" and "unlisted"
  sStreams, eStreams,   \* Session.streams at S and at E: the requests in it
  toE, toS,    \* frames between S and E
  upSent, downSent,     \* requests whose client, or destination, has sent
  atClient, atDest      \* history: whose bytes reached the client, the destination

conns == <<exit, sStreams, eStreams, toE, toS>>
bytes == <<upSent, downSent, atClient, atDest>>
vars == <<nextID, id, dialer, forward, via, ack, serve, conns, bytes>>

\* A frame has the ID it was sent under, and (unseen by the code) the request
\* it was sent for; of a Reject, ok is 0.
Frame == [type : {"Open", "Ack", "Data"}, id : Nat, of : Requests, ok : {0, 1}]
F(type, r, ok) == [type |-> type, id |-> id[r], of |-> r, ok |-> ok]

TypeOK ==
  /\ nextID \in [Clients -> Nat]
  /\ id \in [Requests -> Nat]
  /\ dialer \in [Requests -> {"none", "waiting", "open", "failed"}]
  /\ forward \in [Requests -> {"none", "arrived", "chosen", "dialing", "relay", "rejected"}]
  /\ via \in [Requests -> Exits \cup {Direct}]
  /\ ack \in [Requests -> {"none", "ok", "nok"}]
  /\ serve \in [Requests -> {"none", "handling", "relay", "ended"}]
  /\ exit \in [Exits -> {"up", "dead", "unmapped", "unlisted"}]
  /\ sStreams \in [Exits -> SUBSET Requests] /\ eStreams \in [Exits -> SUBSET Requests]
  /\ toE \in [Exits -> Seq(Frame)] /\ toS \in [Exits -> Seq(Frame)]
  /\ upSent \in SUBSET Requests /\ downSent \in SUBSET Requests
  /\ atClient \in [Requests -> SUBSET Requests] /\ atDest \in [Requests -> SUBSET Requests]

Init ==
  /\ nextID = [c \in Clients |-> 0]
  /\ id = [r \in Requests |-> 0]
  /\ dialer = [r \in Requests |-> "none"]
  /\ forward = [r \in Requests |-> "none"]
  /\ via = [r \in Requests |-> Direct]
  /\ ack = [r \in Requests |-> "none"]
  /\ serve = [r \in Requests |-> "none"]
  /\ exit = [e \in Exits |-> "up"]
  /\ sStreams = [e \in Exits |-> {}] /\ eStreams = [e \in Exits |-> {}]
  /\ toE = [e \in Exits |-> <<>>] /\ toS = [e \in Exits |-> <<>>]
  /\ upSent = {} /\ downSent = {}
  /\ atClient = [r \in Requests |-> {}] /\ atDest = [r \in Requests |-> {}]

-----------------------------------------------------------------------------
(* C: managerDialer.Dial                                                   *)

\* Session.Open draws the ID; the Open frame reaches S, which runs forwardOpen.
fixedID(c) == 1
newID(c) == nextID[c] + 1

Request(r) ==
  LET c == Client[r[1]] IN
  /\ dialer[r] = "none"
  /\ nextID' = [nextID EXCEPT ![c] = @ + 1]
  /\ id' = [id EXCEPT ![r] = newID(c)]
  /\ dialer' = [dialer EXCEPT ![r] = "waiting"]
  /\ forward' = [forward EXCEPT ![r] = "arrived"]
  /\ UNCHANGED <<via, ack, serve, conns, bytes>>

Dial(d) == Request(<<d, 1>>)

DialFallback(d) ==
  /\ dialer[<<d, 1>>] = "failed" /\ d \in Fallback /\ Want[d] # AnyExit
  /\ Request(<<d, 2>>)

\* The context ends; S is not told.
Cancel(r) ==
  /\ r[1] \in MayCancel /\ dialer[r] = "waiting"
  /\ dialer' = [dialer EXCEPT ![r] = "failed"]
  /\ UNCHANGED <<nextID, id, forward, via, ack, serve, conns, bytes>>

-----------------------------------------------------------------------------
(* S: forwardOpen                                                          *)

\* Stream.Accept and Reject: C hears of it if it is still waiting.
Reply(r, to) ==
  /\ dialer' = IF dialer[r] = "waiting" THEN [dialer EXCEPT ![r] = to] ELSE dialer
  /\ forward' = [forward EXCEPT ![r] = IF to = "open" THEN "relay" ELSE "rejected"]

Target(r) == IF r[2] = 1 THEN Want[r[1]] ELSE AnyExit

\* What Registry.Select may return; load may rule any of them out.
Candidates(r) ==
  {x \in Exits \cup {Direct} : /\ Target(r) \in {x, AnyExit}
                               /\ x = Direct \/ exit[x] # "unlisted"}

ForwardSelect(r) ==
  /\ forward[r] = "arrived"
  /\ \/ /\ \E x \in Candidates(r) : via' = [via EXCEPT ![r] = x]
        /\ forward' = [forward EXCEPT ![r] = "chosen"]
        /\ UNCHANGED dialer
     \/ Reply(r, "failed") /\ UNCHANGED via
  /\ UNCHANGED <<nextID, id, ack, serve, conns, bytes>>

\* The local exit: DialDestination.
ForwardDirect(r) ==
  /\ forward[r] = "chosen" /\ via[r] = Direct
  /\ Reply(r, "open") \/ Reply(r, "failed")
  /\ UNCHANGED <<nextID, id, via, ack, serve, conns, bytes>>

\* Registering a stream displaces the one that has its ID.
Register(S, r) == {q \in S : id[q] # id[r]} \cup {r}

\* A remote exit: exitConns, then Session.Open, which refuses on a dead session.
ForwardDial(r) ==
  /\ forward[r] = "chosen" /\ via[r] # Direct
  /\ IF exit[via[r]] = "up"
     THEN /\ forward' = [forward EXCEPT ![r] = "dialing"]
          /\ sStreams' = [sStreams EXCEPT ![via[r]] = Register(@, r)]
          /\ toE' = [toE EXCEPT ![via[r]] = Append(@, F("Open", r, 1))]
          /\ UNCHANGED dialer
     ELSE Reply(r, "failed") /\ UNCHANGED <<sStreams, toE>>
  /\ UNCHANGED <<nextID, id, via, ack, serve, exit, eStreams, toS, bytes>>

\* The select of Open: the acknowledgement, or the session is done.
acceptAnyAck(r) == ack[r] # "none"
accepted(r) == ack[r] = "ok"

neverDone(r) == FALSE
sessionDone(r) == exit[via[r]] # "up"

ForwardReturn(r) ==
  /\ forward[r] = "dialing"
  /\ \/ accepted(r) /\ Reply(r, "open") /\ UNCHANGED sStreams
     \/ /\ ack[r] = "nok"
        /\ Reply(r, "failed")
        /\ sStreams' = [sStreams EXCEPT ![via[r]] = @ \ {r}]
     \/ sessionDone(r) /\ Reply(r, "failed") /\ UNCHANGED sStreams
  /\ UNCHANGED <<nextID, id, via, ack, serve, exit, eStreams, toE, toS, bytes>>

-----------------------------------------------------------------------------
(* E, and S's readLoop                                                     *)

Registered(S, f) == {q \in S : id[q] = f.id}

\* Exit.serve: the destination is dialled, then Accept and Relay, or Reject.
Serve(r) ==
  LET e == via[r] IN
  /\ serve[r] = "handling"
  /\ \/ /\ serve' = [serve EXCEPT ![r] = "relay"]
        /\ toS' = [toS EXCEPT ![e] = Append(@, F("Ack", r, 1))]
        /\ UNCHANGED eStreams
     \/ /\ serve' = [serve EXCEPT ![r] = "ended"]
        /\ toS' = [toS EXCEPT ![e] = Append(@, F("Ack", r, 0))]
        /\ eStreams' = [eStreams EXCEPT ![e] = @ \ {r}]
  /\ UNCHANGED <<nextID, id, dialer, forward, via, ack, exit, sStreams, toE, bytes>>

\* readLoop at E: an Open registers its stream; Data goes to the one registered.
ReadAtE(e) ==
  /\ toE[e] # <<>>
  /\ toE' = [toE EXCEPT ![e] = Tail(@)]
  /\ LET f == Head(toE[e]) IN
     \/ /\ f.type = "Open"
        /\ eStreams' = [eStreams EXCEPT ![e] = Register(@, f.of)]
        /\ serve' = [serve EXCEPT ![f.of] = "handling"]
        /\ UNCHANGED atDest
     \/ /\ f.type = "Data"
        /\ atDest' = [q \in Requests |-> IF q \in Registered(eStreams[e], f)
                                         THEN atDest[q] \cup {f.of} ELSE atDest[q]]
        /\ UNCHANGED <<eStreams, serve>>
  /\ UNCHANGED <<nextID, id, dialer, forward, via, ack, exit, sStreams, toS,
                 upSent, downSent, atClient>>

\* readLoop at S.
ReadAtS(e) ==
  /\ toS[e] # <<>>
  /\ toS' = [toS EXCEPT ![e] = Tail(@)]
  /\ LET f == Head(toS[e]) IN
     \/ /\ f.type = "Ack"
        /\ ack' = [q \in Requests |->
                     IF q \in Registered(sStreams[e], f) /\ ack[q] = "none"
                     THEN IF f.ok = 1 THEN "ok" ELSE "nok"
                     ELSE ack[q]]
        /\ UNCHANGED atClient
     \/ /\ f.type = "Data"
        /\ atClient' = [q \in Requests |-> IF q \in Registered(sStreams[e], f)
                                           THEN atClient[q] \cup {f.of} ELSE atClient[q]]
        /\ UNCHANGED ack
  /\ UNCHANGED <<nextID, id, dialer, forward, via, serve, exit, sStreams, eStreams, toE,
                 upSent, downSent, atDest>>

-----------------------------------------------------------------------------
(* The relays: C sends to the destination, and the destination to C.       *)

RelayUp(r) ==
  /\ dialer[r] = "open" /\ forward[r] = "relay" /\ r \notin upSent
  /\ upSent' = upSent \cup {r}
  /\ \/ /\ via[r] = Direct
        /\ atDest' = [atDest EXCEPT ![r] = @ \cup {r}]
        /\ UNCHANGED toE
     \/ /\ via[r] # Direct /\ exit[via[r]] = "up"
        /\ toE' = [toE EXCEPT ![via[r]] = Append(@, F("Data", r, 1))]
        /\ UNCHANGED atDest
  /\ UNCHANGED <<nextID, id, dialer, forward, via, ack, serve, exit, sStreams, eStreams, toS,
                 downSent, atClient>>

RelayDown(r) ==
  /\ r \notin downSent
  /\ downSent' = downSent \cup {r}
  /\ \/ /\ forward[r] = "relay" /\ via[r] = Direct
        /\ atClient' = [atClient EXCEPT ![r] = @ \cup {r}]
        /\ UNCHANGED toS
     \/ /\ serve[r] = "relay"
        /\ toS' = [toS EXCEPT ![via[r]] = Append(@, F("Data", r, 1))]
        /\ UNCHANGED atClient
  /\ UNCHANGED <<nextID, id, dialer, forward, via, ack, serve, exit, sStreams, eStreams, toE,
                 upSent, atDest>>

-----------------------------------------------------------------------------
(* The session of an exit ends: every stream of it is closed, at both      *)
(* ends.  Then handleExit takes the exit out of exitConns and the registry. *)

ExitDies(e) ==
  /\ exit[e] = "up"
  /\ exit' = [exit EXCEPT ![e] = "dead"]
  /\ sStreams' = [sStreams EXCEPT ![e] = {}] /\ eStreams' = [eStreams EXCEPT ![e] = {}]
  /\ toE' = [toE EXCEPT ![e] = <<>>] /\ toS' = [toS EXCEPT ![e] = <<>>]
  /\ serve' = [r \in Requests |-> IF via[r] = e /\ serve[r] # "none" THEN "ended" ELSE serve[r]]
  /\ UNCHANGED <<nextID, id, dialer, forward, via, ack, bytes>>

ExitLeaves(e) ==
  /\ exit[e] \in {"dead", "unmapped"}
  /\ exit' = [exit EXCEPT ![e] = IF @ = "dead" THEN "unmapped" ELSE "unlisted"]
  /\ UNCHANGED <<nextID, id, dialer, forward, via, ack, serve, sStreams, eStreams, toE, toS, bytes>>

-----------------------------------------------------------------------------
Forward(r) == ForwardSelect(r) \/ ForwardDirect(r) \/ ForwardDial(r) \/ ForwardReturn(r)

Next ==
  \/ \E d \in Dials : Dial(d) \/ DialFallback(d)
  \/ \E r \in Requests : Cancel(r) \/ Forward(r) \/ Serve(r) \/ RelayUp(r) \/ RelayDown(r)
  \/ \E e \in Exits : ReadAtE(e) \/ ReadAtS(e) \/ ExitDies(e) \/ ExitLeaves(e)

Spec == Init /\ [][Next]_vars

(* Goroutines run and dialling a destination ends; dials, cancellation and *)
(* the end of a session need not happen.                                   *)
FairSpec ==
  /\ Spec
  /\ \A r \in Requests : WF_vars(Forward(r)) /\ WF_vars(Serve(r))
  /\ \A e \in Exits : WF_vars(ReadAtE(e)) /\ WF_vars(ReadAtS(e))

-----------------------------------------------------------------------------
(* Properties                                                              *)

\* Streams that share the session of an exit are independent: what reaches a
\* client, or a destination, was sent on the stream that it opened.
NoCrossTalk ==
  \A r \in Requests : atClient[r] \subseteq {r} /\ atDest[r] \subseteq {r}

\* A stream that C was told is open is relayed at S, and by the exit that S
\* chose, which has dialled the destination of this very request.
OpenHasPath ==
  \A r \in Requests :
    dialer[r] = "open" =>
      /\ forward[r] = "relay"
      /\ via[r] = Direct \/ serve[r] = "relay" \/ exit[via[r]] # "up"

\* A dial comes back without its own timeout: S accepts or rejects it.
DialReturns == \A r \in Requests : dialer[r] = "waiting" ~> dialer[r] # "waiting"
=============================================================================
