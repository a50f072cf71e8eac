----------------------------- MODULE Admission -----------------------------
(***************************************************************************)
(* How S lets a connection in: internal/node/server.go, Run, the accept    *)
(* loops, handleConnection, and handleClient and handleExit as far as they *)
(* count connections; internal/auth/handshake.go, ServerHandshake.  Every  *)
(* connection has a handler of its own on S.  A peer has a few connections *)
(* to use in turn, so that the handler of an old one may still be at work. *)
(***************************************************************************)
EXTENDS Naturals, FiniteSets, RateLimiter

CONSTANTS Peers,            \* the programs C and E that connect to S
          Exits,            \* those of them that are E
          Ignorant,         \* those with a wrong passphrase
          Host,             \* Host[p]: the address S sees, remoteHost
          Slots,            \* bound: connections of a peer that S has not forgotten
          NoConn,
          ConnectionLimit

Conns == UNION {{p} \X (1..Slots[p]) : p \in Peers}
Owner(k) == k[1]
HostOf(k) == Host[Owner(k)]
Hosts == {Host[p] : p \in Peers}

ASSUME AdmissionAssumption ==
  /\ Exits \subseteq Peers /\ Ignorant \subseteq Peers
  /\ Host \in [Peers -> Hosts] /\ Slots \in [Peers -> Nat] /\ NoConn \notin Conns
  /\ IsFiniteSet(Conns) /\ IsFiniteSet(Exits)
  /\ ConnectionLimit \in Nat \ {0}

VARIABLES
  now,           \* S's clock
  attempts,      \* RateLimiter.attempts
  lastFail,      \* history: when Fail was last called for an address
  listening,     \* S runs
  cert,          \* the certificate S runs with
  kind,          \* "quic" or "tcp"
  link,          \* "open", "half": the control stream is closed, or "closed"
  msg,           \* the message on its way on the connection
  h,             \* where S's handler of the connection is
  clientConns, exitConns,   \* fields of Server
  peak           \* history: most handlers ever between check and count

srvVars == <<now, attempts, lastFail, listening, cert, kind, link, msg, h,
             clientConns, exitConns, peak>>

\* "queued" waits in the listener; "control" is AcceptControlStream; "limit" is
\* Allowed; "handshake" and "verify" are ServerHandshake; "client", "exit" and
\* "await" are past the connection limit and not counted yet.
HandlerSteps == {"queued", "control", "limit", "handshake", "verify", "fail",
                 "success", "count", "client", "exit", "await", "serving", "ended"}
Messages == {"none", "hello", "ready", "challenge", "response", "ok", "bad", "register"}

ServerTypeOK ==
  /\ now \in Nat /\ attempts \in [Hosts -> Attempt] /\ lastFail \in [Hosts -> Nat]
  /\ listening \in BOOLEAN /\ cert \in Nat
  /\ kind \in [Conns -> {"quic", "tcp"}] /\ link \in [Conns -> {"open", "half", "closed"}]
  /\ msg \in [Conns -> Messages] /\ h \in [Conns -> HandlerSteps]
  /\ clientConns \subseteq Conns /\ exitConns \in [Exits -> Conns \cup {NoConn}]
  /\ peak \in Nat

ServerInit ==
  /\ now = 1 /\ attempts = [a \in Hosts |-> NoAttempt] /\ lastFail = [a \in Hosts |-> 0]
  /\ listening = TRUE /\ cert = 1
  /\ kind = [k \in Conns |-> "tcp"] /\ link = [k \in Conns |-> "closed"]
  /\ msg = [k \in Conns |-> "none"] /\ h = [k \in Conns |-> "ended"]
  /\ clientConns = {} /\ exitConns = [e \in Exits |-> NoConn] /\ peak = 0

-----------------------------------------------------------------------------
(* Connections                                                             *)

\* conn.Close: of a QUIC connection it closes only the control stream.
afterClose(k) == IF kind[k] = "tcp" \/ link[k] = "closed" THEN "closed" ELSE "half"
Close(k) == link' = [link EXCEPT ![k] = afterClose(k)]

\* closeFallback if there is one, and conn.Close otherwise.
CloseFallback(k) == link' = [link EXCEPT ![k] = "closed"]

Down(k) == link[k] # "open"
To(k, step) == h' = [h EXCEPT ![k] = step]
Send(k, m) == msg' = [msg EXCEPT ![k] = m]

\* The handler ends; nobody will read what is on its way to it.
ToServer == {"hello", "ready", "response", "register"}
End(k) ==
  /\ To(k, "ended")
  /\ msg' = [msg EXCEPT ![k] = IF @ \in ToServer THEN "none" ELSE @]

-----------------------------------------------------------------------------
(* acceptQUIC and acceptTCP                                                *)

Accept(k) ==
  /\ h[k] = "queued" /\ listening
  /\ To(k, IF kind[k] = "quic" THEN "control" ELSE "limit")
  /\ UNCHANGED <<now, attempts, lastFail, listening, cert, kind, link, msg,
                 clientConns, exitConns, peak>>

AcceptControlStream(k) ==
  /\ h[k] = "control"
  /\ \/ msg[k] = "ready" /\ Send(k, "none") /\ To(k, "limit") /\ UNCHANGED link
     \/ Down(k) /\ CloseFallback(k) /\ End(k)
  /\ UNCHANGED <<now, attempts, lastFail, listening, cert, kind, clientConns, exitConns, peak>>

-----------------------------------------------------------------------------
(* handleConnection                                                        *)

CheckLimiter(k) ==
  LET a == attempts[HostOf(k)]
  IN  /\ h[k] = "limit"
      /\ \/ Blocked(a, now) /\ Close(k) /\ End(k) /\ UNCHANGED attempts
         \/ /\ ~Blocked(a, now)
            /\ attempts' = [attempts EXCEPT ![HostOf(k)] = Allowed(a, now)]
            /\ To(k, "handshake") /\ UNCHANGED <<link, msg>>
      /\ UNCHANGED <<now, lastFail, listening, cert, kind, clientConns, exitConns, peak>>

\* ServerHandshake writes the challenge; the first write to a TCP connection
\* waits for the TLS handshake, which ends with the peer's "hello".
Challenge(k) ==
  /\ h[k] = "handshake" /\ (kind[k] = "quic" \/ msg[k] = "hello")
  /\ Send(k, "challenge") /\ To(k, "verify")
  /\ UNCHANGED <<now, attempts, lastFail, listening, cert, kind, link, clientConns, exitConns, peak>>

\* The response is the one S's verifier gives: the passphrases agree.
VerifyChallenge(k) == Owner(k) \notin Ignorant

\* It reads the response, verifies it and writes the result.
Verify(k) ==
  /\ h[k] = "verify" /\ msg[k] = "response"
  /\ Send(k, IF VerifyChallenge(k) THEN "ok" ELSE "bad")
  /\ To(k, IF VerifyChallenge(k) THEN "success" ELSE "fail")
  /\ UNCHANGED <<now, attempts, lastFail, listening, cert, kind, link, clientConns, exitConns, peak>>

\* A read or a write of it fails.
HandshakeError(k) ==
  /\ h[k] \in {"handshake", "verify"} /\ Down(k)
  /\ To(k, "fail")
  /\ UNCHANGED <<now, attempts, lastFail, listening, cert, kind, link, msg, clientConns, exitConns, peak>>

LimiterFail(k) ==
  /\ h[k] = "fail"
  /\ attempts' = [attempts EXCEPT ![HostOf(k)] = Fail(@, now)]
  /\ lastFail' = [lastFail EXCEPT ![HostOf(k)] = now]
  /\ CloseFallback(k) /\ End(k)
  /\ UNCHANGED <<now, listening, cert, kind, clientConns, exitConns, peak>>

LimiterSuccess(k) ==
  /\ h[k] = "success"
  /\ attempts' = [attempts EXCEPT ![HostOf(k)] = Success]
  /\ To(k, "count")
  /\ UNCHANGED <<now, lastFail, listening, cert, kind, link, msg, clientConns, exitConns, peak>>

connectionCount == Cardinality(clientConns) + Cardinality({e \in Exits : exitConns[e] # NoConn})

\* The handlers that passed the check below and are not counted yet.
Pending == {k \in Conns : h[k] \in {"client", "exit", "await"}}

overLimit == connectionCount > ConnectionLimit
limitReached == connectionCount >= ConnectionLimit

CheckCount(k) ==
  /\ h[k] = "count"
  /\ \/ limitReached /\ CloseFallback(k) /\ End(k) /\ UNCHANGED peak
     \/ /\ ~limitReached /\ UNCHANGED <<link, msg>>
        /\ To(k, IF Owner(k) \in Exits THEN "exit" ELSE "client")
        /\ peak' = IF Cardinality(Pending) < peak THEN peak ELSE Cardinality(Pending) + 1
  /\ UNCHANGED <<now, attempts, lastFail, listening, cert, kind, clientConns, exitConns>>

-----------------------------------------------------------------------------
(* handleClient and handleExit                                             *)

HandleClient(k) ==
  /\ h[k] = "client"
  /\ clientConns' = clientConns \cup {k} /\ To(k, "serving")
  /\ UNCHANGED <<now, attempts, lastFail, listening, cert, kind, link, msg, exitConns, peak>>

\* waitForRegistration installs the control handler, once the session runs.
WaitForRegistration(k) ==
  /\ h[k] = "exit"
  /\ To(k, "await")
  /\ UNCHANGED <<now, attempts, lastFail, listening, cert, kind, link, msg, clientConns, exitConns, peak>>

\* The registration came first: a control frame without a handler for it ends
\* the session.
RegisterTooEarly(k) ==
  /\ h[k] = "exit" /\ msg[k] = "register"
  /\ Close(k) /\ End(k)
  /\ UNCHANGED <<now, attempts, lastFail, listening, cert, kind, clientConns, exitConns, peak>>

\* The session of the entry that k replaces is closed.
Register(k) ==
  LET e == Owner(k) old == exitConns[e]
  IN  /\ h[k] = "await" /\ msg[k] = "register"
      /\ exitConns' = [exitConns EXCEPT ![e] = k]
      /\ IF old = NoConn THEN UNCHANGED link ELSE Close(old)
      /\ Send(k, "none") /\ To(k, "serving")
      /\ UNCHANGED <<now, attempts, lastFail, listening, cert, kind, clientConns, peak>>

\* The session ends before the registration comes,
NoRegistration(k) ==
  /\ h[k] = "await" /\ Down(k)
  /\ Close(k) /\ End(k)
  /\ UNCHANGED <<now, attempts, lastFail, listening, cert, kind, clientConns, exitConns, peak>>

\* or it takes too long, and may come just then.
RegistrationTimeout(k) ==
  /\ h[k] = "await"
  /\ Close(k) /\ End(k)
  /\ UNCHANGED <<now, attempts, lastFail, listening, cert, kind, clientConns, exitConns, peak>>

keepEntry(e, k) == exitConns[e]
deleteOwn(e, k) == IF exitConns[e] = k THEN NoConn ELSE exitConns[e]

\* The session is done, and with it the connection.
SessionDone(k) ==
  /\ h[k] = "serving" /\ Down(k)
  /\ clientConns' = clientConns \ {k}
  /\ exitConns' = [e \in Exits |-> deleteOwn(e, k)]
  /\ Close(k) /\ End(k)
  /\ UNCHANGED <<now, attempts, lastFail, listening, cert, kind, peak>>

-----------------------------------------------------------------------------
\* Run returns, on a signal or the error of a listener, and the process is gone.
Stop ==
  /\ listening
  /\ listening' = FALSE
  /\ link' = [k \in Conns |-> "closed"] /\ h' = [k \in Conns |-> "ended"]
  /\ attempts' = [a \in Hosts |-> NoAttempt]
  /\ clientConns' = {} /\ exitConns' = [e \in Exits |-> NoConn]
  /\ UNCHANGED <<now, lastFail, cert, kind, msg, peak>>

Tick == now' = now + 1 /\ UNCHANGED <<attempts, lastFail, listening, cert, kind, link, msg, h,
                                      clientConns, exitConns, peak>>

\* The steps of k's handler that the scheduler takes sooner or later.
Handler(k) ==
  \/ Accept(k) \/ AcceptControlStream(k) \/ CheckLimiter(k) \/ Challenge(k) \/ Verify(k)
  \/ HandshakeError(k) \/ LimiterFail(k) \/ LimiterSuccess(k) \/ CheckCount(k)
  \/ HandleClient(k) \/ WaitForRegistration(k) \/ Register(k) \/ NoRegistration(k)
  \/ SessionDone(k)
=============================================================================
