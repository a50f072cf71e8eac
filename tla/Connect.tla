------------------------------ MODULE Connect ------------------------------
(***************************************************************************)
(* The programs that connect to S, composed with S.  E: internal/node/     *)
(* exit.go, Run, connectOnce and runConnection.  C: internal/client/       *)
(* manager.go, connectTransport and the handshake in Reconnect; what leads *)
(* the manager to connect is module Manager.  Both: the client's half of   *)
(* internal/auth/handshake.go and internal/transport/conn.go.              *)
(***************************************************************************)
EXTENDS Admission, NodeFiles

CONSTANTS Loads   \* what may happen in a behaviour: see Load

VARIABLES
  known, file, agreed,   \* module KnownHosts
  at,          \* where a program is
  cur,         \* the connection it uses
  expected,    \* the fingerprint connectOnce has read for its two dials
  signalled,   \* E's context is cancelled
  active,      \* the programs of this behaviour
  udp,         \* what UDP may do: "passes", "blocked" or either
  left         \* how often each fault may still happen

Trust == INSTANCE KnownHosts WITH Programs <- Peers

trustVars == <<known, file, agreed>>
vars == <<srvVars, disk, trustVars, at, cur, expected, signalled, active, udp, left>>

\* "dial" and "tls" are the two dials; "control" is OpenControlStream; "tlswait"
\* is the TLS handshake; "await" and "proof" are ClientHandshakePassword; "up"
\* has a session; "wait" is the timer of the backoff; "off": not running.
PeerSteps == {"off", "dial", "tls", "control", "tlswait", "await", "proof", "up", "wait"}
Faults == {"break", "race", "stop", "init", "write", "signal", "start", "tick"}

Load == [active : SUBSET Peers,      \* the programs that run
         stored : Nat,               \* the fingerprint in their files
         udp : SUBSET {"passes", "blocked"},
         left : [Faults -> Nat]]     \* bound: how often each fault happens

ASSUME ConnectAssumption == Loads \subseteq Load

TypeOK ==
  /\ ServerTypeOK /\ NodeFilesTypeOK /\ Trust!TrustTypeOK
  /\ at \in [Peers -> PeerSteps] /\ cur \in [Peers -> Conns \cup {NoConn}]
  /\ expected \in [Peers -> Nat] /\ signalled \in [Peers -> BOOLEAN]
  /\ active \subseteq Peers /\ udp \subseteq {"passes", "blocked"} /\ left \in [Faults -> Nat]

Init ==
  /\ ServerInit /\ NodeFilesInit
  /\ at = [p \in Peers |-> "off"] /\ cur = [p \in Peers |-> NoConn]
  /\ expected = [p \in Peers |-> 0] /\ signalled = [p \in Peers |-> FALSE]
  /\ \E l \in Loads :
       active = l.active /\ udp = l.udp /\ left = l.left
       /\ Trust!TrustInit([p \in Peers |-> l.stored])

May(fault) == left[fault] > 0 /\ left' = [left EXCEPT ![fault] = @ - 1]

-----------------------------------------------------------------------------
(* Programs                                                                *)

Goes(p, step) == at' = [at EXCEPT ![p] = step]
Uses(p, k) == cur' = [cur EXCEPT ![p] = k]

\* The program starts, and reads its known hosts.
Start(p) ==
  /\ at[p] = "off" /\ p \in active /\ May("start")
  /\ Trust!Load(p) /\ Goes(p, "dial")
  /\ signalled' = [signalled EXCEPT ![p] = FALSE]
  /\ UNCHANGED <<srvVars, disk, cur, expected, active, udp>>

\* What follows an error of connectOnce: a cancelled context and, for E, a
\* TrustError end the program.
retryAlways(p, trustError) == IF signalled[p] THEN "off" ELSE "wait"
ignoresSignal(p, trustError) == IF trustError /\ p \in Exits THEN "off" ELSE "wait"
afterError(p, trustError) ==
  IF signalled[p] \/ (trustError /\ p \in Exits) THEN "off" ELSE "wait"

\* A connection whose last handler on S has ended.
Free(p) == {k \in Conns : Owner(k) = p /\ h[k] = "ended"}

Connects(k, transport) ==
  /\ kind' = [kind EXCEPT ![k] = transport] /\ link' = [link EXCEPT ![k] = "open"]
  /\ msg' = [msg EXCEPT ![k] = "none"] /\ h' = [h EXCEPT ![k] = "queued"]
  /\ UNCHANGED <<now, attempts, lastFail, listening, cert, clientConns, exitConns, peak>>

\* DialQUIC fails: UDP is blocked, S is down, or the context is cancelled.
DialQUICFails(p) ==
  /\ at[p] = "dial" /\ ("blocked" \in udp \/ ~listening \/ signalled[p])
  /\ expected' = [expected EXCEPT ![p] = known[p]] /\ Goes(p, "tls")
  /\ UNCHANGED <<srvVars, disk, trustVars, cur, signalled, active, udp, left>>

\* DialQUIC reaches S, and VerifyConnection agrees.  The handshake may still
\* fail, for instance when the operator took too long to answer.
DialQUIC(p) ==
  /\ at[p] = "dial" /\ "passes" \in udp /\ listening /\ ~signalled[p]
  /\ Trust!Verified(p, known[p], cert)
  /\ expected' = [expected EXCEPT ![p] = known[p]]
  /\ \/ \E k \in Free(p) : Connects(k, "quic") /\ Uses(p, k) /\ Goes(p, "control")
     \/ Goes(p, "tls") /\ UNCHANGED <<srvVars, cur>>
  /\ UNCHANGED <<disk, signalled, active, udp, left>>

\* VerifyConnection returns a TrustError: connectOnce gives up, C's
\* connectTransport goes on with TLS.
DialQUICRejected(p) ==
  /\ at[p] = "dial" /\ "passes" \in udp /\ listening /\ ~signalled[p]
  /\ \/ Trust!Rejected(p, known[p], cert) /\ UNCHANGED left
     \/ known[p] = Trust!Unknown /\ Trust!SaveFails(p, cert) /\ May("write")
  /\ expected' = [expected EXCEPT ![p] = known[p]]
  /\ Goes(p, IF p \in Exits THEN afterError(p, TRUE) ELSE "tls")
  /\ UNCHANGED <<srvVars, disk, cur, signalled, active, udp>>

\* A lost connection or a cancelled context fails it, and connectOnce closes the
\* QUIC connection.
OpenControlStream(p) ==
  /\ at[p] = "control"
  /\ \/ /\ Down(cur[p]) \/ signalled[p]
        /\ CloseFallback(cur[p]) /\ Uses(p, NoConn) /\ Goes(p, afterError(p, FALSE))
        /\ UNCHANGED msg
     \/ /\ ~Down(cur[p])
        /\ Send(cur[p], "ready") /\ Goes(p, "await")
        /\ UNCHANGED <<cur, link>>
  /\ UNCHANGED <<now, attempts, lastFail, listening, cert, kind, h, clientConns, exitConns, peak>>
  /\ UNCHANGED <<disk, trustVars, expected, signalled, active, udp, left>>

\* DialTLS connects; its TLS handshake needs S, see TLSVerified.
DialTLS(p) ==
  /\ at[p] = "tls"
  /\ \/ (~listening \/ signalled[p]) /\ Goes(p, afterError(p, FALSE)) /\ UNCHANGED <<srvVars, cur>>
     \/ /\ listening /\ ~signalled[p]
        /\ \E k \in Free(p) : Connects(k, "tcp") /\ Uses(p, k) /\ Goes(p, "tlswait")
  /\ UNCHANGED <<disk, trustVars, expected, signalled, active, udp, left>>

TLSVerified(p) ==
  /\ at[p] = "tlswait" /\ ~Down(cur[p]) /\ h[cur[p]] = "handshake"
  /\ Trust!Verified(p, expected[p], cert)
  /\ Send(cur[p], "hello") /\ Goes(p, "await")
  /\ UNCHANGED <<now, attempts, lastFail, listening, cert, kind, link, h, clientConns, exitConns, peak>>
  /\ UNCHANGED <<disk, cur, expected, signalled, active, udp, left>>

\* It closes its connection, or has lost it, and connectOnce returns; nobody
\* will read what is on its way to it.
GivesUp(p, trustError) ==
  /\ Close(cur[p]) /\ Uses(p, NoConn) /\ Goes(p, afterError(p, trustError))
  /\ Send(cur[p], IF msg[cur[p]] \in ToServer THEN msg[cur[p]] ELSE "none")
  /\ UNCHANGED <<now, attempts, lastFail, listening, cert, kind, h, clientConns, exitConns, peak>>
  /\ UNCHANGED <<disk, expected, signalled, active, udp>>

TLSRejected(p) ==
  /\ at[p] = "tlswait" /\ ~Down(cur[p]) /\ h[cur[p]] = "handshake"
  /\ \/ Trust!Rejected(p, expected[p], cert) /\ UNCHANGED left
     \/ expected[p] = Trust!Unknown /\ Trust!SaveFails(p, cert) /\ May("write")
  /\ GivesUp(p, TRUE)

\* ClientHandshakePassword reads the challenge and answers it,
Respond(p) ==
  /\ at[p] = "await" /\ msg[cur[p]] = "challenge"
  /\ Send(cur[p], "response") /\ Goes(p, "proof")
  /\ UNCHANGED <<now, attempts, lastFail, listening, cert, kind, link, h, clientConns, exitConns, peak>>
  /\ UNCHANGED <<disk, trustVars, cur, expected, signalled, active, udp, left>>

\* and reads the result; E's runConnection sends its registration.
Authenticated(p) ==
  /\ at[p] = "proof" /\ msg[cur[p]] = "ok"
  /\ Goes(p, "up") /\ Send(cur[p], IF p \in Exits THEN "register" ELSE "none")
  /\ UNCHANGED <<now, attempts, lastFail, listening, cert, kind, link, h, clientConns, exitConns, peak>>
  /\ UNCHANGED <<disk, trustVars, cur, expected, signalled, active, udp, left>>

\* The password was wrong, the context is cancelled in the TLS handshake, or
\* the connection is lost: there, in ClientHandshakePassword, or under the session.
ConnectionEnds(p) ==
  /\ \/ at[p] = "proof" /\ msg[cur[p]] = "bad"
     \/ at[p] = "tlswait" /\ signalled[p]
     \/ at[p] \in {"tlswait", "await", "proof", "up"} /\ Down(cur[p])
  /\ GivesUp(p, FALSE) /\ UNCHANGED <<trustVars, left>>

\* The timer of the backoff; E's select may take either of two ready channels.
Retry(p) ==
  /\ at[p] = "wait"
  /\ Goes(p, "dial")
  /\ UNCHANGED <<srvVars, disk, trustVars, cur, expected, signalled, active, udp, left>>

Stopped(p) ==
  /\ at[p] = "wait" /\ signalled[p]
  /\ Goes(p, "off")
  /\ UNCHANGED <<srvVars, disk, trustVars, cur, expected, signalled, active, udp, left>>

\* C's user disconnects.
Leave(p) ==
  /\ at[p] = "up" /\ p \notin Exits
  /\ GivesUp(p, FALSE) /\ UNCHANGED <<trustVars, left>>

\* E gets a signal: its context is cancelled, nothing else happens at once.
Signal(p) ==
  /\ p \in Exits /\ at[p] # "off" /\ ~signalled[p] /\ May("signal")
  /\ signalled' = [signalled EXCEPT ![p] = TRUE]
  /\ UNCHANGED <<srvVars, disk, trustVars, at, cur, expected, active, udp>>

\* The steps a program takes by itself.
Program(p) ==
  \/ DialQUICFails(p) \/ DialQUIC(p) \/ DialQUICRejected(p) \/ OpenControlStream(p)
  \/ DialTLS(p) \/ TLSVerified(p) \/ TLSRejected(p) \/ Respond(p) \/ Authenticated(p)
  \/ ConnectionEnds(p) \/ Retry(p) \/ Stopped(p)

-----------------------------------------------------------------------------
(* S, its operator and the network                                         *)

peerVars == <<trustVars, at, cur, expected, signalled, active, udp>>

Serve(k) == Handler(k) /\ UNCHANGED <<disk, peerVars, left>>

Race(k) == (RegisterTooEarly(k) \/ RegistrationTimeout(k)) /\ May("race") /\ UNCHANGED <<disk, peerVars>>

Break(k) ==
  /\ ~Down(k) /\ May("break")
  /\ link' = [link EXCEPT ![k] = "closed"]
  /\ UNCHANGED <<now, attempts, lastFail, listening, cert, kind, msg, h, clientConns, exitConns, peak>>
  /\ UNCHANGED <<disk, peerVars>>

ServerStops == Stop /\ May("stop") /\ UNCHANGED <<disk, peerVars>>

ServerStarts ==
  /\ ~listening /\ Startable
  /\ listening' = TRUE /\ cert' = disk.cert
  /\ UNCHANGED <<now, attempts, lastFail, kind, link, msg, h, clientConns, exitConns, peak>>
  /\ UNCHANGED <<disk, peerVars, left>>

Reinitialize ==
  /\ \/ RemoveVerifier /\ May("init")
     \/ Initialize /\ UNCHANGED left
  /\ UNCHANGED <<srvVars, peerVars>>

Time == Tick /\ May("tick") /\ UNCHANGED <<disk, peerVars>>

Next ==
  \/ \E p \in Peers : Start(p) \/ Program(p) \/ Leave(p) \/ Signal(p)
  \/ \E k \in Conns : Serve(k) \/ Race(k) \/ Break(k)
  \/ ServerStops \/ ServerStarts \/ Reinitialize \/ Time

Spec == Init /\ [][Next]_vars

(* E and its handlers on S go on; nothing makes a fault, the operator or   *)
(* another program do anything.                                            *)
FairSpec ==
  /\ Spec
  /\ \A e \in Exits : WF_vars(Program(e))
  /\ \A k \in Conns : Owner(k) \in Exits => WF_vars(Serve(k))

-----------------------------------------------------------------------------
(* Properties                                                              *)

\* The connection limit is checked by one critical section and counted by
\* another: S exceeds it by no more than the handlers that were ever between
\* the two at the same time, less one.
LimitOvershoot == connectionCount + 1 <= ConnectionLimit + peak

\* No handshake begins within BlockFor of the last failure of an address that
\* has FailLimit failures on record, whatever else is in progress.
BlockHolds ==
  [][\A k \in Conns :
       h[k] = "limit" /\ h'[k] = "handshake" /\ attempts[HostOf(k)].count >= FailLimit
         => now >= lastFail[HostOf(k)] + BlockFor]_vars

\* A program proves its knowledge of the passphrase only to a server whose
\* certificate its operator has accepted, now or in an earlier run, through
\* new certificates, failing writes and restarts.
TrustBeforeSecret ==
  \A p \in Peers : at[p] \in {"proof", "up"} /\ ~Down(cur[p]) => cert \in agreed[p]

\* E works with a server only once the fingerprint is on disk, so that E's next
\* run rejects another one.
TrustDurable ==
  \A p \in Exits : at[p] \in {"await", "proof", "up"} /\ ~Down(cur[p]) => file[p] = cert

\* An E that runs is registered again after every loss, and after every entry
\* that its old connection leaves behind for a while; unless S is down, has no
\* room, or blocks its address.
Registered(e) == exitConns[e] # NoConn /\ ~Down(exitConns[e])
NoRoom == Cardinality(clientConns) >= ConnectionLimit
ExitComesBack ==
  \A e \in Exits :
    at[e] # "off" ~> (Registered(e) \/ at[e] = "off" \/ ~listening \/ NoRoom
                        \/ Blocked(attempts[Host[e]], now))

\* E stops after a signal, unless it has a session: that goes on until S or the
\* network ends it.
SignalStops == \A e \in Exits : signalled[e] ~> (at[e] \in {"off", "up"})
=============================================================================
