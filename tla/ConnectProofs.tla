--------------------------- MODULE ConnectProofs ---------------------------
(***************************************************************************)
(* Proofs about Connect: S with any number of peers, connections, limits   *)
(* and faults.                                                             *)
(***************************************************************************)
EXTENDS Connect, FiniteSetTheorems, TLAPS

LEMMA OwnerIsPeer ==
  ASSUME NEW k \in Conns
  PROVE  Owner(k) \in Peers /\ HostOf(k) \in Hosts
  BY DEF Conns, Owner, HostOf, Hosts

LEMMA LimiterTypes ==
  ASSUME NEW a \in Attempt, NEW t \in Nat
  PROVE  NoAttempt \in Attempt /\ Allowed(a, t) \in Attempt /\ Fail(a, t) \in Attempt
<1>1. NoAttempt \in Attempt
  BY DEF NoAttempt, Attempt
<1>2. Allowed(a, t) \in Attempt
  BY <1>1 DEF Allowed
<1>3. openWindow(a, t) \in Attempt
  BY DEF openWindow, Attempt
<1>4. Fail(a, t) \in Attempt
  BY <1>3, RateLimiterAssumption DEF Fail, Attempt
<1> QED BY <1>1, <1>2, <1>4

\* The record of an address has blockedTill set by its last failure, once there
\* are enough of them.
BlockInv ==
  \A a \in Hosts :
    attempts[a].count >= FailLimit => attempts[a].blockedTill = lastFail[a] + BlockFor

LEMMA LimiterBlocks ==
  ASSUME NEW a \in Attempt, NEW t \in Nat
  PROVE  /\ NoAttempt.count < FailLimit
         /\ Allowed(a, t) \in {a, NoAttempt}
         /\ Fail(a, t).count >= FailLimit => Fail(a, t).blockedTill = t + BlockFor
  BY RateLimiterAssumption, SMTT(30) DEF Attempt, NoAttempt, Allowed, Fail, openWindow, reached

-----------------------------------------------------------------------------
(* S                                                                       *)

LEMMA HandlerType ==
  ASSUME ServerTypeOK, NEW k \in Conns, Handler(k)
  PROVE  ServerTypeOK'
<1>0. Owner(k) \in Peers /\ HostOf(k) \in Hosts
  BY OwnerIsPeer
<1> USE <1>0, AdmissionAssumption DEF ServerTypeOK, HandlerSteps, Messages, To, Send, End, Close,
      CloseFallback, afterClose
<1>1. CASE Accept(k)
  BY <1>1 DEF Accept
<1>2. CASE AcceptControlStream(k)
  <2>1. CASE msg[k] = "ready" /\ Send(k, "none") /\ To(k, "limit") /\ UNCHANGED link
    BY <1>2, <2>1 DEF AcceptControlStream
  <2>2. CASE Down(k) /\ CloseFallback(k) /\ End(k)
    BY <1>2, <2>2 DEF AcceptControlStream
  <2> QED BY <1>2, <2>1, <2>2 DEF AcceptControlStream
<1>3. CASE CheckLimiter(k)
  <2>1. Allowed(attempts[HostOf(k)], now) \in Attempt
    BY LimiterTypes
  <2>2. attempts' \in [Hosts -> Attempt]
    BY <1>3, <2>1 DEF CheckLimiter
  <2> QED BY <1>3, <2>2 DEF CheckLimiter
<1>4. CASE Challenge(k)
  BY <1>4 DEF Challenge
<1>5. CASE Verify(k)
  BY <1>5 DEF Verify
<1>6. CASE HandshakeError(k)
  BY <1>6 DEF HandshakeError
<1>7. CASE LimiterFail(k)
  BY ZenonT(60), <1>7, LimiterTypes DEF LimiterFail
<1>8. CASE LimiterSuccess(k)
  <2>1. NoAttempt \in Attempt
    BY DEF NoAttempt, Attempt
  <2> QED BY <1>8, <2>1 DEF LimiterSuccess, Success
<1>9. CASE CheckCount(k)
  <2>1. IsFiniteSet(Pending)
    BY FS_Subset DEF Pending
  <2>2. Cardinality(Pending) \in Nat
    BY <2>1, FS_CardinalityType
  <2> QED BY <1>9, <2>2 DEF CheckCount
<1>10. CASE HandleClient(k)
  BY <1>10 DEF HandleClient
<1>11. CASE WaitForRegistration(k)
  BY <1>11 DEF WaitForRegistration
<1>12. CASE Register(k)
  BY ZenonT(60), <1>12 DEF Register
<1>13. CASE NoRegistration(k)
  BY <1>13 DEF NoRegistration
<1>14. CASE SessionDone(k)
  BY <1>14 DEF SessionDone, deleteOwn
<1> QED
  BY ZenonT(60), <1>1, <1>2, <1>3, <1>4, <1>5, <1>6, <1>7, <1>8, <1>9, <1>10, <1>11, <1>12, <1>13, <1>14
  DEF Handler

-----------------------------------------------------------------------------
(* Types                                                                   *)

LEMMA InitType == Init => TypeOK
<1> SUFFICES ASSUME Init PROVE TypeOK
  OBVIOUS
<1>1. NoAttempt \in Attempt
  BY DEF NoAttempt, Attempt
<1>2. ServerTypeOK
  BY <1>1 DEF Init, ServerInit, ServerTypeOK, HandlerSteps, Messages
<1>3. NodeFilesTypeOK
  BY DEF Init, NodeFilesInit, NodeFilesTypeOK
<1>4. PICK l \in Load :
        active = l.active /\ udp = l.udp /\ left = l.left /\ Trust!TrustInit([p \in Peers |-> l.stored])
  BY ZenonT(60), ConnectAssumption DEF Init
<1>5. active \subseteq Peers /\ udp \subseteq {"passes", "blocked"} /\ left \in [Faults -> Nat]
      /\ l.stored \in Nat
  BY <1>4 DEF Load
<1>6. Trust!TrustTypeOK
  BY <1>4, <1>5 DEF Trust!TrustInit, Trust!TrustTypeOK
<1>7. /\ at \in [Peers -> PeerSteps] /\ cur \in [Peers -> Conns \cup {NoConn}]
      /\ expected \in [Peers -> Nat] /\ signalled \in [Peers -> BOOLEAN]
  BY DEF Init, PeerSteps
<1> QED BY <1>2, <1>3, <1>5, <1>6, <1>7 DEF TypeOK

LEMMA MayType ==
  ASSUME left \in [Faults -> Nat], NEW f \in Faults, May(f)
  PROVE  left' \in [Faults -> Nat]
  BY DEF May

\* What a program does to its store keeps the types.
LEMMA TrustType ==
  ASSUME Trust!TrustTypeOK, cert \in Nat, NEW p \in Peers, NEW x \in Nat,
         \/ Trust!Load(p) \/ Trust!Verified(p, x, cert)
         \/ Trust!Rejected(p, x, cert) \/ Trust!SaveFails(p, cert)
  PROVE  Trust!TrustTypeOK'
  BY DEF Trust!TrustTypeOK, Trust!Load, Trust!Verified, Trust!Rejected, Trust!Saves,
     Trust!Refuses, Trust!SaveFails, Trust!Remember, Trust!trustVars

LEMMA ConnectsType ==
  ASSUME ServerTypeOK, NEW p \in Peers, NEW k \in Free(p), NEW t \in {"quic", "tcp"}, Connects(k, t)
  PROVE  ServerTypeOK' /\ k \in Conns /\ Owner(k) = p
  BY DEF ServerTypeOK, Connects, Free, HandlerSteps, Messages

LEMMA SendType ==
  ASSUME ServerTypeOK, NEW k, NEW m \in Messages, Send(k, m),
         UNCHANGED <<now, attempts, lastFail, listening, cert, kind, link, h, clientConns, exitConns, peak>>
  PROVE  ServerTypeOK'
  BY ZenonT(60) DEF ServerTypeOK, Send

LEMMA InitializeType ==
  ASSUME NodeFilesTypeOK, Initialize
  PROVE  NodeFilesTypeOK' /\ (disk.cert # 0 => disk'.cert # 0)
<1> DEFINE new == disk.cert + 1
           D == [verifier : Nat, cert : Nat, key : Nat]
           d == SaveVerifier(disk, new)
<1>1. disk \in D /\ new \in Nat /\ new # 0
  BY DEF NodeFilesTypeOK
<1>2. d \in D /\ d.cert = disk.cert
  BY <1>1 DEF SaveVerifier
<1>3. disk' \in GenerateCertificate(d, new)
  BY DEF Initialize
<1> HIDE DEF d, new
<1>4. disk' \in D /\ disk'.cert \in {disk.cert, new}
  BY ZenonT(60), <1>1, <1>2, <1>3 DEF GenerateCertificate
<1> QED BY <1>1, <1>4 DEF NodeFilesTypeOK

LEMMA NextType == TypeOK /\ [Next]_vars => TypeOK'
<1> SUFFICES ASSUME TypeOK, [Next]_vars PROVE TypeOK'
  OBVIOUS
<1> USE DEF TypeOK
<1>1. CASE UNCHANGED vars
  BY <1>1 DEF vars, srvVars, trustVars, ServerTypeOK, NodeFilesTypeOK, Trust!TrustTypeOK
<1>2. ASSUME NEW p \in Peers, Start(p) PROVE TypeOK'
  <2>1. ServerTypeOK' /\ NodeFilesTypeOK'
    BY <1>2 DEF Start, srvVars, ServerTypeOK, NodeFilesTypeOK
  <2>2. Trust!TrustTypeOK'
    BY <1>2, TrustType DEF Start, ServerTypeOK
  <2>3. left' \in [Faults -> Nat]
    BY <1>2, MayType DEF Start, Faults
  <2> QED BY ZenonT(60), <1>2, <2>1, <2>2, <2>3 DEF Start, Goes, PeerSteps
<1>3. ASSUME NEW p \in Peers, Program(p) \/ Leave(p) \/ Signal(p) PROVE TypeOK'
  <2>0. at[p] \in PeerSteps /\ (\A b \in BOOLEAN : afterError(p, b) \in PeerSteps)
        /\ known[p] \in Nat /\ cert \in Nat
    BY ZenonT(60) DEF afterError, PeerSteps, Trust!TrustTypeOK, ServerTypeOK
  <2> USE <2>0 DEF Goes, Uses, PeerSteps
  <2>1. CASE DialQUICFails(p)
    BY ZenonT(60), <2>1 DEF DialQUICFails, srvVars, trustVars, ServerTypeOK, NodeFilesTypeOK, Trust!TrustTypeOK
  <2>2. CASE DialQUIC(p)
    <3>1. Trust!TrustTypeOK'
      BY <2>2, TrustType DEF DialQUIC
    <3>2. NodeFilesTypeOK' /\ expected' \in [Peers -> Nat]
          /\ UNCHANGED <<signalled, active, udp, left>>
      BY <2>2 DEF DialQUIC, NodeFilesTypeOK
    <3>3. CASE \E k \in Free(p) : Connects(k, "quic") /\ Uses(p, k) /\ Goes(p, "control")
      BY <3>1, <3>2, <3>3, ConnectsType
    <3>4. CASE Goes(p, "tls") /\ UNCHANGED <<srvVars, cur>>
      BY <3>1, <3>2, <3>4 DEF srvVars, ServerTypeOK
    <3> QED BY ZenonT(60), <2>2, <3>3, <3>4 DEF DialQUIC
  <2>3. CASE DialQUICRejected(p)
    <3>1. Trust!TrustTypeOK'
      BY ZenonT(60), <2>3, TrustType DEF DialQUICRejected
    <3>2. left' \in [Faults -> Nat]
      BY <2>3, MayType DEF DialQUICRejected, Faults
    <3> QED
      BY ZenonT(60), <2>3, <3>1, <3>2 DEF DialQUICRejected, srvVars, ServerTypeOK, NodeFilesTypeOK
  <2>4. CASE OpenControlStream(p)
    <3>1. ServerTypeOK'
      <4>1. CASE Send(cur[p], "ready") /\ UNCHANGED link
        BY ZenonT(60), <2>4, <4>1, SendType DEF OpenControlStream, Messages
      <4>2. CASE CloseFallback(cur[p]) /\ UNCHANGED msg
        BY ZenonT(60), <2>4, <4>2 DEF OpenControlStream, CloseFallback, ServerTypeOK
      <4> QED BY ZenonT(60), <2>4, <4>1, <4>2 DEF OpenControlStream
    <3> QED
      BY ZenonT(60), <2>4, <3>1 DEF OpenControlStream, trustVars, NodeFilesTypeOK, Trust!TrustTypeOK
  <2>5. CASE DialTLS(p)
    <3>1. NodeFilesTypeOK' /\ Trust!TrustTypeOK' /\ UNCHANGED <<expected, signalled, active, udp, left>>
      BY <2>5 DEF DialTLS, trustVars, NodeFilesTypeOK, Trust!TrustTypeOK
    <3>2. CASE Goes(p, afterError(p, FALSE)) /\ UNCHANGED <<srvVars, cur>>
      BY ZenonT(60), <3>1, <3>2 DEF srvVars, ServerTypeOK
    <3>3. CASE \E k \in Free(p) : Connects(k, "tcp") /\ Uses(p, k) /\ Goes(p, "tlswait")
      BY <3>1, <3>3, ConnectsType
    <3> QED BY ZenonT(60), <2>5, <3>2, <3>3 DEF DialTLS
  <2>6. CASE TLSVerified(p)
    <3>1. Trust!TrustTypeOK'
      BY ZenonT(60), <2>6, TrustType DEF TLSVerified
    <3>2. ServerTypeOK'
      BY ZenonT(60), <2>6, SendType DEF TLSVerified, Messages
    <3> QED
      BY <2>6, <3>1, <3>2 DEF TLSVerified, NodeFilesTypeOK
  <2>7. ASSUME NEW b \in BOOLEAN, GivesUp(p, b), Trust!TrustTypeOK', left' \in [Faults -> Nat]
        PROVE  TypeOK'
    <3>1. ServerTypeOK'
      <4>1. (IF msg[cur[p]] \in ToServer THEN msg[cur[p]] ELSE "none") \in Messages
        BY DEF ToServer, Messages
      <4>2. msg' \in [Conns -> Messages]
        BY ZenonT(60), <2>7, <4>1 DEF GivesUp, Send, ServerTypeOK
      <4>3. link' \in [Conns -> {"open", "half", "closed"}]
        BY ZenonT(60), <2>7 DEF GivesUp, Close, afterClose, ServerTypeOK
      <4> QED BY ZenonT(60), <2>7, <4>2, <4>3 DEF GivesUp, ServerTypeOK
    <3> QED
      BY ZenonT(60), <2>7, <3>1 DEF GivesUp, NodeFilesTypeOK
  <2>8. CASE TLSRejected(p)
    <3>1. Trust!TrustTypeOK'
      BY ZenonT(60), <2>8, TrustType DEF TLSRejected
    <3>2. left' \in [Faults -> Nat]
      BY ZenonT(60), <2>8, MayType DEF TLSRejected, Faults
    <3> QED BY ZenonT(60), <2>7, <2>8, <3>1, <3>2 DEF TLSRejected
  <2>9. CASE Respond(p)
    <3>1. ServerTypeOK'
      BY ZenonT(60), <2>9, SendType DEF Respond, Messages
    <3> QED BY ZenonT(60), <2>9, <3>1 DEF Respond, trustVars, NodeFilesTypeOK, Trust!TrustTypeOK
  <2>10. CASE Authenticated(p)
    <3>1. ServerTypeOK'
      BY <2>10, SendType DEF Authenticated, Messages
    <3> QED BY ZenonT(60), <2>10, <3>1 DEF Authenticated, trustVars, NodeFilesTypeOK, Trust!TrustTypeOK
  <2>11. CASE ConnectionEnds(p) \/ Leave(p)
    <3>1. Trust!TrustTypeOK' /\ left' \in [Faults -> Nat] /\ GivesUp(p, FALSE)
      BY ZenonT(60), <2>11 DEF ConnectionEnds, Leave, trustVars, Trust!TrustTypeOK
    <3> QED BY ZenonT(60), <2>7, <3>1
  <2>12. CASE Retry(p) \/ Stopped(p)
    BY ZenonT(60), <2>12 DEF Retry, Stopped, srvVars, trustVars, ServerTypeOK, NodeFilesTypeOK, Trust!TrustTypeOK
  <2>13. CASE Signal(p)
    <3>1. left' \in [Faults -> Nat]
      BY <2>13, MayType DEF Signal, Faults
    <3> QED
      BY <2>13, <3>1 DEF Signal, srvVars, trustVars, ServerTypeOK, NodeFilesTypeOK, Trust!TrustTypeOK
  <2> QED
    BY ZenonT(60), <1>3, <2>1, <2>2, <2>3, <2>4, <2>5, <2>6, <2>8, <2>9, <2>10, <2>11, <2>12, <2>13 DEF Program
<1>4. ASSUME NEW k \in Conns, Serve(k) PROVE TypeOK'
  <2>1. ServerTypeOK'
    BY <1>4, HandlerType DEF Serve
  <2> QED
    BY <1>4, <2>1 DEF Serve, peerVars, trustVars, NodeFilesTypeOK, Trust!TrustTypeOK
<1>5. ASSUME NEW k \in Conns, Race(k) \/ Break(k) PROVE TypeOK'
  <2>1. left' \in [Faults -> Nat]
    BY <1>5, MayType DEF Race, Break, Faults
  <2>2. ServerTypeOK'
    <3>1. CASE RegisterTooEarly(k) \/ RegistrationTimeout(k)
      <4>1. /\ link' = [link EXCEPT ![k] = afterClose(k)] /\ h' = [h EXCEPT ![k] = "ended"]
            /\ msg' = [msg EXCEPT ![k] = IF @ \in ToServer THEN "none" ELSE @]
            /\ UNCHANGED <<now, attempts, lastFail, listening, cert, kind, clientConns, exitConns, peak>>
        BY ZenonT(60), <3>1 DEF RegisterTooEarly, RegistrationTimeout, Close, End, To
      <4> QED BY ZenonT(60), <4>1 DEF ServerTypeOK, afterClose, HandlerSteps, Messages
    <3>2. CASE Break(k)
      BY <3>2 DEF Break, ServerTypeOK
    <3> QED BY ZenonT(60), <1>5, <3>1, <3>2 DEF Race
  <2> QED
    BY ZenonT(60), <1>5, <2>1, <2>2 DEF Race, Break, peerVars, trustVars, NodeFilesTypeOK, Trust!TrustTypeOK
<1>6. CASE ServerStops
  <2>1. left' \in [Faults -> Nat]
    BY <1>6, MayType DEF ServerStops, Faults
  <2>2. NoAttempt \in Attempt
    BY DEF NoAttempt, Attempt
  <2>3. ServerTypeOK'
    BY ZenonT(60), <1>6, <2>2 DEF ServerStops, Stop, ServerTypeOK, HandlerSteps
  <2> QED
    BY ZenonT(60), <1>6, <2>1, <2>3 DEF ServerStops, peerVars, trustVars, NodeFilesTypeOK, Trust!TrustTypeOK
<1>7. CASE ServerStarts
  <2>1. ServerTypeOK'
    BY ZenonT(60), <1>7 DEF ServerStarts, ServerTypeOK, NodeFilesTypeOK
  <2> QED
    BY ZenonT(60), <1>7, <2>1 DEF ServerStarts, peerVars, trustVars, NodeFilesTypeOK, Trust!TrustTypeOK
<1>8. CASE Reinitialize
  <2>1. left' \in [Faults -> Nat]
    BY <1>8, MayType DEF Reinitialize, Faults
  <2>2. NodeFilesTypeOK'
    <3>1. CASE RemoveVerifier
      BY <3>1 DEF RemoveVerifier, NodeFilesTypeOK
    <3>2. CASE Initialize
      BY ZenonT(60), <3>2, InitializeType
    <3> QED BY <1>8, <3>1, <3>2 DEF Reinitialize
  <2> QED
    BY ZenonT(60), <1>8, <2>1, <2>2 DEF Reinitialize, srvVars, peerVars, trustVars, ServerTypeOK, Trust!TrustTypeOK
<1>9. CASE Time
  <2>1. left' \in [Faults -> Nat]
    BY ZenonT(60), <1>9, MayType DEF Time, Faults
  <2>2. ServerTypeOK'
    BY <1>9 DEF Time, Tick, ServerTypeOK
  <2> QED
    BY <1>9, <2>1, <2>2 DEF Time, peerVars, trustVars, NodeFilesTypeOK, Trust!TrustTypeOK
<1> QED
  BY ZenonT(60), <1>1, <1>2, <1>3, <1>4, <1>5, <1>6, <1>7, <1>8, <1>9 DEF Next

-----------------------------------------------------------------------------
(* The connection limit                                                    *)

Registrations == {e \in Exits : exitConns[e] # NoConn}

\* What is counted, and what will be counted without another check.
CountInv == Cardinality(clientConns) + Cardinality(Registrations) + Cardinality(Pending) + 1
              <= ConnectionLimit + peak

LEMMA Counted ==
  ASSUME TypeOK
  PROVE  /\ IsFiniteSet(clientConns) /\ Cardinality(clientConns) \in Nat
         /\ IsFiniteSet(Registrations) /\ Cardinality(Registrations) \in Nat
         /\ IsFiniteSet(Pending) /\ Cardinality(Pending) \in Nat
<1>1. IsFiniteSet(clientConns) /\ IsFiniteSet(Pending)
  BY ZenonT(60), AdmissionAssumption, FS_Subset DEF TypeOK, ServerTypeOK, Pending
<1>2. IsFiniteSet(Registrations)
  BY AdmissionAssumption, FS_Subset DEF Registrations
<1> QED BY ZenonT(60), <1>1, <1>2, FS_CardinalityType

\* A step that counts nobody and lets nobody past the check keeps CountInv.
LEMMA NotCounting ==
  ASSUME TypeOK, CountInv, clientConns' \subseteq clientConns, Registrations' \subseteq Registrations,
         Pending' \subseteq Pending, peak' = peak
  PROVE  CountInv'
<1>1. /\ Cardinality(clientConns') \in Nat /\ Cardinality(clientConns') <= Cardinality(clientConns)
      /\ Cardinality(Registrations') \in Nat /\ Cardinality(Registrations') <= Cardinality(Registrations)
      /\ Cardinality(Pending') \in Nat /\ Cardinality(Pending') <= Cardinality(Pending)
  BY ZenonT(60), Counted, FS_Subset, FS_CardinalityType
<1>2. ConnectionLimit \in Nat /\ peak \in Nat
  BY AdmissionAssumption DEF TypeOK, ServerTypeOK
<1> QED BY <1>1, <1>2, Counted DEF CountInv

LEMMA AtMostOneMore ==
  ASSUME NEW X, NEW x, IsFiniteSet(X)
  PROVE  /\ IsFiniteSet(X \cup {x}) /\ Cardinality(X \cup {x}) \in Nat
         /\ Cardinality(X \cup {x}) <= Cardinality(X) + 1
<1>1. Cardinality(X) \in Nat
  BY FS_CardinalityType
<1>2. IsFiniteSet(X \cup {x})
      /\ Cardinality(X \cup {x}) = IF x \in X THEN Cardinality(X) ELSE Cardinality(X) + 1
  BY ZenonT(60), FS_AddElement
<1> QED BY <1>1, <1>2

LEMMA HandlerCount ==
  ASSUME TypeOK, CountInv, NEW k \in Conns, Handler(k)
  PROVE  CountInv'
<1> USE DEF TypeOK, ServerTypeOK, To, End
<1>0. ConnectionLimit \in Nat /\ peak \in Nat /\ NoConn \notin Conns
  BY ZenonT(60), AdmissionAssumption
<1>1. CASE CheckCount(k) /\ ~limitReached
  <2>1. Pending' = Pending \cup {k} /\ k \notin Pending
    BY <1>1 DEF CheckCount, Pending
  <2>2. Cardinality(Pending') = Cardinality(Pending) + 1
    BY ZenonT(60), <2>1, Counted, FS_AddElement
  <2>3. UNCHANGED <<clientConns, exitConns>> /\ Registrations' = Registrations
    BY ZenonT(60), <1>1 DEF CheckCount, Registrations
  <2>4. peak' \in Nat /\ Cardinality(Pending) + 1 <= peak'
    <3>1. peak' = IF Cardinality(Pending) < peak THEN peak ELSE Cardinality(Pending) + 1
      BY ZenonT(60), <1>1 DEF CheckCount
    <3> QED BY <1>0, <3>1, Counted
  <2>5. Cardinality(clientConns) + Cardinality(Registrations) + 1 <= ConnectionLimit
    BY <1>0, <1>1, Counted DEF limitReached, connectionCount, Registrations
  <2> QED BY <1>0, <2>2, <2>3, <2>4, <2>5, Counted DEF CountInv
<1>2. CASE HandleClient(k)
  <2>1. Pending' = Pending \ {k} /\ k \in Pending
    BY <1>2 DEF HandleClient, Pending
  <2>2. Cardinality(Pending') = Cardinality(Pending) - 1
    BY ZenonT(60), <2>1, Counted, FS_RemoveElement
  <2>3. Cardinality(clientConns') \in Nat /\ Cardinality(clientConns') <= Cardinality(clientConns) + 1
    BY ZenonT(60), <1>2, Counted, AtMostOneMore DEF HandleClient
  <2>4. Registrations' = Registrations /\ peak' = peak
    BY ZenonT(60), <1>2 DEF HandleClient, Registrations
  <2> QED BY <1>0, <2>2, <2>3, <2>4, Counted DEF CountInv
<1>3. CASE Register(k)
  <2>1. Pending' = Pending \ {k} /\ k \in Pending
    <3>1. h[k] = "await" /\ h' = [h EXCEPT ![k] = "serving"]
      BY ZenonT(60), <1>3 DEF Register
    <3> QED BY ZenonT(60), <3>1 DEF Pending
  <2>2. Cardinality(Pending') = Cardinality(Pending) - 1
    BY ZenonT(60), <2>1, Counted, FS_RemoveElement
  <2>3. Registrations' \subseteq Registrations \cup {Owner(k)}
    BY <1>3 DEF Register, Registrations
  <2>4. /\ IsFiniteSet(Registrations \cup {Owner(k)})
        /\ Cardinality(Registrations \cup {Owner(k)}) <= Cardinality(Registrations) + 1
        /\ Cardinality(Registrations \cup {Owner(k)}) \in Nat
    BY ZenonT(60), Counted, AtMostOneMore
  <2>5. Cardinality(Registrations') \in Nat /\ Cardinality(Registrations') <= Cardinality(Registrations) + 1
    BY <2>3, <2>4, Counted, FS_Subset, FS_CardinalityType
  <2>6. clientConns' = clientConns /\ peak' = peak
    BY ZenonT(60), <1>3 DEF Register
  <2> QED BY <1>0, <2>2, <2>5, <2>6, Counted DEF CountInv
<1>4. CASE SessionDone(k)
  <2>1. Registrations' \subseteq Registrations
    BY ZenonT(60), <1>4 DEF SessionDone, Registrations, deleteOwn
  <2> QED BY ZenonT(60), <1>4, <2>1, NotCounting DEF SessionDone, Pending
<1>5. CASE \/ Accept(k) \/ AcceptControlStream(k) \/ CheckLimiter(k) \/ Challenge(k) \/ Verify(k)
           \/ HandshakeError(k) \/ LimiterFail(k) \/ LimiterSuccess(k)
           \/ (CheckCount(k) /\ limitReached) \/ WaitForRegistration(k) \/ NoRegistration(k)
  <2>1. UNCHANGED <<clientConns, exitConns, peak>>
    BY ZenonT(60), <1>5 DEF Accept, AcceptControlStream, CheckLimiter, Challenge, Verify, HandshakeError,
       LimiterFail, LimiterSuccess, CheckCount, WaitForRegistration, NoRegistration
  <2>2. \E step \in HandlerSteps :
          h' = [h EXCEPT ![k] = step] /\ (step \notin {"client", "exit", "await"} \/ k \in Pending)
    BY ZenonT(60), <1>5 DEF Accept, AcceptControlStream, CheckLimiter, Challenge, Verify, HandshakeError,
       LimiterFail, LimiterSuccess, CheckCount, WaitForRegistration, NoRegistration, HandlerSteps, Pending
  <2>3. Pending' \subseteq Pending
    BY ZenonT(60), <2>2 DEF Pending
  <2> QED BY <2>1, <2>3, NotCounting DEF Registrations
<1> QED BY ZenonT(60), <1>1, <1>2, <1>3, <1>4, <1>5 DEF Handler

LEMMA NextCount ==
  ASSUME TypeOK, CountInv, [Next]_vars
  PROVE  CountInv'
<1> USE DEF TypeOK, ServerTypeOK
<1>1. ASSUME NEW k \in Conns, Serve(k) PROVE CountInv'
  BY ZenonT(60), <1>1, HandlerCount DEF Serve
<1>2. CASE ServerStops
  <2>1. clientConns' = {} /\ Registrations' = {} /\ Pending' = {} /\ peak' = peak
    BY ZenonT(60), <1>2 DEF ServerStops, Stop, Registrations, Pending
  <2> QED BY ZenonT(60), <2>1, NotCounting
<1>3. ASSUME NEW k \in Conns, Connects(k, "quic") \/ Connects(k, "tcp") PROVE CountInv'
  BY ZenonT(60), <1>3, NotCounting DEF Connects, Registrations, Pending
<1>4. ASSUME NEW k \in Conns, Race(k) PROVE CountInv'
  BY ZenonT(60), <1>4, NotCounting DEF Race, RegisterTooEarly, RegistrationTimeout, End, To, Registrations, Pending
<1>5. ASSUME UNCHANGED <<h, clientConns, exitConns, peak>> PROVE CountInv'
  BY ZenonT(60), <1>5, NotCounting DEF Registrations, Pending
<1>6. ASSUME NEW p \in Peers, Start(p) \/ Program(p) \/ Leave(p) \/ Signal(p) PROVE CountInv'
  <2>1. CASE DialQUIC(p)
    BY ZenonT(60), <1>3, <1>5, <2>1 DEF DialQUIC, Free, srvVars
  <2>2. CASE DialTLS(p)
    BY ZenonT(60), <1>3, <1>5, <2>2 DEF DialTLS, Free, srvVars
  <2>3. CASE OpenControlStream(p)
    BY ZenonT(60), <1>5, <2>3 DEF OpenControlStream, srvVars
  <2>4. CASE ~(DialQUIC(p) \/ DialTLS(p) \/ OpenControlStream(p))
    BY ZenonT(60), <1>5, <1>6, <2>4 DEF Program, Start, Leave, Signal, DialQUICFails, DialQUICRejected, TLSVerified,
       TLSRejected, Respond, Authenticated, ConnectionEnds, Retry, Stopped, GivesUp, srvVars
  <2> QED BY <2>1, <2>2, <2>3, <2>4
<1>7. CASE (\E k \in Conns : Break(k)) \/ ServerStarts \/ Reinitialize \/ Time \/ UNCHANGED vars
  BY ZenonT(60), <1>5, <1>7 DEF Break, ServerStarts, Reinitialize, Time, Tick, srvVars, vars
<1> QED BY ZenonT(60), <1>1, <1>2, <1>4, <1>6, <1>7 DEF Next

-----------------------------------------------------------------------------
(* The rate limiter                                                        *)

LEMMA NextBlock ==
  ASSUME TypeOK, BlockInv, [Next]_vars
  PROVE  BlockInv'
<1> USE DEF TypeOK, ServerTypeOK
<1>1. ASSUME UNCHANGED <<attempts, lastFail>> PROVE BlockInv'
  BY ZenonT(60), <1>1 DEF BlockInv
<1>2. ASSUME NEW k \in Conns, Handler(k) PROVE BlockInv'
  <2>0. HostOf(k) \in Hosts /\ attempts[HostOf(k)] \in Attempt
    BY ZenonT(60), OwnerIsPeer
  <2>1. CASE CheckLimiter(k)
    BY <2>0, <2>1, LimiterBlocks, RateLimiterAssumption DEF CheckLimiter, BlockInv, NoAttempt
  <2>2. CASE LimiterFail(k)
    BY <2>0, <2>2, LimiterBlocks DEF LimiterFail, BlockInv
  <2>3. CASE LimiterSuccess(k)
    BY <2>0, <2>3, RateLimiterAssumption DEF LimiterSuccess, Success, BlockInv, NoAttempt
  <2>4. CASE ~(CheckLimiter(k) \/ LimiterFail(k) \/ LimiterSuccess(k))
    BY ZenonT(60), <1>1, <1>2, <2>4 DEF Handler, Accept, AcceptControlStream, Challenge, Verify, HandshakeError,
       CheckCount, HandleClient, WaitForRegistration, Register, NoRegistration, SessionDone
  <2> QED BY ZenonT(60), <2>1, <2>2, <2>3, <2>4
<1>3. CASE ServerStops
  BY <1>3, RateLimiterAssumption DEF ServerStops, Stop, BlockInv, NoAttempt
<1>4. ASSUME NEW p \in Peers, Start(p) \/ Program(p) \/ Leave(p) \/ Signal(p) PROVE BlockInv'
  <2>1. CASE DialQUIC(p)
    BY ZenonT(60), <1>1, <2>1 DEF DialQUIC, Connects, srvVars
  <2>2. CASE DialTLS(p)
    BY ZenonT(60), <1>1, <2>2 DEF DialTLS, Connects, srvVars
  <2>3. CASE ~(DialQUIC(p) \/ DialTLS(p))
    BY ZenonT(60), <1>1, <1>4, <2>3 DEF Program, Start, Leave, Signal, DialQUICFails, DialQUICRejected, TLSVerified,
       OpenControlStream, TLSRejected, Respond, Authenticated, ConnectionEnds, Retry, Stopped, GivesUp,
       srvVars
  <2> QED BY <2>1, <2>2, <2>3
<1>5. CASE (\E k \in Conns : Race(k) \/ Break(k)) \/ ServerStarts \/ Reinitialize \/ Time \/ UNCHANGED vars
  BY ZenonT(60), <1>1, <1>5 DEF Race, RegisterTooEarly, RegistrationTimeout, Break, ServerStarts, Reinitialize, Time,
     Tick, srvVars, vars
<1> QED BY ZenonT(60), <1>2, <1>3, <1>4, <1>5 DEF Next, Serve

-----------------------------------------------------------------------------
(* Trust                                                                   *)

\* A program in WithConn has a connection; in Past it has seen its certificate.
WithConn == {"control", "tlswait", "await", "proof", "up"}
Past == {"control", "await", "proof", "up"}

PeerTrust(p) ==
  /\ {known[p], file[p], expected[p]} \subseteq agreed[p] \cup {0}
  /\ at[p] \in WithConn => cur[p] \in Conns /\ Owner(cur[p]) = p
  /\ at[p] \in Past /\ ~Down(cur[p]) => cert \in agreed[p]
  /\ p \in Exits =>
       /\ at[p] # "off" => known[p] = file[p]
       /\ at[p] \in {"tls", "tlswait"} /\ expected[p] # 0 => expected[p] = known[p]
       /\ at[p] \in Past /\ ~Down(cur[p]) => file[p] = cert

\* S gets another certificate only while no connection is open.
CertInv ==
  /\ cert # 0 /\ disk.cert # 0
  /\ ~listening => \A k \in Conns : link[k] = "closed"

TrustInv == CertInv /\ \A p \in Peers : PeerTrust(p)

LEMMA PeerFrame ==
  ASSUME NEW q \in Peers, PeerTrust(q), cert' = cert, at'[q] = at[q], cur'[q] = cur[q],
         known'[q] = known[q], file'[q] = file[q], agreed'[q] = agreed[q], expected'[q] = expected[q],
         at[q] \in WithConn /\ link'[cur[q]] = "open" => link[cur[q]] = "open"
  PROVE  PeerTrust(q)'
  BY ZenonT(60) DEF PeerTrust, Down, WithConn, Past

\* S never opens a connection.
LEMMA LinksOnlyClose ==
  ASSUME ServerTypeOK, NEW k \in Conns, Handler(k) \/ Race(k) \/ Break(k)
  PROVE  /\ UNCHANGED <<listening, cert>>
         /\ \A j \in Conns : link'[j] = "open" => link[j] = "open"
         /\ \A j \in Conns : link[j] = "closed" => link'[j] = "closed"
<1> USE DEF ServerTypeOK
<1>1. ASSUME NEW j, Close(j) \/ CloseFallback(j) \/ UNCHANGED link
      PROVE  /\ \A i \in Conns : link'[i] = "open" => link[i] = "open"
             /\ \A i \in Conns : link[i] = "closed" => link'[i] = "closed"
  BY <1>1, ZenonT(60) DEF Close, CloseFallback, afterClose
<1>2. CASE Race(k) \/ Break(k)
  BY ZenonT(60), <1>1, <1>2 DEF Race, RegisterTooEarly, RegistrationTimeout, Break, CloseFallback
<1>3. CASE Register(k)
  BY <1>1, <1>3 DEF Register
<1>4. CASE Accept(k) \/ AcceptControlStream(k) \/ CheckLimiter(k) \/ Challenge(k) \/ Verify(k)
           \/ HandshakeError(k) \/ LimiterFail(k) \/ LimiterSuccess(k)
  BY ZenonT(60), <1>1, <1>4 DEF Accept, AcceptControlStream, CheckLimiter, Challenge, Verify, HandshakeError,
     LimiterFail, LimiterSuccess
<1>5. CASE CheckCount(k) \/ HandleClient(k) \/ WaitForRegistration(k) \/ NoRegistration(k) \/ SessionDone(k)
  BY ZenonT(60), <1>1, <1>5 DEF CheckCount, HandleClient, WaitForRegistration, NoRegistration, SessionDone
<1> QED BY ZenonT(60), <1>2, <1>3, <1>4, <1>5 DEF Handler

LEMMA ServerTrust ==
  ASSUME TypeOK, TrustInv, UNCHANGED peerVars,
         \/ \E k \in Conns : Serve(k) \/ Race(k) \/ Break(k)
         \/ ServerStops \/ ServerStarts \/ Reinitialize \/ Time
  PROVE  TrustInv'
<1> USE DEF TypeOK, peerVars, trustVars
<1>1. ASSUME CertInv', cert' = cert, \A j \in Conns : link'[j] = "open" => link[j] = "open"
      PROVE  TrustInv'
  <2>1. ASSUME NEW q \in Peers PROVE PeerTrust(q)'
    <3>1. PeerTrust(q)
      BY DEF TrustInv
    <3>2. at[q] \in WithConn /\ link'[cur[q]] = "open" => link[cur[q]] = "open"
      BY ZenonT(60), <1>1, <3>1 DEF PeerTrust
    <3> QED BY ZenonT(60), <1>1, <3>1, <3>2, PeerFrame
  <2> QED BY ZenonT(60), <1>1, <2>1 DEF TrustInv
<1>2. ASSUME NEW k \in Conns, Serve(k) \/ Race(k) \/ Break(k) PROVE TrustInv'
  <2>1. /\ UNCHANGED <<listening, cert, disk>>
        /\ \A j \in Conns : link'[j] = "open" => link[j] = "open"
        /\ \A j \in Conns : link[j] = "closed" => link'[j] = "closed"
    BY ZenonT(60), <1>2, LinksOnlyClose DEF Serve, Race, Break
  <2>2. CertInv'
    BY ZenonT(60), <2>1 DEF TrustInv, CertInv
  <2> QED BY ZenonT(60), <1>1, <2>1, <2>2
<1>3. CASE ServerStops
  <2>1. CertInv' /\ cert' = cert /\ \A j \in Conns : link'[j] = "closed"
    BY ZenonT(60), <1>3 DEF ServerStops, Stop, TrustInv, CertInv
  <2> QED BY ZenonT(60), <1>1, <2>1
<1>4. CASE ServerStarts
  <2>1. CertInv' /\ link' = link /\ \A j \in Conns : link[j] = "closed"
    BY <1>4 DEF ServerStarts, Startable, TrustInv, CertInv
  <2>2. ASSUME NEW q \in Peers PROVE PeerTrust(q)'
    <3>1. PeerTrust(q)
      BY DEF TrustInv
    <3>2. at[q] \in WithConn => link'[cur[q]] = "closed"
      BY ZenonT(60), <2>1, <3>1 DEF PeerTrust
    <3> QED BY ZenonT(60), <3>1, <3>2 DEF PeerTrust, WithConn, Past, Down
  <2> QED BY ZenonT(60), <2>1, <2>2 DEF TrustInv
<1>5. CASE Reinitialize
  <2>1. disk'.cert # 0
    <3>1. CASE RemoveVerifier
      BY ZenonT(60), <3>1 DEF RemoveVerifier, NodeFilesTypeOK, TrustInv, CertInv
    <3>2. CASE Initialize
      BY ZenonT(60), <3>2, InitializeType DEF TrustInv, CertInv
    <3> QED BY <1>5, <3>1, <3>2 DEF Reinitialize
  <2>2. CertInv' /\ cert' = cert /\ link' = link
    BY ZenonT(60), <1>5, <2>1 DEF Reinitialize, srvVars, TrustInv, CertInv
  <2> QED BY ZenonT(60), <1>1, <2>2
<1>6. CASE Time
  <2>1. CertInv' /\ cert' = cert /\ link' = link
    BY <1>6 DEF Time, Tick, TrustInv, CertInv
  <2> QED BY <1>1, <2>1
<1> QED BY ZenonT(60), <1>2, <1>3, <1>4, <1>5, <1>6

\* A step of p: the others keep their trust if no connection but p's is opened.
LEMMA OthersTrust ==
  ASSUME TypeOK, TrustInv, NEW p \in Peers, NEW q \in Peers, q # p, cert' = cert,
         \E step : Goes(p, step) \/ UNCHANGED at,
         \E k : Uses(p, k) \/ UNCHANGED cur,
         \E fp : expected' = [expected EXCEPT ![p] = fp] \/ UNCHANGED expected,
         known'[q] = known[q], file'[q] = file[q], agreed'[q] = agreed[q],
         \A j \in Conns : Owner(j) # p /\ link'[j] = "open" => link[j] = "open"
  PROVE  PeerTrust(q)'
<1>1. PeerTrust(q)
  BY ZenonT(60) DEF TrustInv
<1>2. at[q] \in WithConn /\ link'[cur[q]] = "open" => link[cur[q]] = "open"
  BY ZenonT(60), <1>1 DEF PeerTrust
<1>3. at'[q] = at[q] /\ cur'[q] = cur[q] /\ expected'[q] = expected[q]
  BY ZenonT(60) DEF TypeOK, Goes, Uses
<1> QED BY ZenonT(60), <1>1, <1>2, <1>3, PeerFrame

\* What p does to its store is nobody else's,
LEMMA StoreFrame ==
  ASSUME Trust!TrustTypeOK, NEW p \in Peers, NEW q \in Peers, q # p, NEW x,
         \/ Trust!Load(p) \/ Trust!Verified(p, x, cert)
         \/ Trust!Rejected(p, x, cert) \/ Trust!SaveFails(p, cert) \/ UNCHANGED trustVars
  PROVE  known'[q] = known[q] /\ file'[q] = file[q] /\ agreed'[q] = agreed[q]
  BY DEF Trust!TrustTypeOK, Trust!Load, Trust!Verified, Trust!Rejected, Trust!SaveFails, Trust!Saves,
     Trust!Remember, Trust!Refuses, Trust!trustVars, trustVars

\* a certificate that passes has been agreed to, and is on disk if the memory
\* was like the disk before,
LEMMA StoreVerified ==
  ASSUME Trust!TrustTypeOK, cert \in Nat, cert # 0, NEW p \in Peers, PeerTrust(p),
         NEW x \in {known[p], expected[p]}, Trust!Verified(p, x, cert)
  PROVE  /\ cert \in agreed'[p] /\ agreed[p] \subseteq agreed'[p]
         /\ {known'[p], file'[p]} \subseteq agreed'[p] \cup {0}
         /\ known[p] = file[p] /\ (x # 0 => x = known[p]) => known'[p] = cert /\ file'[p] = cert
<1> USE DEF Trust!TrustTypeOK, PeerTrust
<1>1. CASE x = cert /\ UNCHANGED trustVars
  <2>1. UNCHANGED <<known, file, agreed>>
    BY ZenonT(60), <1>1 DEF trustVars
  <2>2. x \in agreed[p] \cup {0}
    BY ZenonT(60) DEF PeerTrust
  <2> QED BY ZenonT(60), <1>1, <2>1, <2>2
<1>2. CASE x = 0 /\ Trust!Saves(p, cert)
  BY ZenonT(60), <1>2 DEF Trust!Saves, Trust!Remember, Trust!sameOrNone, Trust!Unknown
<1> QED BY ZenonT(60), <1>1, <1>2 DEF Trust!Verified, Trust!Unknown, Trust!trustVars, trustVars

\* and one that does not pass leaves nothing that was not agreed to.
LEMMA StoreRejected ==
  ASSUME Trust!TrustTypeOK, cert \in Nat, cert # 0, NEW p \in Peers, PeerTrust(p), NEW x,
         Trust!Rejected(p, x, cert) \/ Trust!SaveFails(p, cert)
  PROVE  /\ agreed[p] \subseteq agreed'[p]
         /\ {known'[p], file'[p]} \subseteq agreed'[p] \cup {0}
<1> USE DEF Trust!TrustTypeOK, PeerTrust
<1>1. CASE UNCHANGED trustVars
  BY ZenonT(60), <1>1 DEF trustVars
<1>2. CASE Trust!SaveFails(p, cert)
  BY ZenonT(60), <1>2 DEF Trust!SaveFails, Trust!Remember, Trust!sameOrNone, Trust!Unknown
<1> QED BY ZenonT(60), <1>1, <1>2 DEF Trust!Rejected, Trust!Refuses, Trust!trustVars, trustVars

LEMMA ProgramTrust ==
  ASSUME TypeOK, TrustInv, NEW p \in Peers, Start(p) \/ Program(p) \/ Leave(p) \/ Signal(p)
  PROVE  TrustInv'
<1>0. /\ PeerTrust(p) /\ CertInv /\ cert \in Nat /\ cert # 0 /\ Trust!TrustTypeOK
      /\ at \in [Peers -> PeerSteps] /\ cur \in [Peers -> Conns \cup {NoConn}]
      /\ expected \in [Peers -> Nat] /\ link \in [Conns -> {"open", "half", "closed"}]
  BY ZenonT(60) DEF TrustInv, CertInv, TypeOK, ServerTypeOK
<1> USE <1>0 DEF Past, WithConn
<1>1. ASSUME PeerTrust(p)', UNCHANGED <<listening, cert, disk>>,
             \A j \in Conns : Owner(j) # p /\ link'[j] = "open" => link[j] = "open",
             ~listening => \A j \in Conns : link[j] = "closed" => link'[j] = "closed",
             \E step : Goes(p, step) \/ UNCHANGED at,
             \E k : Uses(p, k) \/ UNCHANGED cur,
             \E fp : expected' = [expected EXCEPT ![p] = fp] \/ UNCHANGED expected,
             \E x : \/ Trust!Load(p) \/ Trust!Verified(p, x, cert)
                    \/ Trust!Rejected(p, x, cert) \/ Trust!SaveFails(p, cert) \/ UNCHANGED trustVars
      PROVE  TrustInv'
  <2>1. CertInv'
    BY ZenonT(60), <1>1 DEF CertInv
  <2>2. ASSUME NEW q \in Peers PROVE PeerTrust(q)'
    <3>1. CASE q = p
      BY <1>1, <3>1
    <3>2. CASE q # p
      <4>1. known'[q] = known[q] /\ file'[q] = file[q] /\ agreed'[q] = agreed[q]
        BY ZenonT(60), <1>1, <3>2, StoreFrame
      <4> QED BY ZenonT(60), <1>1, <3>2, <4>1, OthersTrust
    <3> QED BY ZenonT(60), <3>1, <3>2
  <2> QED BY ZenonT(60), <2>1, <2>2 DEF TrustInv
\* The connection is opened by the program.
<1>2. ASSUME NEW k \in Free(p), listening, Connects(k, "quic") \/ Connects(k, "tcp")
      PROVE  /\ k \in Conns /\ Owner(k) = p /\ link'[k] = "open" /\ UNCHANGED <<listening, cert>>
             /\ \A j \in Conns : Owner(j) # p /\ link'[j] = "open" => link[j] = "open"
  BY ZenonT(60), <1>2 DEF Free, Connects
<1>3. CASE Start(p)
  <2>1. PeerTrust(p)'
    BY <1>3 DEF Start, Trust!Load, Trust!TrustTypeOK, Goes, PeerTrust
  <2> QED BY ZenonT(60), <1>1, <1>3, <2>1 DEF Start, srvVars
<1>4. CASE DialQUICFails(p)
  <2>1. PeerTrust(p)'
    BY ZenonT(60), <1>4 DEF DialQUICFails, trustVars, Goes, PeerTrust
  <2> QED BY ZenonT(60), <1>1, <1>4, <2>1 DEF DialQUICFails, srvVars
<1>5. CASE DialQUIC(p)
  <2>1. /\ cert \in agreed'[p] /\ agreed[p] \subseteq agreed'[p]
        /\ {known'[p], file'[p]} \subseteq agreed'[p] \cup {0}
        /\ known[p] = file[p] => known'[p] = cert /\ file'[p] = cert
        /\ expected'[p] = known[p] /\ known[p] \in {0, cert}
    <3>1. known[p] \in {0, cert}
      BY ZenonT(60), <1>5 DEF DialQUIC, Trust!Verified, Trust!Unknown
    <3> QED BY ZenonT(60), <1>5, <3>1, StoreVerified DEF DialQUIC
  <2>2. known[p] \in agreed'[p] \cup {0} /\ at[p] = "dial"
    BY ZenonT(60), <1>5, <2>1 DEF DialQUIC, PeerTrust
  <2>3. ASSUME NEW k \in Free(p), Connects(k, "quic"), Uses(p, k), Goes(p, "control") PROVE TrustInv'
    <3>1. cur'[p] = k /\ at'[p] = "control" /\ cert' = cert
      BY ZenonT(60), <1>2, <1>5, <2>3 DEF Uses, Goes, DialQUIC
    <3>2. PeerTrust(p)'
      BY ZenonT(60), <1>2, <1>5, <2>1, <2>2, <2>3, <3>1 DEF DialQUIC, PeerTrust
    <3> QED BY ZenonT(60), <1>1, <1>2, <1>5, <2>3, <3>2 DEF DialQUIC
  <2>4. CASE Goes(p, "tls") /\ UNCHANGED <<srvVars, cur>>
    <3>1. PeerTrust(p)'
      BY ZenonT(60), <2>1, <2>2, <2>4 DEF PeerTrust, Goes
    <3> QED BY ZenonT(60), <1>1, <1>5, <2>4, <3>1 DEF DialQUIC, srvVars
  <2> QED BY ZenonT(60), <1>5, <2>3, <2>4 DEF DialQUIC
<1>6. CASE DialQUICRejected(p)
  <2>1. /\ agreed[p] \subseteq agreed'[p] /\ {known'[p], file'[p]} \subseteq agreed'[p] \cup {0}
    BY ZenonT(60), <1>6, StoreRejected DEF DialQUICRejected
  <2>2. expected'[p] = known[p] /\ at'[p] \in {"off", "tls"} /\ (p \in Exits => at'[p] = "off")
    BY ZenonT(60), <1>6 DEF DialQUICRejected, Goes, afterError
  <2>3. PeerTrust(p)'
    BY ZenonT(60), <2>1, <2>2 DEF PeerTrust
  <2> QED BY ZenonT(60), <1>1, <1>6, <2>3 DEF DialQUICRejected, srvVars
<1>7. CASE OpenControlStream(p)
  <2>1. /\ \A j \in Conns : link'[j] = "open" => link[j] = "open"
        /\ \A j \in Conns : link[j] = "closed" => link'[j] = "closed"
        /\ UNCHANGED <<trustVars, expected, listening, cert, disk>>
    BY ZenonT(60), <1>7 DEF OpenControlStream, CloseFallback
  <2>2. CASE Goes(p, afterError(p, FALSE)) /\ Uses(p, NoConn)
    <3>1. at'[p] \in {"off", "wait"}
      BY ZenonT(60), <2>2 DEF Goes, afterError
    <3>2. PeerTrust(p)'
      BY ZenonT(60), <1>7, <2>1, <3>1 DEF OpenControlStream, trustVars, PeerTrust
    <3> QED BY ZenonT(60), <1>1, <2>1, <2>2, <3>2
  <2>3. CASE Goes(p, "await") /\ UNCHANGED <<cur, link>>
    <3>1. PeerTrust(p)'
      BY ZenonT(60), <1>7, <2>1, <2>3 DEF OpenControlStream, trustVars, Goes, Down, PeerTrust
    <3> QED BY ZenonT(60), <1>1, <2>1, <2>3, <3>1
  <2> QED BY ZenonT(60), <1>7, <2>2, <2>3 DEF OpenControlStream
<1>8. CASE DialTLS(p)
  <2>1. ASSUME NEW k \in Free(p), listening, Connects(k, "tcp"), Uses(p, k), Goes(p, "tlswait") PROVE TrustInv'
    <3>1. cur'[p] = k /\ at'[p] = "tlswait"
      BY <2>1 DEF Uses, Goes
    <3>2. PeerTrust(p)'
      BY ZenonT(60), <1>2, <1>8, <2>1, <3>1 DEF DialTLS, trustVars, PeerTrust
    <3> QED BY ZenonT(60), <1>1, <1>2, <1>8, <2>1, <3>2 DEF DialTLS
  <2>2. CASE Goes(p, afterError(p, FALSE)) /\ UNCHANGED <<srvVars, cur>>
    <3>1. PeerTrust(p)'
      BY ZenonT(60), <1>8, <2>2 DEF DialTLS, trustVars, Goes, afterError, PeerTrust
    <3> QED BY ZenonT(60), <1>1, <1>8, <2>2, <3>1 DEF DialTLS, srvVars
  <2> QED BY ZenonT(60), <1>8, <2>1, <2>2 DEF DialTLS
<1>9. CASE TLSVerified(p)
  <2>1. /\ cert \in agreed'[p] /\ agreed[p] \subseteq agreed'[p]
        /\ {known'[p], file'[p]} \subseteq agreed'[p] \cup {0}
        /\ p \in Exits => known'[p] = cert /\ file'[p] = cert
    <3>1. at[p] = "tlswait"
      BY ZenonT(60), <1>9 DEF TLSVerified
    <3> QED BY ZenonT(60), <1>9, <3>1, StoreVerified DEF TLSVerified, PeerTrust
  <2>2. at[p] = "tlswait" /\ at'[p] = "await" /\ UNCHANGED <<cur, expected, cert, link>>
    BY <1>9 DEF TLSVerified, Goes
  <2>3. PeerTrust(p)'
    BY ZenonT(60), <2>1, <2>2 DEF PeerTrust
  <2> QED BY ZenonT(60), <1>1, <1>9, <2>2, <2>3 DEF TLSVerified
\* It gives up.
<1>10. ASSUME NEW b \in BOOLEAN, GivesUp(p, b), agreed[p] \subseteq agreed'[p],
              {known'[p], file'[p]} \subseteq agreed'[p] \cup {0},
              \/ UNCHANGED trustVars /\ at[p] # "off"
              \/ b /\ \E x : Trust!Rejected(p, x, cert) \/ Trust!SaveFails(p, cert)
       PROVE  TrustInv'
  <2>1. /\ at'[p] \in {"off", "wait"} /\ (b /\ p \in Exits => at'[p] = "off")
        /\ UNCHANGED <<expected, listening, cert, disk>>
    BY ZenonT(60), <1>10 DEF GivesUp, Goes, afterError
  <2>2. /\ \A j \in Conns : link'[j] = "open" => link[j] = "open"
        /\ \A j \in Conns : link[j] = "closed" => link'[j] = "closed"
    BY ZenonT(60), <1>10 DEF GivesUp, Close, afterClose
  <2>3. PeerTrust(p)'
    BY ZenonT(60), <1>10, <2>1 DEF PeerTrust, trustVars
  <2>4. (\E step : Goes(p, step)) /\ (\E k : Uses(p, k))
    BY ZenonT(60), <1>10 DEF GivesUp
  <2> QED BY ZenonT(60), <1>1, <1>10, <2>1, <2>2, <2>3, <2>4
<1>11. CASE TLSRejected(p)
  <2>1. agreed[p] \subseteq agreed'[p] /\ {known'[p], file'[p]} \subseteq agreed'[p] \cup {0}
    BY ZenonT(60), <1>11, StoreRejected DEF TLSRejected
  <2> QED BY ZenonT(60), <1>10, <1>11, <2>1 DEF TLSRejected
<1>12. CASE ConnectionEnds(p) \/ Leave(p)
  <2>1. GivesUp(p, FALSE) /\ UNCHANGED trustVars /\ at[p] # "off"
    BY ZenonT(60), <1>12 DEF ConnectionEnds, Leave
  <2>2. agreed[p] \subseteq agreed'[p] /\ {known'[p], file'[p]} \subseteq agreed'[p] \cup {0}
    BY ZenonT(60), <2>1 DEF trustVars, PeerTrust
  <2> QED BY ZenonT(60), <1>10, <2>1, <2>2
<1>13. CASE Respond(p) \/ Authenticated(p)
  <2>1. /\ at[p] \in {"await", "proof"} /\ at'[p] \in {"proof", "up"}
        /\ UNCHANGED <<trustVars, cur, expected, cert, listening, disk, link>>
    BY <1>13 DEF Respond, Authenticated, Goes
  <2>2. PeerTrust(p)'
    BY ZenonT(60), <2>1 DEF trustVars, PeerTrust, Down
  <2>3. \E step : Goes(p, step)
    BY ZenonT(60), <1>13 DEF Respond, Authenticated
  <2> QED BY ZenonT(60), <1>1, <2>1, <2>2, <2>3
<1>14. CASE Retry(p) \/ Stopped(p) \/ Signal(p)
  <2>1. /\ UNCHANGED <<trustVars, cur, expected, cert, listening, disk, link>>
        /\ at' = at \/ (at[p] = "wait" /\ at'[p] \in {"dial", "off"})
    <3>1. CASE Retry(p)
      BY ZenonT(60), <3>1 DEF Retry, Goes, srvVars
    <3>2. CASE Stopped(p)
      BY ZenonT(60), <3>2 DEF Stopped, Goes, srvVars
    <3>3. CASE Signal(p)
      BY <3>3 DEF Signal, srvVars
    <3> QED BY ZenonT(60), <1>14, <3>1, <3>2, <3>3
  <2>2. PeerTrust(p)'
    BY ZenonT(60), <2>1 DEF trustVars, PeerTrust, Down
  <2>3. \E step : Goes(p, step) \/ UNCHANGED at
    BY <1>14 DEF Retry, Stopped, Signal
  <2> QED BY ZenonT(60), <1>1, <2>1, <2>2, <2>3
<1> QED
  BY ZenonT(60), <1>3, <1>4, <1>5, <1>6, <1>7, <1>8, <1>9, <1>11, <1>12, <1>13, <1>14 DEF Program

-----------------------------------------------------------------------------
(* Theorems                                                                *)

IInv == TypeOK /\ CountInv /\ BlockInv /\ TrustInv

LEMMA InitIInv == Init => IInv
<1> SUFFICES ASSUME Init PROVE IInv
  OBVIOUS
<1>1. TypeOK
  BY ZenonT(60), InitType
<1>2. CountInv
  <2>1. clientConns = {} /\ Registrations = {} /\ Pending = {} /\ peak = 0
    BY ZenonT(60) DEF Init, ServerInit, Registrations, Pending
  <2> QED BY <2>1, FS_EmptySet, AdmissionAssumption DEF CountInv
<1>3. BlockInv
  BY RateLimiterAssumption DEF Init, ServerInit, BlockInv, NoAttempt
<1>4. CertInv
  BY DEF Init, ServerInit, NodeFilesInit, CertInv
<1>5. ASSUME NEW p \in Peers PROVE PeerTrust(p)
  BY DEF Init, Trust!TrustInit, Trust!Unknown, PeerTrust, WithConn, Past
<1> QED BY ZenonT(60), <1>1, <1>2, <1>3, <1>4, <1>5 DEF IInv, TrustInv

LEMMA NextIInv ==
  ASSUME IInv, [Next]_vars
  PROVE  IInv'
<1> USE DEF IInv
<1>1. TypeOK'
  BY NextType
<1>2. CountInv' /\ BlockInv'
  BY NextCount, NextBlock
<1>3. TrustInv'
  <2>1. CASE UNCHANGED vars
    BY ZenonT(60), <2>1 DEF vars, srvVars, trustVars, TrustInv, CertInv, PeerTrust, Down
  <2>2. CASE Next
    BY ZenonT(60), <2>2, ProgramTrust, ServerTrust DEF Next, Serve, Race, Break, ServerStops, ServerStarts,
       Reinitialize, Time
  <2> QED BY <2>1, <2>2
<1> QED BY <1>1, <1>2, <1>3

LEMMA Inductive == Spec => []IInv
  BY InitIInv, NextIInv, PTL DEF Spec

\* Every variable of Connect has its type.
THEOREM TypeCorrect == Spec => []TypeOK
  BY Inductive, PTL DEF IInv

\* server.go counts one more connection than its limit for every handler but
\* one that was between the check and the count, and no other.
THEOREM LimitHolds == Spec => []LimitOvershoot
<1>1. IInv => LimitOvershoot
  <2> SUFFICES ASSUME IInv PROVE LimitOvershoot
    OBVIOUS
  <2>1. ConnectionLimit \in Nat /\ peak \in Nat
    BY AdmissionAssumption DEF IInv, TypeOK, ServerTypeOK
  <2> QED BY <2>1, Counted DEF IInv, CountInv, LimitOvershoot, connectionCount, Registrations
<1> QED BY <1>1, Inductive, PTL

\* RateLimiter lets no handshake of a blocked address begin before its time.
THEOREM BlockedWait == Spec => BlockHolds
<1>1. ASSUME IInv, [Next]_vars, NEW k \in Conns, h[k] = "limit", h'[k] = "handshake",
             attempts[HostOf(k)].count >= FailLimit
      PROVE  now >= lastFail[HostOf(k)] + BlockFor
  <2> USE DEF IInv, TypeOK, ServerTypeOK
  <2>0. HostOf(k) \in Hosts /\ attempts[HostOf(k)] \in Attempt
    BY ZenonT(60), <1>1, OwnerIsPeer
  <2>1. attempts[HostOf(k)].blockedTill = lastFail[HostOf(k)] + BlockFor
    BY <1>1, <2>0, ZenonT(60) DEF BlockInv
  <2>2. ~Blocked(attempts[HostOf(k)], now)
    <3>1. ASSUME NEW j \in Conns, NEW step, h' = [h EXCEPT ![j] = step] PROVE j = k /\ step = "handshake"
      BY ZenonT(60), <1>1, <3>1
    <3>2. h' # h
      BY <1>1
    <3>3. ASSUME NEW j \in Conns, Handler(j) PROVE j = k
      BY ZenonT(60), <3>1, <3>3 DEF Handler, To, End, Accept, AcceptControlStream, CheckLimiter, Challenge,
         Verify, HandshakeError, LimiterFail, LimiterSuccess, CheckCount, HandleClient,
         WaitForRegistration, Register, NoRegistration, SessionDone
    <3>4. CASE Handler(k)
      <4>1. CheckLimiter(k)
        BY ZenonT(60), <1>1, <3>4 DEF Handler, Accept, AcceptControlStream, Challenge,
           Verify, HandshakeError, LimiterFail, LimiterSuccess, CheckCount, HandleClient,
           WaitForRegistration, Register, NoRegistration, SessionDone
      <4> QED BY ZenonT(60), <3>1, <4>1 DEF CheckLimiter, End, To
    <3>5. ASSUME NEW j \in Conns, Race(j) \/ Break(j) \/ Connects(j, "quic") \/ Connects(j, "tcp") PROVE FALSE
      <4>1. h' = h \/ h' = [h EXCEPT ![j] = "ended"] \/ h' = [h EXCEPT ![j] = "queued"]
        BY <3>5 DEF Race, RegisterTooEarly, RegistrationTimeout, End, To, Break, Connects
      <4> QED BY ZenonT(60), <3>1, <3>2, <4>1
    <3>6. ASSUME NEW p \in Peers, Start(p) \/ Program(p) \/ Leave(p) \/ Signal(p) PROVE FALSE
      <4>1. CASE DialQUIC(p)
        BY ZenonT(60), <3>2, <3>5, <4>1 DEF DialQUIC, Free, srvVars
      <4>2. CASE DialTLS(p)
        BY ZenonT(60), <3>2, <3>5, <4>2 DEF DialTLS, Free, srvVars
      <4>3. CASE ~(DialQUIC(p) \/ DialTLS(p))
        BY ZenonT(60), <3>2, <3>6, <4>3 DEF Program, Start, Leave, Signal, DialQUICFails, DialQUICRejected, TLSVerified,
           OpenControlStream, TLSRejected, Respond, Authenticated, ConnectionEnds, Retry, Stopped, GivesUp,
           srvVars
      <4> QED BY <4>1, <4>2, <4>3
    <3>7. CASE ServerStops
      BY ZenonT(60), <1>1, <3>7 DEF ServerStops, Stop
    <3>8. CASE ServerStarts \/ Reinitialize \/ Time \/ UNCHANGED vars
      BY ZenonT(60), <3>2, <3>8 DEF ServerStarts, Reinitialize, Time, Tick, srvVars, vars
    <3> QED BY ZenonT(60), <1>1, <3>3, <3>4, <3>5, <3>6, <3>7, <3>8 DEF Next, Serve
  <2> QED BY SMTT(30), <1>1, <2>0, <2>1, <2>2, RateLimiterAssumption DEF Blocked, Attempt
<1>2. ASSUME IInv, [Next]_vars
      PROVE  [\A k \in Conns :
                h[k] = "limit" /\ h'[k] = "handshake" /\ attempts[HostOf(k)].count >= FailLimit
                  => now >= lastFail[HostOf(k)] + BlockFor]_vars
  BY <1>1, <1>2
<1> QED BY <1>2, Inductive, PTL DEF BlockHolds, Spec

\* The client's half of the handshake answers only a server whose certificate
\* was agreed to.
THEOREM SecretOnlyToTrusted == Spec => []TrustBeforeSecret
<1>1. IInv => TrustBeforeSecret
  BY ZenonT(60) DEF IInv, TrustInv, PeerTrust, Past, TrustBeforeSecret
<1> QED BY <1>1, Inductive, PTL

\* exit.go works only with a server whose fingerprint is in its file.
THEOREM TrustIsDurable == Spec => []TrustDurable
<1>1. IInv => TrustDurable
  BY ZenonT(60), AdmissionAssumption DEF IInv, TrustInv, PeerTrust, Past, TrustDurable
<1> QED BY <1>1, Inductive, PTL
=============================================================================
