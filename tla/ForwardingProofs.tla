-------------------------- MODULE ForwardingProofs --------------------------
(***************************************************************************)
(* Type correctness of Forwarding, and as long as one client makes all     *)
(* requests, that they do not mix and that an open stream has its path,    *)
(* for any number of dials and exits.                                      *)
(***************************************************************************)
EXTENDS Forwarding, SequenceTheorems, TLAPS

\* A frame made for a request is a frame.
LEMMA FrameType ==
  ASSUME TypeOK, NEW r \in Requests, NEW type \in {"Open", "Ack", "Data"}, NEW ok \in {0, 1}
  PROVE  F(type, r, ok) \in Frame
  BY DEF F, Frame, TypeOK

\* A function keeps its type when it is changed at one place.
LEMMA UpdateType ==
  ASSUME NEW D, NEW T, NEW g \in [D -> T], NEW e, NEW v, e \in D => v \in T
  PROVE  [g EXCEPT ![e] = v] \in [D -> T]
  BY ZenonT(60)

\* Appending to one of the queues keeps the type of all.
LEMMA SendType ==
  ASSUME NEW q \in [Exits -> Seq(Frame)], NEW e, NEW f \in Frame
  PROVE  [q EXCEPT ![e] = Append(@, f)] \in [Exits -> Seq(Frame)]
<1>1. ASSUME e \in Exits PROVE Append(q[e], f) \in Seq(Frame)
  <2>1. q[e] \in Seq(Frame)
    BY <1>1
  <2> QED
    BY <2>1, AppendProperties
<1> QED
  BY <1>1, UpdateType

\* So does taking the first frame off one of them, and the frame is one.
LEMMA ReceiveType ==
  ASSUME NEW q \in [Exits -> Seq(Frame)], NEW e \in Exits, q[e] # <<>>
  PROVE  /\ [q EXCEPT ![e] = Tail(@)] \in [Exits -> Seq(Frame)]
         /\ Head(q[e]) \in Frame
<1>1. q[e] \in Seq(Frame)
  OBVIOUS
<1>2. Tail(q[e]) \in Seq(Frame) /\ Head(q[e]) \in Frame
  BY <1>1
<1> QED
  BY <1>2

\* Accept and Reject of forwardOpen keep the types of what they change.
LEMMA ReplyType ==
  ASSUME TypeOK, NEW r \in Requests, NEW to \in {"open", "failed"}, Reply(r, to)
  PROVE  /\ dialer' \in [Requests -> {"none", "waiting", "open", "failed"}]
         /\ forward' \in [Requests -> {"none", "arrived", "chosen", "dialing", "relay", "rejected"}]
  BY DEF Reply, TypeOK

\* Every variable keeps its type through every step of a dial, of forwardOpen,
\* of the exits and of the relays.
THEOREM TypeCorrect == Spec => []TypeOK
<1>1. Init => TypeOK
  BY DEF Init, TypeOK, Frame
<1>2. TypeOK /\ [Next]_vars => TypeOK'
  <2> SUFFICES ASSUME TypeOK, [Next]_vars PROVE TypeOK'
    OBVIOUS
  <2> USE DEF conns, bytes
  <2>1. ASSUME NEW r \in Requests, Request(r) PROVE TypeOK'
    <3>1. Client[r[1]] \in Clients
      BY ForwardingAssumption DEF Requests
    <3> QED
      BY <2>1, <3>1 DEF Request, newID, TypeOK
  <2>2. ASSUME NEW r \in Requests, Cancel(r) PROVE TypeOK'
    BY <2>2 DEF Cancel, TypeOK
  <2>3. ASSUME NEW r \in Requests, Forward(r) PROVE TypeOK'
    <3>0. ASSUME Reply(r, "open") \/ Reply(r, "failed")
          PROVE  /\ dialer' \in [Requests -> {"none", "waiting", "open", "failed"}]
                 /\ forward' \in [Requests -> {"none", "arrived", "chosen", "dialing",
                                             "relay", "rejected"}]
      BY <3>0, ReplyType
    <3>1. CASE ForwardSelect(r)
      <4>1. CASE Reply(r, "failed") /\ UNCHANGED via
        BY <3>0, <3>1, <4>1 DEF ForwardSelect, TypeOK
      <4>2. CASE /\ \E x \in Candidates(r) : via' = [via EXCEPT ![r] = x]
                 /\ forward' = [forward EXCEPT ![r] = "chosen"]
                 /\ UNCHANGED dialer
        <5>1. PICK x \in Exits \cup {Direct} : via' = [via EXCEPT ![r] = x]
          BY ZenonT(60), <4>2 DEF Candidates
        <5>2. via' \in [Requests -> Exits \cup {Direct}]
          BY <5>1 DEF TypeOK
        <5>3. UNCHANGED <<nextID, id, dialer, ack, serve, conns, bytes>>
          BY <3>1, <4>2 DEF ForwardSelect
        <5> QED BY <4>2, <5>2, <5>3 DEF TypeOK
      <4> QED BY <3>1, <4>1, <4>2 DEF ForwardSelect
    <3>2. CASE ForwardDirect(r)
      BY <3>0, <3>2 DEF ForwardDirect, TypeOK
    <3>3. CASE ForwardDial(r)
      <4>1. CASE exit[via[r]] = "up"
        <5>1. F("Open", r, 1) \in Frame
          BY FrameType
        <5>2. toE' \in [Exits -> Seq(Frame)]
          <6>1. [toE EXCEPT ![via[r]] = Append(@, F("Open", r, 1))] \in [Exits -> Seq(Frame)]
            BY ZenonT(60), <5>1, SendType DEF TypeOK
          <6> QED BY ZenonT(60), <3>3, <4>1, <6>1 DEF ForwardDial
        <5>3. sStreams' \in [Exits -> SUBSET Requests]
          <6>1. sStreams \in [Exits -> SUBSET Requests] /\ via[r] \in Exits
            BY <3>3 DEF ForwardDial, TypeOK
          <6>2. PICK S \in SUBSET Requests : S = Register(sStreams[via[r]], r)
            BY ZenonT(60), <6>1 DEF Register
          <6>3. sStreams' = [sStreams EXCEPT ![via[r]] = S]
            BY <3>3, <4>1, <6>2 DEF ForwardDial
          <6> QED BY <6>1, <6>3
        <5> QED BY ZenonT(60), <3>3, <4>1, <5>2, <5>3 DEF ForwardDial, TypeOK
      <4>2. CASE exit[via[r]] # "up"
        BY <3>0, <3>3, <4>2 DEF ForwardDial, TypeOK
      <4> QED BY <4>1, <4>2
    <3>4. CASE ForwardReturn(r)
      <4>1. sStreams' \in [Exits -> SUBSET Requests]
        <5>1. via[r] \in Exits => sStreams[via[r]] \ {r} \in SUBSET Requests
          BY DEF TypeOK
        <5>2. [sStreams EXCEPT ![via[r]] = @ \ {r}] \in [Exits -> SUBSET Requests]
          BY ZenonT(60), <5>1, UpdateType DEF TypeOK
        <5> QED BY <3>4, <5>2 DEF ForwardReturn, TypeOK
      <4>2. Reply(r, "open") \/ Reply(r, "failed")
        BY <3>4 DEF ForwardReturn
      <4> QED BY <3>0, <3>4, <4>1, <4>2 DEF ForwardReturn, TypeOK
    <3> QED BY <2>3, <3>1, <3>2, <3>3, <3>4 DEF Forward
  <2>4. ASSUME NEW r \in Requests, Serve(r) PROVE TypeOK'
    <3>1. F("Ack", r, 0) \in Frame /\ F("Ack", r, 1) \in Frame
      BY FrameType
    <3>2. toS' \in [Exits -> Seq(Frame)]
      <4>1. /\ [toS EXCEPT ![via[r]] = Append(@, F("Ack", r, 0))] \in [Exits -> Seq(Frame)]
            /\ [toS EXCEPT ![via[r]] = Append(@, F("Ack", r, 1))] \in [Exits -> Seq(Frame)]
        BY ZenonT(60), <3>1, SendType DEF TypeOK
      <4> QED BY ZenonT(60), <2>4, <4>1 DEF Serve
    <3>3. eStreams' \in [Exits -> SUBSET Requests]
      <4>1. via[r] \in Exits => eStreams[via[r]] \ {r} \in SUBSET Requests
        BY DEF TypeOK
      <4>2. [eStreams EXCEPT ![via[r]] = @ \ {r}] \in [Exits -> SUBSET Requests]
        BY ZenonT(60), <4>1, UpdateType DEF TypeOK
      <4> QED BY ZenonT(60), <2>4, <4>2 DEF Serve, TypeOK
    <3> QED BY ZenonT(60), <2>4, <3>2, <3>3 DEF Serve, TypeOK
  <2>5. ASSUME NEW r \in Requests, RelayUp(r) PROVE TypeOK'
    <3>1. F("Data", r, 1) \in Frame
      BY FrameType
    <3>2. toE' \in [Exits -> Seq(Frame)]
      <4>1. [toE EXCEPT ![via[r]] = Append(@, F("Data", r, 1))] \in [Exits -> Seq(Frame)]
        BY ZenonT(60), <3>1, SendType DEF TypeOK
      <4> QED BY ZenonT(60), <2>5, <4>1 DEF RelayUp, TypeOK
    <3>3. atDest' \in [Requests -> SUBSET Requests]
      <4>1. atDest[r] \cup {r} \in SUBSET Requests
        BY DEF TypeOK
      <4> QED BY ZenonT(60), <2>5, <4>1 DEF RelayUp, TypeOK
    <3> QED BY <2>5, <3>2, <3>3 DEF RelayUp, TypeOK
  <2>6. ASSUME NEW r \in Requests, RelayDown(r) PROVE TypeOK'
    <3>1. F("Data", r, 1) \in Frame
      BY FrameType
    <3>2. toS' \in [Exits -> Seq(Frame)]
      <4>1. [toS EXCEPT ![via[r]] = Append(@, F("Data", r, 1))] \in [Exits -> Seq(Frame)]
        BY ZenonT(60), <3>1, SendType DEF TypeOK
      <4> QED BY ZenonT(60), <2>6, <4>1 DEF RelayDown, TypeOK
    <3>3. atClient' \in [Requests -> SUBSET Requests]
      <4>1. atClient[r] \cup {r} \in SUBSET Requests
        BY DEF TypeOK
      <4> QED BY ZenonT(60), <2>6, <4>1 DEF RelayDown, TypeOK
    <3> QED BY <2>6, <3>2, <3>3 DEF RelayDown, TypeOK
  <2>7. ASSUME NEW e \in Exits, ReadAtE(e) PROVE TypeOK'
    <3>1. toE' \in [Exits -> Seq(Frame)] /\ Head(toE[e]) \in Frame
      BY <2>7, ReceiveType DEF ReadAtE, TypeOK
    <3>2. Head(toE[e]).of \in Requests
      BY <3>1 DEF Frame
    <3> DEFINE f == Head(toE[e])
    <3>3. CASE f.type = "Open"
      <4>1. Register(eStreams[e], f.of) \in SUBSET Requests
        BY ZenonT(60), <3>2 DEF Register, TypeOK
      <4>2. /\ eStreams' = [eStreams EXCEPT ![e] = Register(@, f.of)]
            /\ serve' = [serve EXCEPT ![f.of] = "handling"]
            /\ UNCHANGED <<nextID, id, dialer, forward, via, ack, exit, sStreams, toS, bytes>>
        BY <2>7, <3>3 DEF ReadAtE
      <4> QED BY <3>1, <3>2, <4>1, <4>2 DEF TypeOK
    <3>4. CASE f.type = "Data"
      <4>1. \A q \in Requests : atDest[q] \cup {f.of} \in SUBSET Requests
        BY <3>2 DEF TypeOK
      <4>2. atDest' = [q \in Requests |-> IF q \in Registered(eStreams[e], f)
                                          THEN atDest[q] \cup {f.of} ELSE atDest[q]]
        BY <2>7, <3>4 DEF ReadAtE
      <4>3. atDest' \in [Requests -> SUBSET Requests]
        BY <4>1, <4>2 DEF TypeOK
      <4>4. UNCHANGED <<nextID, id, dialer, forward, via, ack, serve, exit, sStreams, eStreams,
                        toS, upSent, downSent, atClient>>
        BY <2>7, <3>4 DEF ReadAtE
      <4> QED BY <3>1, <4>3, <4>4 DEF TypeOK
    <3> QED BY <2>7, <3>3, <3>4 DEF ReadAtE
  <2>8. ASSUME NEW e \in Exits, ReadAtS(e) PROVE TypeOK'
    <3>1. toS' \in [Exits -> Seq(Frame)] /\ Head(toS[e]) \in Frame
      BY <2>8, ReceiveType DEF ReadAtS, TypeOK
    <3>2. Head(toS[e]).of \in Requests
      BY <3>1 DEF Frame
    <3> DEFINE f == Head(toS[e])
    <3>3. CASE f.type = "Ack"
      <4>1. ack' = [q \in Requests |->
                      IF q \in Registered(sStreams[e], f) /\ ack[q] = "none"
                      THEN IF f.ok = 1 THEN "ok" ELSE "nok"
                      ELSE ack[q]]
        BY <2>8, <3>3 DEF ReadAtS
      <4>2. ack' \in [Requests -> {"none", "ok", "nok"}]
        BY <4>1 DEF TypeOK
      <4>3. UNCHANGED <<nextID, id, dialer, forward, via, serve, exit, sStreams, eStreams, toE,
                        bytes>>
        BY <2>8, <3>3 DEF ReadAtS
      <4> QED BY ZenonT(60), <3>1, <4>2, <4>3 DEF TypeOK
    <3>4. CASE f.type = "Data"
      <4>1. \A q \in Requests : atClient[q] \cup {f.of} \in SUBSET Requests
        BY ZenonT(60), <3>2 DEF TypeOK
      <4>2. atClient' = [q \in Requests |-> IF q \in Registered(sStreams[e], f)
                                            THEN atClient[q] \cup {f.of} ELSE atClient[q]]
        BY <2>8, <3>4 DEF ReadAtS
      <4>3. atClient' \in [Requests -> SUBSET Requests]
        BY ZenonT(60), <4>1, <4>2 DEF TypeOK
      <4>4. UNCHANGED <<nextID, id, dialer, forward, via, ack, serve, exit, sStreams, eStreams,
                        toE, upSent, downSent, atDest>>
        BY <2>8, <3>4 DEF ReadAtS
      <4> QED BY <3>1, <4>3, <4>4 DEF TypeOK
    <3> QED BY <2>8, <3>3, <3>4 DEF ReadAtS
  <2>9. ASSUME NEW e \in Exits, ExitDies(e) \/ ExitLeaves(e) PROVE TypeOK'
    <3>1. CASE ExitDies(e)
      <4>1. /\ toE' \in [Exits -> Seq(Frame)] /\ toS' \in [Exits -> Seq(Frame)]
            /\ sStreams' \in [Exits -> SUBSET Requests] /\ eStreams' \in [Exits -> SUBSET Requests]
        BY <3>1, UpdateType DEF ExitDies, TypeOK
      <4> QED BY <3>1, <4>1 DEF ExitDies, TypeOK
    <3>2. CASE ExitLeaves(e)
      BY <3>2 DEF ExitLeaves, TypeOK
    <3> QED BY <2>9, <3>1, <3>2
  <2>10. CASE UNCHANGED vars
    BY <2>10 DEF vars, TypeOK
  <2>11. ASSUME NEW d \in Dials PROVE <<d, 1>> \in Requests /\ <<d, 2>> \in Requests
    BY DEF Requests
  <2> QED
    BY ZenonT(60), <2>1, <2>2, <2>3, <2>4, <2>5, <2>6, <2>7, <2>8, <2>9, <2>10, <2>11
    DEF Next, Dial, DialFallback
<1> QED
  BY <1>1, <1>2, PTL DEF Spec
-----------------------------------------------------------------------------
(* NoCrossTalk needs to know that an ID names one request, also in the     *)
(* frames under way: Keyed.  That IDs of different requests differ is      *)
(* where a single client is needed, since every client counts from 1.      *)

Good(q, ids) == \A i \in 1..Len(q) : q[i].id = ids[q[i].of] /\ q[i].id # 0

Keyed ==
  /\ \A r, q \in Requests : id[r] = id[q] /\ id[r] # 0 => r = q
  /\ \A r \in Requests : id[r] <= nextID[Client[r[1]]]
  /\ \A r \in Requests : id[r] = 0 <=> dialer[r] = "none"
  /\ \A r \in Requests : id[r] = 0 => forward[r] = "none" /\ serve[r] = "none"
  /\ \A e \in Exits : Good(toE[e], id) /\ Good(toS[e], id)

\* Appending a frame that carries its request's ID to one of the queues.
LEMMA SendGood ==
  ASSUME NEW ids, NEW q \in [Exits -> Seq(Frame)], \A x \in Exits : Good(q[x], ids),
         NEW e, NEW f \in Frame, f.id = ids[f.of], f.id # 0
  PROVE  \A x \in Exits : Good([q EXCEPT ![e] = Append(@, f)][x], ids)
<1> SUFFICES ASSUME NEW x \in Exits PROVE Good([q EXCEPT ![e] = Append(@, f)][x], ids)
  OBVIOUS
<1>1. CASE x # e
  BY <1>1
<1>2. CASE x = e
  <2>1. q[x] \in Seq(Frame) /\ Good(q[x], ids)
    OBVIOUS
  <2>2. Good(Append(q[x], f), ids)
    BY <2>1 DEF Good
  <2> QED
    BY <1>2, <2>2
<1> QED
  BY <1>1, <1>2

\* Taking the first frame off one of them.
LEMMA ReceiveGood ==
  ASSUME NEW ids, NEW q \in [Exits -> Seq(Frame)], \A x \in Exits : Good(q[x], ids),
         NEW e \in Exits, q[e] # <<>>
  PROVE  /\ \A x \in Exits : Good([q EXCEPT ![e] = Tail(@)][x], ids)
         /\ Head(q[e]).id = ids[Head(q[e]).of] /\ Head(q[e]).id # 0
<1>1. q[e] \in Seq(Frame) /\ Good(q[e], ids)
  OBVIOUS
<1>2. Good(Tail(q[e]), ids)
  BY <1>1 DEF Good
<1>3. Head(q[e]) = q[e][1] /\ 1 \in 1..Len(q[e])
  BY <1>1
<1>4. Head(q[e]).id = ids[Head(q[e]).of] /\ Head(q[e]).id # 0
  BY <1>1, <1>3 DEF Good
<1> QED
  BY <1>2, <1>4

\* The steps that give no request an ID.
LEMMA KeyedKept ==
  ASSUME Keyed, UNCHANGED <<nextID, id>>,
         \A r \in Requests : dialer'[r] = "none" <=> dialer[r] = "none",
         \A r \in Requests : id[r] = 0 => forward'[r] = "none" /\ serve'[r] = "none",
         \A e \in Exits : Good(toE'[e], id) /\ Good(toS'[e], id)
  PROVE  Keyed'
  BY DEF Keyed

\* With one client, a request that gets its ID takes one that no other has.
LEMMA RequestKeepsKeyed ==
  ASSUME \A c, d \in Dials : Client[c] = Client[d],
         TypeOK, Keyed, NEW r \in Requests, Request(r)
  PROVE  Keyed'
<1> DEFINE c == Client[r[1]]
<1>1. \A q \in Requests : Client[q[1]] = c /\ c \in Clients
  BY ForwardingAssumption DEF Requests
<1>2. /\ nextID' = [nextID EXCEPT ![c] = @ + 1] /\ id' = [id EXCEPT ![r] = nextID[c] + 1]
      /\ dialer' = [dialer EXCEPT ![r] = "waiting"] /\ forward' = [forward EXCEPT ![r] = "arrived"]
      /\ UNCHANGED <<serve, toE, toS>> /\ dialer[r] = "none"
  BY DEF Request, newID, conns
<1>3. nextID'[c] = nextID[c] + 1 /\ nextID[c] \in Nat /\ id'[r] = nextID[c] + 1
  BY <1>1, <1>2 DEF TypeOK
<1>4. id[r] = 0 /\ \A q \in Requests : id[q] <= nextID[c] /\ id[q] \in Nat
  BY ZenonT(60), <1>1, <1>2 DEF Keyed, TypeOK
<1>5. \A q \in Requests : q # r => id'[q] = id[q]
  BY <1>2 DEF TypeOK
<1>6. \A p, q \in Requests : id'[p] = id'[q] /\ id'[p] # 0 => p = q
  <2> SUFFICES ASSUME NEW p \in Requests, NEW q \in Requests, id'[p] = id'[q], id'[p] # 0, p # q
               PROVE  FALSE
    OBVIOUS
  <2>1. CASE p = r
    BY <1>3, <1>4, <1>5, <2>1
  <2>2. CASE q = r
    BY <1>3, <1>4, <1>5, <2>2
  <2>3. CASE p # r /\ q # r
    BY <1>5, <2>3 DEF Keyed
  <2> QED BY <2>1, <2>2, <2>3
<1>7. \A q \in Requests : id'[q] <= nextID'[Client[q[1]]]
  BY <1>1, <1>3, <1>4, <1>5
<1>8. ASSUME NEW q \in Requests
      PROVE  (id'[q] = 0 <=> dialer'[q] = "none") /\ (id'[q] = 0 => forward'[q] = "none" /\ serve'[q] = "none")
  <2>1. CASE q = r
    BY <1>2, <1>3, <2>1 DEF TypeOK
  <2>2. CASE q # r
    BY <1>2, <1>5, <2>2 DEF Keyed, TypeOK
  <2> QED BY <2>1, <2>2
<1>9. ASSUME NEW q \in Seq(Frame), Good(q, id) PROVE Good(q, id')
  <2> SUFFICES ASSUME NEW i \in 1..Len(q) PROVE q[i].id = id'[q[i].of] /\ q[i].id # 0
    BY DEF Good
  <2>1. q[i] \in Frame /\ q[i].id = id[q[i].of] /\ q[i].id # 0
    BY <1>9 DEF Good
  <2>2. q[i].of \in Requests /\ q[i].of # r
    BY ZenonT(60), <1>4, <2>1 DEF Frame
  <2> QED BY <1>5, <2>1, <2>2
<1>10. \A e \in Exits : Good(toE[e], id') /\ Good(toS[e], id')
  BY ZenonT(60), <1>9 DEF Keyed, TypeOK
<1>11. (\A e \in Exits : Good(toE[e], id) /\ Good(toS[e], id))'
  BY <1>2, <1>10 DEF Good
<1>12. (\A q \in Requests : id[q] = 0 <=> dialer[q] = "none")'
  BY <1>8
<1>13. (\A q \in Requests : id[q] = 0 => forward[q] = "none" /\ serve[q] = "none")'
  BY <1>8
<1> QED
  BY <1>6, <1>7, <1>11, <1>12, <1>13 DEF Keyed

\* With one client, Keyed and NoCrossTalk are kept by every step.
LEMMA OneClientKeyed ==
  ASSUME \A c, d \in Dials : Client[c] = Client[d]
  PROVE  Spec => [](Keyed /\ NoCrossTalk)
<1>1. Init => Keyed /\ NoCrossTalk
  <2> SUFFICES ASSUME Init PROVE Keyed /\ NoCrossTalk
    OBVIOUS
  <2>1. \A r \in Requests : 0 <= nextID[Client[r[1]]]
    BY ForwardingAssumption DEF Init, Requests
  <2>2. \A e \in Exits : Good(toE[e], id) /\ Good(toS[e], id)
    BY DEF Init, Good
  <2>3. Keyed
    BY <2>1, <2>2 DEF Init, Keyed
  <2> QED BY <2>3 DEF Init, NoCrossTalk
<1>2. TypeOK /\ TypeOK' /\ Keyed /\ NoCrossTalk /\ [Next]_vars => Keyed' /\ NoCrossTalk'
  <2> SUFFICES ASSUME TypeOK, TypeOK', Keyed, NoCrossTalk, [Next]_vars
               PROVE  Keyed' /\ NoCrossTalk'
    BY ZenonT(60)
  <2> USE DEF conns, bytes
  <2>0. /\ toE \in [Exits -> Seq(Frame)] /\ toS \in [Exits -> Seq(Frame)]
        /\ \A x \in Exits : Good(toE[x], id) /\ Good(toS[x], id)
    BY DEF TypeOK, Keyed
  <2>1. ASSUME NEW r \in Requests, Request(r) PROVE Keyed' /\ NoCrossTalk'
    BY ZenonT(60), <2>1, RequestKeepsKeyed DEF Request, NoCrossTalk
  <2>2. ASSUME NEW r \in Requests, Cancel(r) PROVE Keyed' /\ NoCrossTalk'
    <3>1. \A q \in Requests : dialer'[q] = "none" <=> dialer[q] = "none"
      BY <2>2 DEF Cancel, TypeOK
    <3> QED BY ZenonT(60), <2>0, <2>2, <3>1, KeyedKept DEF Cancel, NoCrossTalk, Keyed
  <2>3. ASSUME NEW r \in Requests, Forward(r) PROVE Keyed' /\ NoCrossTalk'
    <3>1. UNCHANGED <<nextID, id, serve, toS, bytes>> /\ forward[r] # "none"
      BY ZenonT(60), <2>3 DEF Forward, ForwardSelect, ForwardDirect, ForwardDial, ForwardReturn
    <3>2. id[r] # 0
      BY ZenonT(60), <3>1 DEF Keyed
    <3>3. \A q \in Requests : dialer'[q] = "none" <=> dialer[q] = "none"
      BY <2>3 DEF Forward, ForwardSelect, ForwardDirect, ForwardDial, ForwardReturn, Reply, TypeOK
    <3>4. \A q \in Requests : q # r => forward'[q] = forward[q]
      BY SMTT(30), <2>3 DEF Forward, ForwardSelect, ForwardDirect, ForwardDial, ForwardReturn, Reply, TypeOK
    <3>5. \A x \in Exits : Good(toE'[x], id)
      <4>1. CASE UNCHANGED toE
        BY SMTT(30), <2>0, <4>1
      <4>2. CASE toE' = [toE EXCEPT ![via[r]] = Append(@, F("Open", r, 1))]
        <5>1. /\ F("Open", r, 1) \in Frame
              /\ F("Open", r, 1).id = id[F("Open", r, 1).of] /\ F("Open", r, 1).id # 0
          BY ZenonT(60), <3>2, FrameType DEF F
        <5> QED BY ZenonT(60), <2>0, <4>2, <5>1, SendGood
      <4> QED
        BY ZenonT(60), <2>3, <4>1, <4>2 DEF Forward, ForwardSelect, ForwardDirect, ForwardDial, ForwardReturn
    <3>6. \A q \in Requests : id[q] = 0 => forward'[q] = "none" /\ serve'[q] = "none"
      BY <3>1, <3>2, <3>4 DEF Keyed
    <3>7. Keyed'
      BY <2>0, <3>1, <3>3, <3>5, <3>6, KeyedKept
    <3> QED BY SMTT(30), <3>1, <3>7 DEF NoCrossTalk
  <2>4. ASSUME NEW r \in Requests, Serve(r) \/ RelayDown(r) PROVE Keyed' /\ NoCrossTalk'
    <3>1. UNCHANGED <<nextID, id, dialer, forward, toE, atDest>>
      BY ZenonT(60), <2>4 DEF Serve, RelayDown
    <3>2. id[r] # 0
      BY ZenonT(60), <2>4 DEF Serve, RelayDown, Keyed
    <3>3. \A q \in Requests : id[q] = 0 => forward'[q] = "none" /\ serve'[q] = "none"
      BY SMTT(30), <2>4, <3>2 DEF Serve, RelayDown, Keyed, TypeOK
    <3>4. \A x \in Exits : Good(toS'[x], id)
      <4>1. CASE UNCHANGED toS
        BY <2>0, <4>1
      <4>2. ASSUME NEW type \in {"Ack", "Data"}, NEW ok \in {0, 1},
                   toS' = [toS EXCEPT ![via[r]] = Append(@, F(type, r, ok))]
            PROVE  \A x \in Exits : Good(toS'[x], id)
        <5>1. /\ F(type, r, ok) \in Frame
              /\ F(type, r, ok).id = id[F(type, r, ok).of] /\ F(type, r, ok).id # 0
          BY ZenonT(60), <3>2, FrameType DEF F
        <5> QED BY ZenonT(60), <2>0, <4>2, <5>1, SendGood
      <4> QED BY ZenonT(60), <2>4, <4>1, <4>2 DEF Serve, RelayDown
    <3>5. Keyed'
      BY ZenonT(60), <2>0, <3>1, <3>3, <3>4, KeyedKept
    <3>6. \A q \in Requests : atClient'[q] \subseteq {q}
      BY <2>4 DEF Serve, RelayDown, NoCrossTalk, TypeOK
    <3> QED BY ZenonT(60), <3>1, <3>5, <3>6 DEF NoCrossTalk
  <2>5. ASSUME NEW r \in Requests, RelayUp(r) PROVE Keyed' /\ NoCrossTalk'
    <3>1. UNCHANGED <<nextID, id, dialer, forward, serve, toS, atClient>> /\ id[r] # 0
      BY <2>5 DEF RelayUp, Keyed
    <3>2. \A x \in Exits : Good(toE'[x], id)
      <4>1. CASE UNCHANGED toE
        BY <2>0, <4>1
      <4>2. CASE toE' = [toE EXCEPT ![via[r]] = Append(@, F("Data", r, 1))]
        <5>1. /\ F("Data", r, 1) \in Frame
              /\ F("Data", r, 1).id = id[F("Data", r, 1).of] /\ F("Data", r, 1).id # 0
          BY ZenonT(60), <3>1, FrameType DEF F
        <5> QED BY ZenonT(60), <2>0, <4>2, <5>1, SendGood
      <4> QED BY <2>5, <4>1, <4>2 DEF RelayUp
    <3>3. Keyed'
      BY SMTT(30), <2>0, <3>1, <3>2, KeyedKept DEF Keyed
    <3>4. atDest' = atDest \/ atDest' = [atDest EXCEPT ![r] = @ \cup {r}]
      BY ZenonT(60), <2>5 DEF RelayUp
    <3>5. \A q \in Requests : atDest'[q] \subseteq {q}
      <4>1. atDest \in [Requests -> SUBSET Requests] /\ \A q \in Requests : atDest[q] \subseteq {q}
        BY DEF NoCrossTalk, TypeOK
      <4>2. \A q \in Requests : atDest'[q] = atDest[q] \/ (q = r /\ atDest'[q] = atDest[q] \cup {r})
        BY <3>4, <4>1
      <4> QED BY <4>1, <4>2
    <3> QED BY ZenonT(60), <3>1, <3>3, <3>5 DEF NoCrossTalk
  <2>6. ASSUME NEW e \in Exits, ReadAtE(e) PROVE Keyed' /\ NoCrossTalk'
    <3> DEFINE f == Head(toE[e])
    <3>1. /\ \A x \in Exits : Good([toE EXCEPT ![e] = Tail(@)][x], id)
          /\ f.id = id[f.of] /\ f.id # 0 /\ f \in Frame
      <4>1. toE[e] # <<>>
        BY <2>6 DEF ReadAtE
      <4>2. Head(toE[e]) \in Frame
        BY <2>0, <4>1, ReceiveType
      <4>3. /\ \A x \in Exits : Good([toE EXCEPT ![e] = Tail(@)][x], id)
            /\ Head(toE[e]).id = id[Head(toE[e]).of] /\ Head(toE[e]).id # 0
        BY ZenonT(60), <2>0, <4>1, ReceiveGood
      <4> QED BY <4>2, <4>3
    <3>2. f.of \in Requests /\ id[f.of] # 0
      BY <3>1 DEF Frame
    <3>3. UNCHANGED <<nextID, id, dialer, forward, toS, atClient>> /\ toE' = [toE EXCEPT ![e] = Tail(@)]
      BY <2>6 DEF ReadAtE
    <3>4. serve' = serve \/ serve' = [serve EXCEPT ![f.of] = "handling"]
      BY ZenonT(60), <2>6 DEF ReadAtE
    <3>5. \A q \in Requests : id[q] = 0 => forward'[q] = "none" /\ serve'[q] = "none"
      BY <3>2, <3>3, <3>4 DEF Keyed, TypeOK
    <3>6. Keyed'
      BY ZenonT(60), <2>0, <3>1, <3>3, <3>5, KeyedKept
    <3>7. \A q \in Requests : q \in Registered(eStreams[e], f) => q = f.of
      BY <3>1, <3>2 DEF Registered, Keyed
    <3>8. \A q \in Requests : atDest'[q] = atDest[q]
                               \/ (q = f.of /\ atDest'[q] = atDest[q] \cup {f.of})
      <4>1. \/ UNCHANGED atDest
            \/ atDest' = [q \in Requests |-> IF q \in Registered(eStreams[e], f)
                                             THEN atDest[q] \cup {f.of} ELSE atDest[q]]
        BY <2>6 DEF ReadAtE
      <4> HIDE DEF f
      <4> QED BY ZenonT(60), <4>1, <3>7
    <3>9. \A q \in Requests : atDest'[q] \subseteq {q}
      BY ZenonT(60), <3>8 DEF NoCrossTalk
    <3> QED BY <3>3, <3>6, <3>9 DEF NoCrossTalk
  <2>7. ASSUME NEW e \in Exits, ReadAtS(e) PROVE Keyed' /\ NoCrossTalk'
    <3> DEFINE f == Head(toS[e])
    <3>1. /\ \A x \in Exits : Good([toS EXCEPT ![e] = Tail(@)][x], id)
          /\ f.id = id[f.of] /\ f.id # 0 /\ f \in Frame
      <4>1. toS[e] # <<>>
        BY <2>7 DEF ReadAtS
      <4>2. Head(toS[e]) \in Frame
        BY <2>0, <4>1, ReceiveType
      <4>3. /\ \A x \in Exits : Good([toS EXCEPT ![e] = Tail(@)][x], id)
            /\ Head(toS[e]).id = id[Head(toS[e]).of] /\ Head(toS[e]).id # 0
        BY ZenonT(60), <2>0, <4>1, ReceiveGood
      <4> QED BY <4>2, <4>3
    <3>2. f.of \in Requests /\ id[f.of] # 0
      BY <3>1 DEF Frame
    <3>3. UNCHANGED <<nextID, id, dialer, forward, serve, toE, atDest>> /\ toS' = [toS EXCEPT ![e] = Tail(@)]
      BY ZenonT(60), <2>7 DEF ReadAtS
    <3>4. Keyed'
      BY ZenonT(60), <2>0, <3>1, <3>3, KeyedKept DEF Keyed
    <3>5. \A q \in Requests : q \in Registered(sStreams[e], f) => q = f.of
      BY <3>1, <3>2 DEF Registered, Keyed
    <3>6. \A q \in Requests : atClient'[q] = atClient[q]
                               \/ (q = f.of /\ atClient'[q] = atClient[q] \cup {f.of})
      <4>1. \/ UNCHANGED atClient
            \/ atClient' = [q \in Requests |-> IF q \in Registered(sStreams[e], f)
                                             THEN atClient[q] \cup {f.of} ELSE atClient[q]]
        BY <2>7 DEF ReadAtS
      <4> HIDE DEF f
      <4> QED BY <4>1, <3>5
    <3>7. \A q \in Requests : atClient'[q] \subseteq {q}
      BY ZenonT(60), <3>6 DEF NoCrossTalk
    <3> QED BY ZenonT(60), <3>3, <3>4, <3>7 DEF NoCrossTalk
  <2>8. ASSUME NEW e \in Exits, ExitDies(e) PROVE Keyed' /\ NoCrossTalk'
    <3>1. \A x \in Exits : Good(toE'[x], id) /\ Good(toS'[x], id)
      <4>1. Good(<<>>, id)
        BY DEF Good
      <4> QED BY <2>0, <2>8, <4>1 DEF ExitDies
    <3>2. \A q \in Requests : id[q] = 0 => forward'[q] = "none" /\ serve'[q] = "none"
      BY ZenonT(60), <2>8 DEF ExitDies, Keyed
    <3> QED BY ZenonT(60), <2>8, <3>1, <3>2, KeyedKept DEF ExitDies, NoCrossTalk
  <2>9. ASSUME NEW e \in Exits, ExitLeaves(e) PROVE Keyed' /\ NoCrossTalk'
    BY ZenonT(60), <2>0, <2>9, KeyedKept DEF ExitLeaves, NoCrossTalk, Keyed
  <2>10. CASE UNCHANGED vars
    BY <2>10 DEF vars, Keyed, NoCrossTalk, Good
  <2>11. ASSUME NEW d \in Dials PROVE <<d, 1>> \in Requests /\ <<d, 2>> \in Requests
    BY DEF Requests
  <2> QED
    BY ZenonT(60), <2>1, <2>2, <2>3, <2>4, <2>5, <2>6, <2>7, <2>8, <2>9, <2>10, <2>11
    DEF Next, Dial, DialFallback
<1> QED
  BY <1>1, <1>2, TypeCorrect, PTL DEF Spec

\* As long as all requests come from one client, no byte of one reaches the
\* client or the destination of another: the request IDs that S passes on to an
\* exit are then unique in the exit's session, and both ends look streams up by them.
THEOREM OneClientIsolated ==
  ASSUME \A c, d \in Dials : Client[c] = Client[d]
  PROVE  Spec => []NoCrossTalk
  BY OneClientKeyed, PTL
-----------------------------------------------------------------------------
(* OpenHasPath: S tells C that a stream is open when the acknowledgement   *)
(* has come back, so what an acknowledgement stands for has to be followed *)
(* through the queues: Path.  An Open under way has not been served yet    *)
(* and is the only one of its request, and an Ack under way was sent by a  *)
(* relay that still runs.                                                  *)

Dialed(r) == forward[r] \in {"dialing", "relay", "rejected"}

\* What a frame under way between S and the exit e says of its request.
Opening(f, e) == f.type = "Open" => Dialed(f.of) /\ via[f.of] = e /\ serve[f.of] = "none"
Acking(f, e) ==
  f.type = "Ack" /\ f.ok = 1 => Dialed(f.of) /\ via[f.of] = e /\ serve[f.of] = "relay"

OpensOnce(q) ==
  \A i, j \in 1..Len(q) : q[i].type = "Open" /\ q[j].type = "Open" /\ q[i].of = q[j].of => i = j

Opens == \A e \in Exits : OpensOnce(toE[e]) /\ \A i \in 1..Len(toE[e]) : Opening(toE[e][i], e)
Acks == \A e \in Exits : \A i \in 1..Len(toS[e]) : Acking(toS[e][i], e)

Answered(r) ==
  /\ dialer[r] = "none" => forward[r] = "none"
  /\ dialer[r] = "open" => forward[r] = "relay"
  /\ forward[r] = "relay" => via[r] = Direct \/ ack[r] = "ok"
  /\ ack[r] = "ok" => Dialed(r) /\ (serve[r] = "relay" \/ exit[via[r]] # "up")
  /\ serve[r] # "none" => Dialed(r)

Path == Opens /\ Acks /\ \A r \in Requests : Answered(r)

\* What every step does but the end of a session and the arrival of an Open.
Onward ==
  \A r \in Requests : /\ Dialed(r) => Dialed(r)' /\ via'[r] = via[r]
                      /\ serve[r] \in {"none", "relay"} => serve'[r] = serve[r]

\* Such a step leaves true what the frames under way say.
LEMMA OnwardFrames ==
  ASSUME Onward, NEW e \in Exits, NEW f \in Frame
  PROVE  (Opening(f, e) => Opening(f, e)') /\ (Acking(f, e) => Acking(f, e)')
  BY DEF Onward, Opening, Acking, Frame

\* The frames of a queue behind an Append are those before it and the new one.
LEMMA SendElements ==
  ASSUME NEW q \in [Exits -> Seq(Frame)], NEW e, NEW f \in Frame,
         NEW p, p = [q EXCEPT ![e] = Append(@, f)], NEW x \in Exits, NEW i \in 1..Len(p[x])
  PROVE  \/ i \in 1..Len(q[x]) /\ p[x][i] = q[x][i]
         \/ x = e /\ i = Len(q[x]) + 1 /\ p[x][i] = f
<1>1. q[x] \in Seq(Frame)
  OBVIOUS
<1>2. CASE x # e
  <2>1. p[x] = q[x]
    BY <1>2
  <2> QED BY <2>1
<1>3. CASE x = e
  <2>1. p[x] = Append(q[x], f)
    BY <1>3
  <2>2. i \in 1..(Len(q[x]) + 1)
    BY <1>1, <2>1
  <2> QED BY <1>1, <1>3, <2>1, <2>2
<1> QED BY <1>2, <1>3

\* Behind a Tail they are those from the second on.
LEMMA ReceiveElements ==
  ASSUME NEW q \in [Exits -> Seq(Frame)], NEW e \in Exits, q[e] # <<>>,
         NEW p, p = [q EXCEPT ![e] = Tail(@)], NEW x \in Exits, NEW i \in 1..Len(p[x])
  PROVE  /\ x # e => p[x] = q[x]
         /\ x = e => i + 1 \in 1..Len(q[x]) /\ p[x][i] = q[x][i + 1]
<1>1. q[e] \in Seq(Frame)
  OBVIOUS
<1>2. CASE x # e
  BY <1>2
<1>3. CASE x = e
  <2>1. p[x] = Tail(q[x])
    BY <1>3
  <2> QED BY <1>1, <1>3, <2>1
<1> QED BY <1>2, <1>3

\* Opens is kept when nothing is sent to the exits, ...
LEMMA OpensKept ==
  ASSUME TypeOK, Opens, Onward, UNCHANGED toE
  PROVE  Opens'
<1> SUFFICES ASSUME NEW e \in Exits
             PROVE  OpensOnce(toE[e])' /\ \A i \in 1..Len(toE'[e]) : Opening(toE[e][i], e)'
  BY DEF Opens
<1>1. OpensOnce(toE[e])'
  BY DEF Opens, OpensOnce
<1>2. ASSUME NEW i \in 1..Len(toE[e]) PROVE Opening(toE[e][i], e)'
  <2>1. toE[e][i] \in Frame /\ Opening(toE[e][i], e)
    BY <1>2 DEF TypeOK, Opens
  <2>2. PICK f \in Frame : f = toE[e][i] /\ Opening(f, e)
    BY <2>1
  <2>3. Opening(f, e)'
    BY ZenonT(60), <2>2, OnwardFrames
  <2> QED BY <2>2, <2>3 DEF Opening, Dialed
<1> QED BY <1>1, <1>2

\* ... and when a frame is sent that is no second Open.
LEMMA OpensSent ==
  ASSUME TypeOK, Opens, Onward, NEW x \in Exits, NEW f \in Frame,
         toE' = [toE EXCEPT ![x] = Append(@, f)], Opening(f, x)',
         f.type = "Open" => \A i \in 1..Len(toE[x]) : toE[x][i].type = "Open" => toE[x][i].of # f.of
  PROVE  Opens'
<1>0. toE \in [Exits -> Seq(Frame)]
  BY SMTT(30) DEF TypeOK
<1> SUFFICES ASSUME NEW e \in Exits
             PROVE  OpensOnce(toE[e])' /\ \A i \in 1..Len(toE'[e]) : Opening(toE[e][i], e)'
  BY ZenonT(60) DEF Opens
<1>1. PICK q : q = toE'
  BY ZenonT(60)
<1>2. \A i \in 1..Len(q[e]) : \/ i \in 1..Len(toE[e]) /\ q[e][i] = toE[e][i]
                              \/ e = x /\ i = Len(toE[e]) + 1 /\ q[e][i] = f
  BY <1>0, <1>1, SendElements
<1>3. OpensOnce(q[e])
  <2>1. OpensOnce(toE[e])
    BY DEF Opens
  <2> QED BY ZenonT(60), <1>2, <2>1 DEF OpensOnce
<1>4. ASSUME NEW i \in 1..Len(q[e]) PROVE Opening(toE[e][i], e)'
  <2>1. CASE i \in 1..Len(toE[e]) /\ q[e][i] = toE[e][i]
    <3>1. toE[e][i] \in Frame /\ Opening(toE[e][i], e)
      BY <1>0, <2>1 DEF Opens
    <3>2. PICK g \in Frame : g = toE[e][i] /\ Opening(g, e)
      BY ZenonT(60), <3>1
    <3>3. Opening(g, e)'
      BY ZenonT(60), <3>2, OnwardFrames
    <3> QED BY ZenonT(60), <1>1, <2>1, <3>2, <3>3 DEF Opening, Dialed
  <2>2. CASE e = x /\ q[e][i] = f
    BY ZenonT(60), <1>1, <2>2 DEF Opening, Dialed
  <2> QED BY <1>2, <1>4, <2>1, <2>2
<1> QED BY <1>1, <1>3, <1>4 DEF OpensOnce

\* So is Acks, with a frame sent to S ...
LEMMA AcksSent ==
  ASSUME TypeOK, Acks, Onward, NEW x \in Exits, NEW f \in Frame,
         toS' = [toS EXCEPT ![x] = Append(@, f)], Acking(f, x)'
  PROVE  Acks'
<1>0. toS \in [Exits -> Seq(Frame)]
  BY DEF TypeOK
<1> SUFFICES ASSUME NEW e \in Exits, NEW i \in 1..Len(toS'[e])
             PROVE  Acking(toS[e][i], e)'
  BY DEF Acks
<1>1. PICK q : q = toS'
  BY ZenonT(60)
<1>2. \/ i \in 1..Len(toS[e]) /\ q[e][i] = toS[e][i]
      \/ e = x /\ i = Len(toS[e]) + 1 /\ q[e][i] = f
  BY <1>0, <1>1, SendElements
<1>3. CASE i \in 1..Len(toS[e]) /\ q[e][i] = toS[e][i]
  <2>1. toS[e][i] \in Frame /\ Acking(toS[e][i], e)
    BY <1>0, <1>3 DEF Acks
  <2>2. PICK g \in Frame : g = toS[e][i] /\ Acking(g, e)
    BY <2>1
  <2>3. Acking(g, e)'
    BY <2>2, OnwardFrames
  <2> QED BY ZenonT(60), <1>1, <1>3, <2>2, <2>3 DEF Acking, Dialed
<1>4. CASE e = x /\ q[e][i] = f
  BY ZenonT(60), <1>1, <1>4 DEF Acking, Dialed
<1> QED BY <1>2, <1>3, <1>4

\* ... and without.
LEMMA AcksKept ==
  ASSUME TypeOK, Acks, Onward, UNCHANGED toS
  PROVE  Acks'
<1> SUFFICES ASSUME NEW e \in Exits, NEW i \in 1..Len(toS[e]) PROVE Acking(toS[e][i], e)'
  BY DEF Acks
<1>1. toS[e][i] \in Frame /\ Acking(toS[e][i], e)
  BY DEF TypeOK, Acks
<1>2. PICK f \in Frame : f = toS[e][i] /\ Acking(f, e)
  BY <1>1
<1>3. Acking(f, e)'
  BY ZenonT(60), <1>2, OnwardFrames
<1> QED BY <1>2, <1>3 DEF Acking, Dialed

\* The step of a request, or of its forwardOpen, that sends no frame.
LEMMA LocalKeepsPath ==
  ASSUME TypeOK, Path, UNCHANGED <<toE, toS, ack, serve, exit>>, NEW r \in Requests,
         \A q \in Requests : q # r => /\ dialer'[q] = dialer[q] /\ forward'[q] = forward[q]
                                      /\ via'[q] = via[q],
         Dialed(r) => Dialed(r)' /\ via'[r] = via[r], Answered(r)'
  PROVE  Path'
<1>1. Onward
  BY ZenonT(60) DEF Onward, Dialed
<1>2. Opens' /\ Acks'
  BY SMTT(30), <1>1, OpensKept, AcksKept DEF Path
<1>3. ASSUME NEW q \in Requests, q # r PROVE Answered(q)'
  BY ZenonT(60), <1>3 DEF Path, Answered, Dialed
<1> QED BY ZenonT(60), <1>2, <1>3 DEF Path

\* Accept and Reject, when forwardOpen has not answered yet.
LEMMA ReplyAnswers ==
  ASSUME TypeOK, NEW r \in Requests, Answered(r), UNCHANGED <<via, ack, serve, exit>>,
         forward[r] \in {"arrived", "chosen", "dialing"},
         \/ Reply(r, "failed")
         \/ Reply(r, "open") /\ (via[r] = Direct \/ ack[r] = "ok")
  PROVE  /\ Answered(r)' /\ Dialed(r)'
         /\ \A q \in Requests : q # r => dialer'[q] = dialer[q] /\ forward'[q] = forward[q]
<1>1. forward'[r] \in {"relay", "rejected"} /\ \A q \in Requests : q # r => forward'[q] = forward[q]
  BY DEF Reply, TypeOK
<1>2. /\ dialer'[r] = "none" <=> dialer[r] = "none"
      /\ \A q \in Requests : q # r => dialer'[q] = dialer[q]
  BY ZenonT(60) DEF Reply, TypeOK
<1>3. dialer[r] \notin {"none", "open"}
  BY ZenonT(60) DEF Answered
<1>4. CASE Reply(r, "failed")
  <2>1. dialer'[r] # "open" /\ forward'[r] = "rejected"
    BY SMTT(30), <1>3, <1>4 DEF Reply, TypeOK
  <2> QED BY ZenonT(60), <1>1, <1>2, <1>3, <2>1 DEF Answered, Dialed
<1>5. CASE Reply(r, "open") /\ (via[r] = Direct \/ ack[r] = "ok")
  <2>1. forward'[r] = "relay"
    BY ZenonT(60), <1>5 DEF Reply, TypeOK
  <2> QED BY ZenonT(60), <1>1, <1>2, <1>3, <1>5, <2>1 DEF Answered, Dialed
<1> QED BY ZenonT(60), <1>4, <1>5

\* forwardOpen keeps Path.
LEMMA ForwardKeepsPath ==
  ASSUME TypeOK, Path, NEW r \in Requests, Forward(r)
  PROVE  Path'
<1> USE DEF conns, bytes
<1>0. Answered(r)
  BY DEF Path
<1>1. CASE ForwardSelect(r)
  <2>1. ~Dialed(r) /\ ack[r] # "ok" /\ serve[r] = "none"
    BY <1>0, <1>1 DEF ForwardSelect, Answered, Dialed
  <2>2. UNCHANGED <<toE, toS, ack, serve, exit>>
    BY ZenonT(60), <1>1 DEF ForwardSelect
  <2>3. CASE Reply(r, "failed") /\ UNCHANGED via
    <3>1. forward[r] \in {"arrived", "chosen", "dialing"}
      BY ZenonT(60), <1>1 DEF ForwardSelect
    <3>2. /\ Answered(r)'
          /\ \A q \in Requests : q # r => dialer'[q] = dialer[q] /\ forward'[q] = forward[q]
      BY ZenonT(60), <1>0, <2>2, <2>3, <3>1, ReplyAnswers
    <3> QED BY <2>1, <2>2, <2>3, <3>2, LocalKeepsPath
  <2>4. CASE /\ \E x \in Candidates(r) : via' = [via EXCEPT ![r] = x]
             /\ forward' = [forward EXCEPT ![r] = "chosen"]
             /\ UNCHANGED dialer
    <3>1. \A q \in Requests : q # r => /\ dialer'[q] = dialer[q] /\ forward'[q] = forward[q]
                                       /\ via'[q] = via[q]
      BY ZenonT(60), <2>4 DEF TypeOK
    <3>2. forward'[r] = "chosen" /\ dialer'[r] = dialer[r]
      BY ZenonT(60), <2>4 DEF TypeOK
    <3>3. dialer[r] \notin {"none", "open"}
      BY ZenonT(60), <1>0, <1>1 DEF ForwardSelect, Answered
    <3>4. Answered(r)'
      BY ZenonT(60), <2>1, <2>2, <3>2, <3>3 DEF Answered
    <3> QED BY ZenonT(60), <2>1, <2>2, <3>1, <3>4, LocalKeepsPath
  <2> QED BY ZenonT(60), <1>1, <2>3, <2>4 DEF ForwardSelect
<1>2. CASE \/ ForwardDirect(r)
           \/ ForwardDial(r) /\ exit[via[r]] # "up"
           \/ ForwardReturn(r)
  <2>1. UNCHANGED <<toE, toS, via, ack, serve, exit>>
    BY ZenonT(60), <1>2 DEF ForwardDirect, ForwardDial, ForwardReturn
  <2>2. forward[r] \in {"arrived", "chosen", "dialing"}
    BY ZenonT(60), <1>2 DEF ForwardDirect, ForwardDial, ForwardReturn
  <2>3. \/ Reply(r, "failed")
        \/ Reply(r, "open") /\ (via[r] = Direct \/ ack[r] = "ok")
    BY ZenonT(60), <1>2 DEF ForwardDirect, ForwardDial, ForwardReturn, accepted
  <2>4. /\ Answered(r)' /\ Dialed(r)'
        /\ \A q \in Requests : q # r => dialer'[q] = dialer[q] /\ forward'[q] = forward[q]
    BY <1>0, <2>1, <2>2, <2>3, ReplyAnswers
  <2> QED BY SMTT(30), <2>1, <2>4, LocalKeepsPath
<1>3. CASE ForwardDial(r) /\ exit[via[r]] = "up"
  <2> DEFINE f == F("Open", r, 1)
  <2>1. /\ forward' = [forward EXCEPT ![r] = "dialing"]
        /\ toE' = [toE EXCEPT ![via[r]] = Append(@, f)]
        /\ UNCHANGED <<dialer, via, ack, serve, exit, toS>>
        /\ forward[r] = "chosen" /\ via[r] \in Exits
    BY <1>3 DEF ForwardDial, TypeOK
  <2>2. \A q \in Requests : forward'[q] = IF q = r THEN "dialing" ELSE forward[q]
    BY ZenonT(60), <2>1 DEF TypeOK
  <2>3. serve[r] = "none" /\ ~Dialed(r) /\ ack[r] # "ok" /\ dialer[r] \notin {"none", "open"}
    BY ZenonT(60), <1>0, <2>1 DEF Answered, Dialed
  <2>4. Onward
    BY <2>1, <2>2 DEF Onward, Dialed
  <2>5. f \in Frame /\ f.of = r /\ f.type = "Open"
    BY ZenonT(60), FrameType DEF F
  <2>6. \A i \in 1..Len(toE[via[r]]) : toE[via[r]][i].type = "Open" => toE[via[r]][i].of # f.of
    <3>1. ASSUME NEW i \in 1..Len(toE[via[r]]), toE[via[r]][i].type = "Open"
          PROVE  Dialed(toE[via[r]][i].of)
      BY ZenonT(60), <2>1, <3>1 DEF Path, Opens, Opening
    <3> QED BY ZenonT(60), <2>3, <2>5, <3>1
  <2>7. Opens'
    <3>1. PICK g \in Frame, x \in Exits : g = f /\ x = via[r]
      BY ZenonT(60), <2>1, <2>5
    <3>2. Opening(g, x)'
      BY <2>1, <2>2, <2>3, <2>5, <3>1 DEF Opening, Dialed
    <3> HIDE DEF f
    <3> QED BY ZenonT(60), <2>1, <2>4, <2>6, <3>1, <3>2, OpensSent DEF Path
  <2>8. Acks'
    BY ZenonT(60), <2>1, <2>4, AcksKept DEF Path
  <2>9. ASSUME NEW q \in Requests PROVE Answered(q)'
    <3>1. Answered(q)
      BY DEF Path
    <3> QED BY <2>1, <2>2, <2>3, <3>1 DEF Answered, Dialed
  <2> QED BY ZenonT(60), <2>7, <2>8, <2>9 DEF Path
<1> QED BY <1>1, <1>2, <1>3 DEF Forward

\* A call of Open and its timeout keep Path.
LEMMA DialKeepsPath ==
  ASSUME TypeOK, Path, NEW r \in Requests, Request(r) \/ Cancel(r)
  PROVE  Path'
<1> USE DEF conns, bytes
<1>1. UNCHANGED <<via, ack, serve, exit, toE, toS>>
  BY ZenonT(60) DEF Request, Cancel
<1>2. \A q \in Requests : q # r => dialer'[q] = dialer[q] /\ forward'[q] = forward[q]
  BY DEF Request, Cancel, TypeOK
<1>3. Answered(r)
  BY SMTT(30) DEF Path
<1>4. CASE Request(r)
  <2>1. dialer[r] = "none" /\ dialer'[r] = "waiting" /\ forward'[r] = "arrived"
    BY ZenonT(60), <1>4 DEF Request, TypeOK
  <2>2. ~Dialed(r) /\ ack[r] # "ok" /\ serve[r] = "none"
    BY ZenonT(60), <1>3, <2>1 DEF Answered, Dialed
  <2>3. Answered(r)'
    BY ZenonT(60), <1>1, <2>1, <2>2 DEF Answered
  <2> QED BY ZenonT(60), <1>1, <1>2, <2>2, <2>3, LocalKeepsPath
<1>5. CASE Cancel(r)
  <2>1. dialer'[r] = "failed" /\ forward' = forward
    BY SMTT(30), <1>5 DEF Cancel, TypeOK
  <2>2. Answered(r)'
    BY ZenonT(60), <1>1, <1>3, <2>1 DEF Answered, Dialed
  <2>3. Dialed(r) => Dialed(r)'
    BY <2>1 DEF Dialed
  <2> QED BY ZenonT(60), <1>1, <1>2, <2>2, <2>3, LocalKeepsPath
<1> QED BY SMTT(30), <1>4, <1>5

\* A relay that sends keeps Path: Data opens and acknowledges nothing.
LEMMA RelayKeepsPath ==
  ASSUME TypeOK, Path, NEW r \in Requests, RelayUp(r) \/ RelayDown(r)
  PROVE  Path'
<1>1. UNCHANGED <<dialer, forward, via, ack, serve, exit>>
  BY ZenonT(60) DEF RelayUp, RelayDown
<1>2. Onward
  BY SMTT(30), <1>1 DEF Onward, Dialed
<1>3. \A q \in Requests : Answered(q)'
  BY ZenonT(60), <1>1 DEF Path, Answered, Dialed
<1>4. PICK f \in Frame : f = F("Data", r, 1) /\ f.type = "Data"
  <2>1. F("Data", r, 1) \in Frame /\ F("Data", r, 1).type = "Data"
    BY ZenonT(60), FrameType DEF F
  <2> QED BY <2>1
<1>5. \A x : Opening(f, x)' /\ Acking(f, x)'
  BY <1>4 DEF Opening, Acking
<1>6. PICK x : x = via[r]
  OBVIOUS
<1>7. UNCHANGED toE \/ toE' = [toE EXCEPT ![x] = Append(@, f)]
  BY ZenonT(60), <1>4, <1>6 DEF RelayUp, RelayDown
<1>8. UNCHANGED toS \/ toS' = [toS EXCEPT ![x] = Append(@, f)]
  BY ZenonT(60), <1>4, <1>6 DEF RelayUp, RelayDown
<1>9. x \in Exits \/ UNCHANGED <<toE, toS>>
  <2>1. toE \in [Exits -> Seq(Frame)] /\ toS \in [Exits -> Seq(Frame)]
    BY DEF TypeOK
  <2>2. x \notin Exits => \A q \in [Exits -> Seq(Frame)] : [q EXCEPT ![x] = Append(@, f)] = q
    OBVIOUS
  <2> QED BY <1>7, <1>8, <2>1, <2>2
<1>10. Opens'
  <2>1. CASE UNCHANGED toE
    BY <1>2, <2>1, OpensKept DEF Path
  <2>2. CASE x \in Exits /\ toE' = [toE EXCEPT ![x] = Append(@, f)]
    BY ZenonT(60), <1>2, <1>4, <1>5, <2>2, OpensSent DEF Path
  <2> QED BY <1>7, <1>9, <2>1, <2>2
<1>11. Acks'
  <2>1. CASE UNCHANGED toS
    BY <1>2, <2>1, AcksKept DEF Path
  <2>2. CASE x \in Exits /\ toS' = [toS EXCEPT ![x] = Append(@, f)]
    BY ZenonT(60), <1>2, <1>5, <2>2, AcksSent DEF Path
  <2> QED BY <1>8, <1>9, <2>1, <2>2
<1> QED BY ZenonT(60), <1>3, <1>10, <1>11 DEF Path

\* Exit.serve keeps Path: it accepts when it relays.
LEMMA ServeKeepsPath ==
  ASSUME TypeOK, Path, NEW r \in Requests, Serve(r)
  PROVE  Path'
<1>1. /\ UNCHANGED <<dialer, forward, via, ack, exit, toE>>
      /\ serve[r] = "handling" /\ serve'[r] \in {"relay", "ended"}
      /\ \A q \in Requests : q # r => serve'[q] = serve[q]
  BY DEF Serve, TypeOK
<1>2. Onward
  BY ZenonT(60), <1>1 DEF Onward, Dialed
<1>3. Answered(r) /\ Dialed(r)
  BY ZenonT(60), <1>1 DEF Path, Answered
<1>4. ASSUME NEW q \in Requests PROVE Answered(q)'
  <2>1. Answered(q)
    BY DEF Path
  <2>2. CASE q = r
    BY ZenonT(60), <1>1, <1>3, <2>2 DEF Answered, Dialed
  <2>3. CASE q # r
    BY ZenonT(60), <1>1, <2>1, <2>3 DEF Answered, Dialed
  <2> QED BY SMTT(30), <2>2, <2>3
<1>5. Opens'
  BY <1>1, <1>2, OpensKept DEF Path
<1>6. PICK x : x = via[r]
  BY ZenonT(60)
<1>7. PICK ok \in {0, 1} : /\ ok = 1 => serve'[r] = "relay"
                           /\ toS' = [toS EXCEPT ![x] = Append(@, F("Ack", r, ok))]
  BY <1>6 DEF Serve, TypeOK
<1>8. PICK f \in Frame : f = F("Ack", r, ok) /\ f.of = r /\ f.ok = ok
  <2>1. F("Ack", r, ok) \in Frame /\ F("Ack", r, ok).of = r /\ F("Ack", r, ok).ok = ok
    BY ZenonT(60), FrameType DEF F
  <2> QED BY <2>1
<1>9. Acks'
  <2>1. CASE x \in Exits
    <3>1. Acking(f, x)'
      BY ZenonT(60), <1>1, <1>3, <1>6, <1>7, <1>8 DEF Acking, Dialed
    <3> QED BY ZenonT(60), <1>2, <1>7, <1>8, <2>1, <3>1, AcksSent DEF Path
  <2>2. CASE x \notin Exits
    <3>1. toS \in [Exits -> Seq(Frame)]
      BY DEF TypeOK
    <3>2. [toS EXCEPT ![x] = Append(@, F("Ack", r, ok))] = toS
      BY <2>2, <3>1
    <3> QED BY ZenonT(60), <1>2, <1>7, <3>2, AcksKept DEF Path
  <2> QED BY <2>1, <2>2
<1> QED BY ZenonT(60), <1>4, <1>5, <1>9 DEF Path

\* readLoop at E keeps Path: the Open it serves was not served before, and no
\* other Open or Ack of this request is under way.
LEMMA ReadAtEKeepsPath ==
  ASSUME TypeOK, Path, NEW x \in Exits, ReadAtE(x)
  PROVE  Path'
<1>0. toE \in [Exits -> Seq(Frame)] /\ toE[x] \in Seq(Frame) /\ toE[x] # <<>>
  BY ZenonT(60) DEF TypeOK, ReadAtE
<1>1. PICK f \in Frame : f = Head(toE[x]) /\ f = toE[x][1] /\ 1 \in 1..Len(toE[x])
  BY <1>0
<1>2. /\ toE' = [toE EXCEPT ![x] = Tail(@)]
      /\ UNCHANGED <<dialer, forward, via, ack, exit, toS>>
  BY ZenonT(60) DEF ReadAtE
<1>3. f.type # "Open" => UNCHANGED serve
  BY ZenonT(60), <1>1 DEF ReadAtE
<1>4. f.type = "Open" => serve' = [serve EXCEPT ![f.of] = "handling"]
  BY ZenonT(60), <1>1 DEF ReadAtE
<1>5. f.type = "Open" => Dialed(f.of) /\ serve[f.of] = "none" /\ via[f.of] = x /\ f.of \in Requests
  BY <1>1 DEF Path, Opens, Opening, Frame
<1>6. \A q \in Requests : ~(f.type = "Open" /\ q = f.of) => serve'[q] = serve[q]
  BY <1>3, <1>4 DEF TypeOK
<1>7. ASSUME NEW q \in Requests PROVE Answered(q)'
  <2>1. Answered(q)
    BY SMTT(30) DEF Path
  <2>2. CASE f.type = "Open" /\ q = f.of
    <3>1. serve'[q] # "none" => Dialed(q)'
      BY ZenonT(60), <1>2, <1>5, <2>2 DEF Dialed
    <3> QED BY ZenonT(60), <1>2, <1>5, <2>1, <2>2, <3>1 DEF Answered, Dialed
  <2>3. CASE ~(f.type = "Open" /\ q = f.of)
    BY ZenonT(60), <1>2, <1>6, <2>1, <2>3 DEF Answered, Dialed
  <2> QED BY <2>2, <2>3
<1>8. Acks'
  <2> SUFFICES ASSUME NEW e \in Exits, NEW i \in 1..Len(toS[e]) PROVE Acking(toS[e][i], e)'
    BY ZenonT(60), <1>2 DEF Acks
  <2>1. PICK g \in Frame : g = toS[e][i] /\ Acking(g, e)
    BY DEF TypeOK, Path, Acks
  <2>2. Acking(g, e)'
    BY <1>2, <1>5, <1>6, <2>1 DEF Acking, Dialed, Frame
  <2> QED BY ZenonT(60), <1>2, <2>1, <2>2 DEF Acking, Dialed
<1>9. PICK p : p = toE'
  BY ZenonT(60)
<1>10. ASSUME NEW e \in Exits, NEW i \in 1..Len(p[e])
       PROVE  /\ e # x => p[e] = toE[e]
              /\ e = x => i + 1 \in 1..Len(toE[e]) /\ p[e][i] = toE[e][i + 1]
  BY <1>0, <1>2, <1>9, <1>10, ReceiveElements
<1>11. ASSUME NEW e \in Exits PROVE OpensOnce(p[e])
  <2>1. OpensOnce(toE[e])
    BY DEF Path, Opens
  <2>2. CASE e # x
    <3>1. p[e] = toE[e]
      BY ZenonT(60), <1>0, <1>2, <1>9, <2>2
    <3> QED BY <2>1, <3>1
  <2>3. CASE e = x
    <3> SUFFICES ASSUME NEW i \in 1..Len(p[x]), NEW j \in 1..Len(p[x]),
                        p[x][i].type = "Open", p[x][j].type = "Open", p[x][i].of = p[x][j].of
                 PROVE  i = j
      BY ZenonT(60), <2>3 DEF OpensOnce
    <3>1. /\ i + 1 \in 1..Len(toE[x]) /\ p[x][i] = toE[x][i + 1]
          /\ j + 1 \in 1..Len(toE[x]) /\ p[x][j] = toE[x][j + 1]
      BY ZenonT(60), <1>10
    <3>2. i + 1 = j + 1
      BY ZenonT(60), <2>1, <2>3, <3>1 DEF OpensOnce
    <3> QED BY <3>1, <3>2
  <2> QED BY ZenonT(60), <2>2, <2>3
<1>12. ASSUME NEW e \in Exits, NEW i \in 1..Len(p[e]) PROVE Opening(toE[e][i], e)'
  <2>1. PICK j \in 1..Len(toE[e]) : p[e][i] = toE[e][j] /\ (e = x => j # 1)
    BY SMTT(30), <1>10
  <2>2. PICK g \in Frame : g = toE[e][j] /\ Opening(g, e)
    BY <1>0, <2>1 DEF Path, Opens
  <2>3. ASSUME g.type = "Open", f.type = "Open" PROVE g.of # f.of
    <3>1. CASE e = x
      BY ZenonT(60), <1>1, <2>1, <2>2, <2>3, <3>1 DEF Path, Opens, OpensOnce
    <3>2. CASE e # x
      BY ZenonT(60), <1>5, <2>2, <2>3, <3>2 DEF Opening
    <3> QED BY SMTT(30), <3>1, <3>2
  <2>4. Opening(g, e)'
    BY ZenonT(60), <1>2, <1>6, <2>2, <2>3 DEF Opening, Dialed, Frame
  <2> QED BY ZenonT(60), <1>9, <2>1, <2>2, <2>4 DEF Opening, Dialed
<1>13. Opens'
  BY <1>9, <1>11, <1>12 DEF Opens, OpensOnce
<1> QED BY SMTT(30), <1>7, <1>8, <1>13 DEF Path

\* readLoop at S keeps Path: an acknowledgement is that of the request whose
\* stream has its ID, which is where Keyed is needed.
LEMMA ReadAtSKeepsPath ==
  ASSUME TypeOK, Keyed, Path, NEW x \in Exits, ReadAtS(x)
  PROVE  Path'
<1>0. toS \in [Exits -> Seq(Frame)] /\ toS[x] \in Seq(Frame) /\ toS[x] # <<>>
  BY DEF TypeOK, ReadAtS
<1>1. PICK f \in Frame : f = Head(toS[x]) /\ f = toS[x][1] /\ 1 \in 1..Len(toS[x])
  BY <1>0
<1>2. /\ toS' = [toS EXCEPT ![x] = Tail(@)]
      /\ UNCHANGED <<dialer, forward, via, serve, exit, toE>>
  BY DEF ReadAtS
<1>3. Onward
  BY <1>2 DEF Onward, Dialed
<1>4. Opens'
  BY ZenonT(60), <1>2, <1>3, OpensKept DEF Path
<1>5. f.id = id[f.of] /\ f.id # 0 /\ f.of \in Requests /\ Acking(f, x)
  BY SMTT(30), <1>1 DEF Keyed, Good, Path, Acks, Frame
<1>6. \A q \in Requests : q \in Registered(sStreams[x], f) => q = f.of
  BY ZenonT(60), <1>5 DEF Registered, Keyed
<1>7. \A q \in Requests : \/ ack'[q] = ack[q]
                          \/ /\ q = f.of /\ f.type = "Ack" /\ ack[q] = "none"
                             /\ ack'[q] = "ok" => f.ok = 1
  <2>1. \/ UNCHANGED ack
        \/ /\ f.type = "Ack"
           /\ ack' = [q \in Requests |->
                        IF q \in Registered(sStreams[x], f) /\ ack[q] = "none"
                        THEN IF f.ok = 1 THEN "ok" ELSE "nok"
                        ELSE ack[q]]
    BY ZenonT(60), <1>1 DEF ReadAtS
  <2> QED BY ZenonT(60), <1>6, <2>1
<1>8. ASSUME NEW q \in Requests PROVE Answered(q)'
  <2>1. Answered(q)
    BY SMTT(30) DEF Path
  <2>2. CASE ack'[q] = ack[q]
    BY ZenonT(60), <1>2, <2>1, <2>2 DEF Answered, Dialed
  <2>3. CASE /\ q = f.of /\ f.type = "Ack" /\ ack[q] = "none"
             /\ ack'[q] = "ok" => f.ok = 1
    <3>1. ack'[q] = "ok" => Dialed(q) /\ serve[q] = "relay"
      BY ZenonT(60), <1>5, <2>3 DEF Acking
    <3>2. forward[q] = "relay" => via[q] = Direct
      BY ZenonT(60), <2>1, <2>3 DEF Answered
    <3> QED BY ZenonT(60), <1>2, <2>1, <3>1, <3>2 DEF Answered, Dialed
  <2> QED BY <1>7, <2>2, <2>3
<1>9. Acks'
  <2>1. PICK p : p = toS'
    OBVIOUS
  <2> SUFFICES ASSUME NEW e \in Exits, NEW i \in 1..Len(p[e]) PROVE Acking(toS[e][i], e)'
    BY ZenonT(60), <2>1 DEF Acks
  <2>2. PICK j \in 1..Len(toS[e]) : p[e][i] = toS[e][j]
    <3>1. toS \in [Exits -> Seq(Frame)] /\ toS[x] # <<>> /\ p = [toS EXCEPT ![x] = Tail(@)]
      BY ZenonT(60), <1>0, <1>2, <2>1
    <3>2. /\ e # x => p[e] = toS[e]
          /\ e = x => i + 1 \in 1..Len(toS[e]) /\ p[e][i] = toS[e][i + 1]
      BY SMTT(30), <3>1, ReceiveElements
    <3> QED BY ZenonT(60), <3>2
  <2>3. PICK g \in Frame : g = toS[e][j] /\ Acking(g, e)
    BY SMTT(30), <1>0, <2>2 DEF Path, Acks
  <2>4. Acking(g, e)'
    BY <1>3, <2>3, OnwardFrames
  <2> QED BY <2>1, <2>2, <2>3, <2>4 DEF Acking, Dialed
<1> QED BY ZenonT(60), <1>4, <1>8, <1>9 DEF Path

\* The end of a session keeps Path: its frames are gone with its relays.
LEMMA ExitKeepsPath ==
  ASSUME TypeOK, Path, NEW x \in Exits, ExitDies(x) \/ ExitLeaves(x)
  PROVE  Path'
<1> USE DEF conns, bytes
<1>1. CASE ExitLeaves(x)
  <2>1. UNCHANGED <<dialer, forward, via, ack, serve, toE, toS>>
    BY ZenonT(60), <1>1 DEF ExitLeaves
  <2>2. \A e \in Exits : exit[e] # "up" => exit'[e] # "up"
    BY ZenonT(60), <1>1 DEF ExitLeaves, TypeOK
  <2>3. Onward
    BY <2>1 DEF Onward, Dialed
  <2>4. Opens' /\ Acks'
    BY ZenonT(60), <2>1, <2>3, OpensKept, AcksKept DEF Path
  <2>5. \A q \in Requests : exit[via[q]] # "up" => exit'[via[q]] # "up"
    BY SMTT(30), <1>1 DEF ExitLeaves, TypeOK
  <2>6. ASSUME NEW q \in Requests PROVE Answered(q)'
    <3>1. Answered(q)
      BY SMTT(30) DEF Path
    <3> QED BY ZenonT(60), <2>1, <2>5, <3>1 DEF Answered, Dialed
  <2> QED BY ZenonT(60), <2>4, <2>6 DEF Path
<1>2. CASE ExitDies(x)
  <2>1. /\ UNCHANGED <<dialer, forward, via, ack>>
        /\ exit' = [exit EXCEPT ![x] = "dead"]
        /\ toE' = [toE EXCEPT ![x] = <<>>] /\ toS' = [toS EXCEPT ![x] = <<>>]
        /\ serve' = [r \in Requests |-> IF via[r] = x /\ serve[r] # "none" THEN "ended" ELSE serve[r]]
    BY ZenonT(60), <1>2 DEF ExitDies
  <2>2. \A q \in Requests : /\ via[q] # x \/ serve[q] = "none" => serve'[q] = serve[q]
                            /\ serve'[q] # "none" => serve[q] # "none"
    BY ZenonT(60), <2>1
  <2>3. \A q \in Requests : /\ exit[via[q]] # "up" => exit'[via[q]] # "up"
                            /\ via[q] = x => exit'[via[q]] # "up"
    BY SMTT(30), <2>1 DEF TypeOK
  <2>4. ASSUME NEW q \in Requests PROVE Answered(q)'
    <3>1. Answered(q)
      BY DEF Path
    <3> QED BY ZenonT(60), <2>1, <2>2, <2>3, <3>1 DEF Answered, Dialed
  <2>5. /\ toE'[x] = <<>> /\ toS'[x] = <<>>
        /\ \A e \in Exits : e # x => toE'[e] = toE[e] /\ toS'[e] = toS[e]
    BY ZenonT(60), <2>1 DEF TypeOK
  <2>6. ASSUME NEW e \in Exits, e # x, NEW f \in Frame
        PROVE  (Opening(f, e) => Opening(f, e)') /\ (Acking(f, e) => Acking(f, e)')
    BY SMTT(30), <2>1, <2>2, <2>6 DEF Opening, Acking, Dialed, Frame
  <2>7. ASSUME NEW e \in Exits, NEW i \in 1..Len(toS'[e]) PROVE Acking(toS[e][i], e)'
    <3>1. e # x
      BY SMTT(30), <2>5, <2>7
    <3>2. PICK f \in Frame : f = toS[e][i] /\ Acking(f, e)
      <4>1. i \in 1..Len(toS[e]) /\ toS \in [Exits -> Seq(Frame)]
        BY ZenonT(60), <2>5, <2>7, <3>1 DEF TypeOK
      <4>2. toS[e][i] \in Frame
        BY SMTT(30), <4>1
      <4>3. Acking(toS[e][i], e)
        BY SMTT(30), <4>1 DEF Path, Acks
      <4> QED BY ZenonT(60), <4>2, <4>3
    <3>3. Acking(f, e)'
      BY ZenonT(60), <2>6, <3>1, <3>2
    <3> QED BY ZenonT(60), <2>5, <3>1, <3>2, <3>3 DEF Acking, Dialed
  <2>8. ASSUME NEW e \in Exits, NEW i \in 1..Len(toE'[e]) PROVE Opening(toE[e][i], e)'
    <3>1. e # x
      BY SMTT(30), <2>5, <2>8
    <3>2. PICK f \in Frame : f = toE[e][i] /\ Opening(f, e)
      <4>1. i \in 1..Len(toE[e]) /\ toE \in [Exits -> Seq(Frame)]
        BY ZenonT(60), <2>5, <2>8, <3>1 DEF TypeOK
      <4>2. toE[e][i] \in Frame
        BY SMTT(30), <4>1
      <4>3. Opening(toE[e][i], e)
        BY SMTT(30), <4>1 DEF Path, Opens
      <4> QED BY ZenonT(60), <4>2, <4>3
    <3>3. Opening(f, e)'
      BY ZenonT(60), <2>6, <3>1, <3>2
    <3> QED BY ZenonT(60), <2>5, <3>1, <3>2, <3>3 DEF Opening, Dialed
  <2>9. ASSUME NEW e \in Exits PROVE OpensOnce(toE[e])'
    <3>1. CASE e = x
      <4>1. OpensOnce(<<>>)
        BY SMTT(30) DEF OpensOnce
      <4>2. toE'[e] = <<>>
        BY ZenonT(60), <2>5, <3>1
      <4> QED BY ZenonT(60), <4>1, <4>2 DEF OpensOnce
    <3>2. CASE e # x
      BY ZenonT(60), <2>5, <3>2 DEF Path, Opens, OpensOnce
    <3> QED BY SMTT(30), <3>1, <3>2
  <2> QED BY ZenonT(60), <2>4, <2>7, <2>8, <2>9 DEF Path, Opens, Acks
<1> QED BY <1>1, <1>2

\* As long as all requests come from one client, C holds no stream for open
\* whose path is not there: S relays it, and the exit that S chose has dialled
\* the destination of this request and relays too, unless its session has ended.
THEOREM OneClientHasPath ==
  ASSUME \A c, d \in Dials : Client[c] = Client[d]
  PROVE  Spec => []OpenHasPath
<1>1. Init => Path
  <2> SUFFICES ASSUME Init PROVE Path
    OBVIOUS
  <2>1. Opens /\ Acks
    <3>1. 1..Len(<<>>) = {}
      BY SMTT(30)
    <3>2. \A e \in Exits : toE[e] = <<>> /\ toS[e] = <<>>
      BY ZenonT(60) DEF Init
    <3> QED BY ZenonT(60), <3>1, <3>2 DEF Opens, Acks, OpensOnce
  <2>2. \A r \in Requests : Answered(r)
    BY SMTT(30) DEF Init, Answered
  <2> QED BY <2>1, <2>2 DEF Path
<1>2. TypeOK /\ Keyed /\ Path /\ [Next]_vars => Path'
  <2> SUFFICES ASSUME TypeOK, Keyed, Path, [Next]_vars PROVE Path'
    OBVIOUS
  <2>1. ASSUME NEW r \in Requests, Request(r) \/ Cancel(r) PROVE Path'
    BY <2>1, DialKeepsPath
  <2>2. ASSUME NEW r \in Requests, Forward(r) PROVE Path'
    BY <2>2, ForwardKeepsPath
  <2>3. ASSUME NEW r \in Requests, Serve(r) PROVE Path'
    BY <2>3, ServeKeepsPath
  <2>4. ASSUME NEW r \in Requests, RelayUp(r) \/ RelayDown(r) PROVE Path'
    BY <2>4, RelayKeepsPath
  <2>5. ASSUME NEW e \in Exits, ReadAtE(e) PROVE Path'
    BY <2>5, ReadAtEKeepsPath
  <2>6. ASSUME NEW e \in Exits, ReadAtS(e) PROVE Path'
    BY <2>6, ReadAtSKeepsPath
  <2>7. ASSUME NEW e \in Exits, ExitDies(e) \/ ExitLeaves(e) PROVE Path'
    BY SMTT(30), <2>7, ExitKeepsPath
  <2>8. CASE UNCHANGED vars
    <3>1. UNCHANGED <<dialer, forward, via, ack, serve, exit, toE, toS>>
      BY <2>8 DEF vars, conns
    <3>2. Onward
      BY ZenonT(60), <3>1 DEF Onward, Dialed
    <3>3. Opens' /\ Acks'
      BY ZenonT(60), <3>1, <3>2, OpensKept, AcksKept DEF Path
    <3>4. \A r \in Requests : Answered(r)'
      BY ZenonT(60), <3>1 DEF Path, Answered, Dialed
    <3> QED BY ZenonT(60), <3>3, <3>4 DEF Path
  <2>9. ASSUME NEW d \in Dials PROVE <<d, 1>> \in Requests /\ <<d, 2>> \in Requests
    BY ZenonT(60) DEF Requests
  <2> QED
    BY ZenonT(60), <2>1, <2>2, <2>3, <2>4, <2>5, <2>6, <2>7, <2>8, <2>9 DEF Next, Dial, DialFallback
<1>3. Path => OpenHasPath
  BY DEF Path, Answered, OpenHasPath
<1> QED
  BY <1>1, <1>2, <1>3, TypeCorrect, OneClientKeyed, PTL DEF Spec
=============================================================================
