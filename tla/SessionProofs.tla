--------------------------- MODULE SessionProofs ---------------------------
(***************************************************************************)
(* Theorems about Session: any set of streams, any capacity of the         *)
(* channels, any load.  The invariant and the effects of the steps are in  *)
(* SessionSteps.                                                           *)
(***************************************************************************)
EXTENDS SessionSteps

-----------------------------------------------------------------------------
(* The invariant is inductive                                              *)

\* A wire loses its head or gets a frame that was written for a reason.
LEMMA WireSteps ==
  ASSUME TypeOK, [Next]_vars, NEW d \in Ends
  PROVE  \/ wire'[d] = wire[d]
         \/ wire[d] # <<>> /\ wire'[d] = Tail(wire[d])
         \/ Up /\ \E f \in Frame : Written(Peer(d), f) /\ wire'[d] = Append(wire[d], f)
  BY ZenonT(60), ArriveSteps DEF ArriveStep, Appends, Takes, Delivers

\* A frame of a request is on the wire because it was, or was written now.
LEMMA HasNext ==
  ASSUME TypeOK, [Next]_vars, NEW d \in Ends, NEW t, NEW x, Has(wire'[d], t, x)
  PROVE  \/ Has(wire[d], t, x)
         \/ Up /\ \E f \in Frame : Written(Peer(d), f) /\ f.type = t /\ f.id = x
<1>1. wire[d] \in Seq(Frame)
  BY Parts DEF WireT
<1>2. CASE wire[d] # <<>> /\ wire'[d] = Tail(wire[d])
  BY <1>1, <1>2, TailHas
<1>3. ASSUME NEW f \in Frame, Written(Peer(d), f), wire'[d] = Append(wire[d], f)
      PROVE  Has(wire[d], t, x) \/ (f.type = t /\ f.id = x)
  BY SMTT(30), <1>1, <1>3, AppendHas
<1> QED BY ZenonT(60), <1>2, <1>3, WireSteps

LEMMA NextReg ==
  ASSUME TypeOK, [Next]_vars, NEW x \in Ids, RegInv(x)
  PROVE  RegInv(x)'
<1>0. /\ "opener" \in Ends /\ "acceptor" \in Ends /\ OpenT /\ OpenT'
      /\ wire["acceptor"] \in Seq(Frame) /\ wire["opener"] \in Seq(Frame)
      /\ Peer("opener") = "acceptor" /\ Peer("acceptor") = "opener"
  BY ZenonT(60), Parts, NextType DEF Ends, WireT, Peer, OpenT, TypeOK
<1>1. \A e \in Ends : Known(e, x) => Known(e, x)'
  BY Monotone
<1>2. OpenerStep(x) /\ HandlerStep(x) /\ AckStep(x)
  BY SMTT(30), RequestSteps
\* An Open frame is written once.
<1>3. Has(wire'["acceptor"], "Open", x) =>
        \/ Has(wire["acceptor"], "Open", x)
        \/ opener[x] = "registered" /\ opener'[x] = "waiting"
  <2> SUFFICES ASSUME Has(wire'["acceptor"], "Open", x), ~Has(wire["acceptor"], "Open", x)
               PROVE  opener[x] = "registered" /\ opener'[x] = "waiting"
    BY SMTT(30)
  <2>1. PICK f \in Frame : Written("opener", f) /\ f.type = "Open" /\ f.id = x
    BY <1>0, HasNext
  <2> QED BY <2>1 DEF Written, F
\* Who has a request in hand has taken it from the wire.
<1>4. handler'[x] # "none" =>
        \/ handler[x] # "none"
        \/ Has(wire["acceptor"], "Open", x) /\ ~Has(wire'["acceptor"], "Open", x) /\ x \in streams'["acceptor"]
  <2> SUFFICES ASSUME handler'[x] # "none", handler[x] = "none"
               PROVE  /\ Has(wire["acceptor"], "Open", x) /\ ~Has(wire'["acceptor"], "Open", x)
                      /\ x \in streams'["acceptor"]
    OBVIOUS
  <2>1. /\ x \in streams'["acceptor"]
        /\ wire["acceptor"] # <<>> /\ wire'["acceptor"] = Tail(wire["acceptor"])
        /\ Head(wire["acceptor"]).type = "Open" /\ Head(wire["acceptor"]).id = x
    BY SMTT(30), <1>2 DEF HandlerStep
  <2> QED BY ZenonT(60), <1>0, <2>1, HeadHas DEF RegInv
<1>5. (opener[x] \notin {"idle", "failed"} => Known("opener", x))'
  BY ZenonT(60), <1>0, <1>1, <1>2 DEF RegInv, OpenerStep, Known
<1>6. (opener[x] \in {"idle", "registered"} => handler[x] = "none" /\ ~Has(wire["acceptor"], "Open", x))'
  BY ZenonT(60), <1>0, <1>2, <1>3, <1>4 DEF RegInv, OpenerStep
<1>7. (handler[x] # "none" \/ Has(wire["acceptor"], "Open", x) => Known("opener", x))'
  BY ZenonT(60), <1>0, <1>1, <1>3, <1>4 DEF RegInv
<1>8. (handler[x] # "none" => Known("acceptor", x) /\ ~Has(wire["acceptor"], "Open", x))'
  BY ZenonT(60), <1>0, <1>1, <1>3, <1>4 DEF RegInv, Known
<1>9. Once(wire["acceptor"], x)'
  <2>1. \A f \in Frame : Written("opener", f) /\ f.type = "Open" /\ f.id = x => ~Has(wire["acceptor"], "Open", x)
    BY DEF Written, F, RegInv
  <2>2. ASSUME NEW f \in Frame, Written("opener", f), wire'["acceptor"] = Append(wire["acceptor"], f)
        PROVE  Once(wire'["acceptor"], x)
    BY ZenonT(60), <1>0, <2>1, <2>2, AppendOnce DEF RegInv
  <2>3. ASSUME wire["acceptor"] # <<>>, wire'["acceptor"] = Tail(wire["acceptor"])
        PROVE  Once(wire'["acceptor"], x)
    BY ZenonT(60), <1>0, <2>3, TailHas DEF RegInv
  <2> QED BY ZenonT(60), <1>0, <2>2, <2>3, WireSteps DEF RegInv
<1>10. (HasAck(wire["opener"], x) \/ ack[x] = "ok" \/ opener[x] = "open" => handler[x] = "accepted")'
  <2>1. handler[x] = "accepted" => handler'[x] = "accepted"
    <3>1. handler[x] = "accepted" => ~Has(wire["acceptor"], "Open", x)
      BY ZenonT(60) DEF RegInv
    <3> QED BY ZenonT(60), <1>0, <1>2, <3>1, HeadHas DEF HandlerStep
  <2>2. HasAck(wire'["opener"], x) => HasAck(wire["opener"], x) \/ handler'[x] = "accepted"
    <3>1. \A f \in Frame : Written("acceptor", f) /\ f.type = "OpenAck" /\ f.id = x /\ f.n = 1 => handler'[x] = "accepted"
      BY DEF Written, F
    <3>2. ASSUME NEW f \in Frame, Written("acceptor", f), wire'["opener"] = Append(wire["opener"], f),
                 HasAck(wire'["opener"], x)
          PROVE  HasAck(wire["opener"], x) \/ handler'[x] = "accepted"
      BY <1>0, <3>1, <3>2, AppendHasAck
    <3>3. ASSUME wire["opener"] # <<>>, wire'["opener"] = Tail(wire["opener"]), HasAck(wire'["opener"], x)
          PROVE  HasAck(wire["opener"], x)
      BY <1>0, <3>3, TailHas
    <3> QED BY ZenonT(60), <1>0, <3>2, <3>3, WireSteps
  <2> QED BY ZenonT(60), <1>2, <2>1, <2>2 DEF RegInv, AckStep, OpenerStep
<1> QED BY ZenonT(60), <1>5, <1>6, <1>7, <1>8, <1>9, <1>10 DEF RegInv


\* What is established stays so, what is over stays over.
LEMMA Stable ==
  ASSUME TypeOK, [Next]_vars, NEW x \in Ids, RegInv(x), NEW e \in Ends
  PROVE  /\ Est(e, x) => Est(e, x)' /\ ~Never(e, x)
         /\ Dead(x) => Dead(x)'
         /\ Never(e, x) => Never(e, x)'
         /\ Final(e, x) => Final(e, x)' /\ sent'[e][x] = sent[e][x]
<1>0. /\ "acceptor" \in Ends /\ OpenT /\ Peer("acceptor") = "opener"
      /\ wire["acceptor"] \in Seq(Frame)
  BY Parts DEF Ends, WireT, Peer
<1>1. OpenerStep(x) /\ HandlerStep(x)
  BY SMTT(30), RequestSteps
<1>2. HandlerStep(x) => \/ handler'[x] = handler[x]
                        \/ Has(wire["acceptor"], "Open", x) /\ handler'[x] # "none"
                        \/ handler[x] \in {"incoming", "overflow", "handling"} /\ handler'[x] # "none"
  BY ZenonT(60), <1>0, HeadHas DEF HandlerStep
<1>3. Has(wire'["acceptor"], "Open", x) => Has(wire["acceptor"], "Open", x) \/ opener[x] = "registered"
  <2> SUFFICES ASSUME Has(wire'["acceptor"], "Open", x), ~Has(wire["acceptor"], "Open", x)
               PROVE  opener[x] = "registered"
    BY SMTT(30)
  <2>1. PICK f \in Frame : Written("opener", f) /\ f.type = "Open" /\ f.id = x
    BY <1>0, HasNext
  <2> QED BY <2>1 DEF Written, F
<1>4. Est(e, x) => Est(e, x)' /\ ~Never(e, x)
  BY ZenonT(60), <1>1, <1>2 DEF Est, Never, Dead, RegInv, OpenerStep
<1>5. Dead(x) => Dead(x)'
  BY ZenonT(60), <1>1, <1>2, <1>3 DEF Dead, OpenerStep
<1>6. Never(e, x) => Never(e, x)'
  <2>1. CASE e = "opener"
    BY ZenonT(60), <1>1, <1>5, <2>1 DEF Never, OpenerStep
  <2>2. CASE e # "opener"
    BY ZenonT(60), <1>1, <1>2, <2>2 DEF Never, RegInv
  <2> QED BY SMTT(30), <2>1, <2>2
<1>7. SendStep(e, x)
  BY SMTT(30), SendSteps
<1>8. Final(e, x) => Final(e, x)' /\ sent'[e][x] = sent[e][x]
  BY ZenonT(60), <1>4, <1>6, <1>7 DEF Final, SendStep, Sends
<1> QED BY ZenonT(60), <1>4, <1>5, <1>6, <1>8

LEMMA NextDead ==
  ASSUME TypeOK, [Next]_vars, NEW x \in Ids, RegInv(x), DeadInv(x), \A e \in Ends : ShutInv(e)
  PROVE  DeadInv(x)'
<1>0. /\ "opener" \in Ends /\ "acceptor" \in Ends /\ OpenT /\ CloseT /\ SessT
      /\ wire["acceptor"] \in Seq(Frame)
      /\ Peer("opener") = "acceptor" /\ Peer("acceptor") = "opener"
  BY SMTT(30), Parts DEF Ends, WireT, Peer
<1>1. ~Has(wire'["acceptor"], "Error", x)
  <2>1. \A f \in Frame : Written("opener", f) => f.type # "Error"
    BY DEF Written, F
  <2> QED BY <1>0, <2>1, HasNext DEF DeadInv
<1>2. Has(wire'["opener"], "Error", x) => Dead(x)'
  <2>1. CASE Has(wire["opener"], "Error", x)
    BY ZenonT(60), <1>0, <2>1, Stable DEF DeadInv
  <2>2. ASSUME NEW f \in Frame, Written("acceptor", f), f.type = "Error", f.id = x
        PROVE  Dead(x)'
    <3>1. /\ handler'[x] = handler[x] /\ wire["acceptor"] # <<>> /\ wire'["acceptor"] = Tail(wire["acceptor"])
          /\ Head(wire["acceptor"]).type = "Open" /\ Head(wire["acceptor"]).id = x
      BY <2>2 DEF Written, F
    <3>2. Has(wire["acceptor"], "Open", x) /\ ~Has(wire'["acceptor"], "Open", x)
      BY ZenonT(60), <1>0, <3>1, HeadHas DEF RegInv
    <3>3. handler[x] = "none" /\ opener[x] \notin {"idle", "registered"}
      BY ZenonT(60), <3>2 DEF RegInv
    <3>4. opener'[x] \notin {"idle", "registered"}
      BY ZenonT(60), <3>3, RequestSteps DEF OpenerStep
    <3> QED BY ZenonT(60), <3>1, <3>2, <3>3, <3>4 DEF Dead
  <2> QED BY <1>0, <2>1, <2>2, HasNext
<1>3. ASSUME NEW e \in Ends, x \in closed'[e], ~sclosed'[e], Up' PROVE Never(e, x)'
  <2>1. ~sclosed[e] /\ Up
    BY ZenonT(60), <1>3, Monotone, EndSteps
  <2>2. CASE x \in closed[e]
    BY ZenonT(60), <2>1, <2>2, Stable DEF DeadInv
  <2>3. ASSUME NEW S \in SUBSET Ids, forceClose(e, S), x \notin closed[e], \A y \in S : Rejected(e, y)
        PROVE  Never(e, x)'
    <3>1. Rejected(e, x)
      BY SMTT(30), <1>0, <1>3, <2>3 DEF forceClose, CloseT
    <3>2. CASE Has(wire[e], "Error", x)
      <4>1. e = "opener" /\ Dead(x)
        BY ZenonT(60), <3>2 DEF DeadInv, Ends
      <4> QED BY ZenonT(60), <4>1, Stable DEF Never
    <3> QED BY ZenonT(60), <3>1, <3>2 DEF Rejected, Never
  <2>4. PICK d \in Ends : CloseStep(d)
    BY SMTT(30), CloseSteps
  <2>5. CASE closed'[e] = closed[e]
    BY SMTT(30), <1>3, <2>2, <2>5
  <2>6. CASE Closes(d) /\ closed'[e] # closed[e]
    <3>1. PICK S \in SUBSET Ids : forceClose(d, S) /\ (sclosed[d] \/ ~Up \/ \A y \in S : Rejected(d, y))
      BY ZenonT(60), <2>6 DEF Closes
    <3>2. d = e
      BY ZenonT(60), <1>0, <2>6, <3>1 DEF forceClose, CloseT
    <3> QED BY ZenonT(60), <2>1, <2>2, <2>3, <3>1, <3>2
  <2>7. CASE ShutdownNext(d)
    <3>1. todo[e] = {}
      BY <2>1 DEF ShutInv
    <3>2. d # e
      BY SMTT(30), <2>7, <3>1 DEF ShutdownNext
    <3>3. closed'[e] = closed[e]
      BY <1>0, <2>7, <3>2 DEF ShutdownNext, forceClose, CloseT
    <3> QED BY <2>5, <3>3
  <2>8. CASE ReadClose(d)
    BY SMTT(30), <2>5, <2>8 DEF ReadClose
  <2> QED BY ZenonT(60), <2>4, <2>5, <2>6, <2>7, <2>8 DEF CloseStep, Registers, closeVars
<1> QED BY ZenonT(60), <1>1, <1>2, <1>3 DEF DeadInv


LEMMA NextSend ==
  ASSUME TypeOK, [Next]_vars, NEW x \in Ids, RegInv(x), NEW e \in Ends, SendInv(e, x)
  PROVE  SendInv(e, x)'
<1>1. SendStep(e, x)
  BY SendSteps
<1> QED BY ZenonT(60), <1>1, Stable DEF SendStep, Sends, SendInv

LEMMA TotalType ==
  ASSUME NEW g \in Seq(Nat), NEW r \in Seq(Nat)
  PROVE  Total(g, r) \in Nat /\ Len(g) \in Nat /\ (r = <<>> => Total(g, r) = Len(g))
<1>1. Len(g) \in Nat /\ Len(r) \in Nat /\ Len(g) + Len(r) \in Nat
  OBVIOUS
<1>2. r = <<>> => Len(r) = 0
  OBVIOUS
<1> QED BY <1>1, <1>2 DEF Total

LEMMA TotalBounds ==
  ASSUME NEW g \in Seq(Nat), NEW r \in Seq(Nat)
  PROVE  Len(g) \in Nat /\ Len(g) <= Total(g, r)
<1>1. Len(g) \in Nat /\ Len(r) \in Nat /\ Len(g) <= Len(g) + Len(r)
  OBVIOUS
<1> QED BY <1>1 DEF Total

LEMMA TotalMore ==
  ASSUME NEW g \in Seq(Nat), NEW r \in Seq(Nat), r # <<>>
  PROVE  Len(g) + 1 <= Total(g, r)
<1>1. Len(r) \in Nat /\ Len(r) >= 1 /\ Len(g) \in Nat
  OBVIOUS
<1>2. Len(g) + 1 <= Len(g) + Len(r)
  BY <1>1
<1> QED BY <1>2 DEF Total

LEMMA ReadInOrder ==
  ASSUME NEW g \in Seq(Nat), NEW r \in Seq(Nat), r # <<>>
  PROVE  /\ Total(Append(g, Head(r)), Tail(r)) = Total(g, r)
         /\ InOrder(g, r) => InOrder(Append(g, Head(r)), Tail(r))
<1>1. /\ Len(Tail(r)) = Len(r) - 1 /\ Len(r) \in Nat /\ Len(g) \in Nat
      /\ Len(Append(g, Head(r))) = Len(g) + 1 /\ Head(r) = r[1] /\ 1 \in 1..Len(r)
  OBVIOUS
<1>2. \A i \in 1..Len(Append(g, Head(r))) : \/ i \in 1..Len(g) /\ Append(g, Head(r))[i] = g[i]
                                            \/ i = Len(g) + 1 /\ Append(g, Head(r))[i] = r[1]
  OBVIOUS
<1>3. \A i \in 1..Len(Tail(r)) : i + 1 \in 1..Len(r) /\ Tail(r)[i] = r[i + 1]
  OBVIOUS
<1>4. Total(Append(g, Head(r)), Tail(r)) = Total(g, r)
  BY <1>1 DEF Total
<1>5. ASSUME InOrder(g, r) PROVE InOrder(Append(g, Head(r)), Tail(r))
  <2>1. r[1] = Len(g) + 1
    BY <1>1, <1>5 DEF InOrder
  <2>2. \A i \in 1..Len(Append(g, Head(r))) : Append(g, Head(r))[i] = i
    BY <1>2, <1>5, <2>1 DEF InOrder
  <2>3. ASSUME NEW i \in 1..Len(Tail(r)) PROVE Tail(r)[i] = Len(Append(g, Head(r))) + i
    <3>1. Tail(r)[i] = Len(g) + (i + 1)
      BY <1>3, <1>5 DEF InOrder
    <3> QED BY <1>1, <3>1
  <2> QED BY ZenonT(60), <2>2, <2>3 DEF InOrder
<1> QED BY <1>4, <1>5

LEMMA DeliverInOrder ==
  ASSUME NEW g \in Seq(Nat), NEW r \in Seq(Nat), NEW n \in Nat
  PROVE  /\ Total(g, Append(r, n)) = Total(g, r) + 1
         /\ InOrder(g, r) /\ n = Total(g, r) + 1 => InOrder(g, Append(r, n))
<1>1. Len(r) \in Nat /\ Len(g) \in Nat /\ Len(Append(r, n)) = Len(r) + 1
  OBVIOUS
<1>2. \A i \in 1..Len(Append(r, n)) : \/ i \in 1..Len(r) /\ Append(r, n)[i] = r[i]
                                      \/ i = Len(r) + 1 /\ Append(r, n)[i] = n
  OBVIOUS
<1>3. Total(g, Append(r, n)) = Total(g, r) + 1
  BY <1>1 DEF Total
<1>4. ASSUME InOrder(g, r), n = Total(g, r) + 1 PROVE InOrder(g, Append(r, n))
  <2>1. n = Len(g) + (Len(r) + 1)
    BY <1>1, <1>4 DEF Total
  <2>2. \A i \in 1..Len(Append(r, n)) : Append(r, n)[i] = Len(g) + i
    BY ZenonT(60), <1>2, <1>4, <2>1 DEF InOrder
  <2> QED BY <1>4, <2>2 DEF InOrder
<1> QED BY <1>3, <1>4

\* What one end holds of a stream are sequences of numbers.
LEMMA CopyTypes ==
  ASSUME TypeOK, NEW e \in Ends, NEW x \in Ids
  PROVE  /\ got[e][x] \in Seq(Nat) /\ reads[e][x] \in Seq(Nat) /\ sent[e][x] \in Nat
         /\ Taken(e, x) \in Nat /\ Base(e, x) \in Nat /\ wire[e] \in Seq(Frame)
<1>1. got[e][x] \in Seq(Nat) /\ reads[e][x] \in Seq(Nat) /\ sent[e][x] \in Nat /\ wire[e] \in Seq(Frame)
  BY Parts DEF CopyT, ChanT, WireT
<1>2. Taken(e, x) \in Nat
  BY ZenonT(60), <1>1, TotalType DEF Taken
<1> QED BY <1>1, <1>2 DEF Base

LEMMA SentGrows ==
  ASSUME TypeOK, [Next]_vars, NEW e \in Ends, NEW x \in Ids
  PROVE  sent'[e][x] \in Nat /\ sent[e][x] <= sent'[e][x]
<1>1. SendStep(e, x) /\ sent[e][x] \in Nat
  BY SMTT(30), SendSteps, CopyTypes
<1> QED BY <1>1 DEF SendStep, Sends

\* How a step changes what one end has of a stream.
LEMMA TakenSteps ==
  ASSUME TypeOK, [Next]_vars, NEW e \in Ends, NEW x \in Ids, closed[e] \subseteq remoteEOF[e]
  PROVE  \/ reads'[e][x] = reads[e][x] /\ got'[e][x] = got[e][x] /\ Taken(e, x)' = Taken(e, x)
         \/ /\ reads[e][x] # <<>> /\ reads'[e][x] = Tail(reads[e][x])
            /\ got'[e][x] = Append(got[e][x], Head(reads[e][x])) /\ Taken(e, x)' = Taken(e, x)
         \/ /\ Delivers(e) /\ Holds(e, x) /\ x \notin remoteEOF[e]
            /\ reads'[e][x] = Append(reads[e][x], held[e].n) /\ got'[e][x] = got[e][x]
            /\ Taken(e, x)' = Taken(e, x) + 1
<1>0. got[e][x] \in Seq(Nat) /\ reads[e][x] \in Seq(Nat) /\ ChanT /\ held[e].n \in Nat
  <2>1. LoopT
    BY ZenonT(60), Parts
  <2>2. held[e].n \in Nat
    BY SMTT(30), <2>1 DEF LoopT
  <2> QED BY ZenonT(60), <2>2, CopyTypes, Parts
<1>1. CASE reads'[e][x] = reads[e][x] /\ got'[e][x] = got[e][x]
  BY ZenonT(60), <1>1 DEF Taken
<1>2. CASE BufferStep(e, x)
  BY ZenonT(60), <1>0, <1>1, <1>2, ReadInOrder DEF BufferStep, Taken
<1>3. CASE Delivers(e)
  <2>1. CASE reads'[e] = reads[e]
    BY ZenonT(60), <1>1, <1>3, <2>1 DEF Delivers
  <2>2. CASE held[e].id # x /\ reads' = [reads EXCEPT ![e][held[e].id] = Append(@, held[e].n)]
    BY ZenonT(60), <1>0, <1>1, <1>3, <2>2 DEF Delivers, ChanT
  <2>3. CASE /\ held[e].id = x /\ x \notin remoteEOF[e]
             /\ reads' = [reads EXCEPT ![e][held[e].id] = Append(@, held[e].n)]
    <3>1. reads'[e][x] = Append(reads[e][x], held[e].n) /\ got'[e][x] = got[e][x]
      BY ZenonT(60), <1>0, <1>3, <2>3 DEF Delivers, ChanT
    <3>2. Taken(e, x)' = Taken(e, x) + 1
      BY ZenonT(60), <1>0, <3>1, DeliverInOrder DEF Taken
    <3> QED BY ZenonT(60), <1>3, <2>3, <3>1, <3>2 DEF Delivers, Holds
  <2> QED BY ZenonT(60), <1>3, <2>1, <2>2, <2>3 DEF Delivers
<1>4. CASE Still(e)
  BY ZenonT(60), <1>1, <1>4 DEF Still
<1> QED BY ZenonT(60), <1>2, <1>3, <1>4, ArriveSteps DEF ArriveStep

LEMMA NextOrder ==
  ASSUME TypeOK, [Next]_vars, NEW e \in Ends, NEW x \in Ids, ShutInv(e), OrderInv(e, x), ArriveInv(e, x)
  PROVE  OrderInv(e, x)'
<1> DEFINE p == Peer(e)
<1>0. p \in Ends /\ closed[e] \subseteq remoteEOF[e]
  BY ZenonT(60), PeerType DEF ShutInv
<1> HIDE DEF p
<1>1. /\ got[e][x] \in Seq(Nat) /\ reads[e][x] \in Seq(Nat) /\ Taken(e, x) \in Nat
      /\ sent[p][x] \in Nat /\ sent'[p][x] \in Nat /\ sent[p][x] <= sent'[p][x]
  BY ZenonT(60), <1>0, CopyTypes, SentGrows
<1>2. CASE reads'[e][x] = reads[e][x] /\ got'[e][x] = got[e][x] /\ Taken(e, x)' = Taken(e, x)
  BY <1>1, <1>2 DEF OrderInv, p
<1>3. CASE /\ reads[e][x] # <<>> /\ reads'[e][x] = Tail(reads[e][x])
           /\ got'[e][x] = Append(got[e][x], Head(reads[e][x])) /\ Taken(e, x)' = Taken(e, x)
  <2>1. InOrder(got'[e][x], reads'[e][x])
    BY ZenonT(60), <1>1, <1>3, ReadInOrder DEF OrderInv
  <2>2. Taken(e, x)' <= sent'[p][x]
    BY <1>1, <1>3 DEF OrderInv, p
  <2> QED BY ZenonT(60), <2>1, <2>2 DEF OrderInv, p
<1>4. CASE /\ Delivers(e) /\ Holds(e, x) /\ x \notin remoteEOF[e]
           /\ reads'[e][x] = Append(reads[e][x], held[e].n) /\ got'[e][x] = got[e][x]
           /\ Taken(e, x)' = Taken(e, x) + 1
  <2>1. held[e].n = Taken(e, x) + 1 /\ Taken(e, x) + 1 <= sent[p][x]
    BY ZenonT(60), <1>4 DEF ArriveInv, Base, p
  <2>2. InOrder(got'[e][x], reads'[e][x])
    BY SMTT(30), <1>1, <1>4, <2>1, DeliverInOrder DEF OrderInv, Taken
  <2>3. Taken(e, x)' <= sent'[p][x]
    BY <1>1, <1>4, <2>1
  <2> QED BY ZenonT(60), <2>2, <2>3 DEF OrderInv, p
<1> QED BY ZenonT(60), <1>0, <1>2, <1>3, <1>4, TakenSteps


\* Who sends has not finished.
LEMMA SendsOpen ==
  ASSUME TypeOK, [Next]_vars, NEW x \in Ids, RegInv(x), NEW p \in Ends, Sends(p, x)
  PROVE  ~Final(p, x)
  BY ZenonT(60), Stable DEF Sends, Final

\* A Data frame that e drops is one of a stream that e closed.
LEMMA DropsClosed ==
  ASSUME TypeOK, NEW e \in Ends, NEW x \in Ids, RegInv(x), SendInv(Peer(e), x), CloseInv(e, x),
         Has(wire[e], "Data", x), x \notin streams[e]
  PROVE  x \in closed[e]
<1>1. Est(Peer(e), x)
  BY ZenonT(60) DEF CloseInv, SendInv
<1>2. Known(e, x)
  BY ZenonT(60), <1>1, PeerType DEF Est, RegInv, Peer, Ends
<1> QED BY ZenonT(60), <1>2 DEF Known

LEMMA NextArrive ==
  ASSUME TypeOK, [Next]_vars, NEW e \in Ends, NEW x \in Ids, RegInv(x), ShutInv(e), SendInv(Peer(e), x),
         CloseInv(e, x), ArriveInv(e, x)
  PROVE  ArriveInv(e, x)'
<1> DEFINE p == Peer(e)
<1>0. p \in Ends /\ closed[e] \subseteq remoteEOF[e] /\ LoopT
  BY ZenonT(60), PeerType, Parts DEF ShutInv
<1> HIDE DEF p
<1> SUFFICES ASSUME x \notin remoteEOF'[e]
             PROVE  /\ Base(e, x)' <= sent'[p][x]
                    /\ Holds(e, x)' => held'[e].n = Taken(e, x)' + 1
                    /\ Continues(wire'[e], x, Base(e, x)', sent'[p][x], Up' \/ Has(wire'[e], "Close", x))
  BY ZenonT(60) DEF ArriveInv, p
<1>1. /\ wire[e] \in Seq(Frame) /\ Taken(e, x) \in Nat /\ Base(e, x) \in Nat
      /\ sent[p][x] \in Nat /\ Up \in BOOLEAN /\ Has(wire[e], "Close", x) \in BOOLEAN
  BY ZenonT(60), <1>0, CopyTypes DEF Up, Has
<1>2. x \notin remoteEOF[e] /\ x \notin closed[e]
  BY ZenonT(60), <1>0, Monotone
<1>3. /\ Base(e, x) <= sent[p][x]
      /\ Holds(e, x) => held[e].n = Taken(e, x) + 1
      /\ Continues(wire[e], x, Base(e, x), sent[p][x], Up \/ Has(wire[e], "Close", x))
  BY ZenonT(60), <1>2 DEF ArriveInv, p
<1>4. CASE Sends(p, x)
  <2>1. /\ Base(e, x)' = Base(e, x) /\ Taken(e, x)' = Taken(e, x) /\ (Holds(e, x)' <=> Holds(e, x))
        /\ held'[e] = held[e] /\ Up' = Up /\ sent'[p][x] = sent[p][x] + 1
    BY ZenonT(60), <1>4 DEF Sends, Base, Taken, Holds, Up
  <2>2. wire'[e] = IF Up THEN Append(wire[e], F("Data", x, sent[p][x] + 1)) ELSE wire[e]
    <3>1. Peer(p) = e /\ wire \in [Ends -> Seq(Frame)]
      BY ZenonT(60), PeerType, Parts DEF p, WireT
    <3> QED BY ZenonT(60), <1>4, <3>1 DEF Sends
  <2>3. CASE Up
    <3>1. Continues(wire[e], x, Base(e, x), sent[p][x], TRUE)
      BY ZenonT(60), <1>3, <2>3 DEF Continues
    <3>2. Continues(wire'[e], x, Base(e, x), sent[p][x] + 1, TRUE)
      BY ZenonT(60), <1>1, <1>3, <2>2, <2>3, <3>1, AppendData
    <3>3. Continues(wire'[e], x, Base(e, x), sent[p][x] + 1, Up' \/ Has(wire'[e], "Close", x))
      BY ZenonT(60), <3>2 DEF Continues
    <3> QED BY <1>1, <1>3, <2>1, <3>3
  <2>4. CASE ~Up
    <3>1. ~Has(wire[e], "Close", x)
      BY ZenonT(60), <1>0, <1>4, SendsOpen DEF CloseInv, p
    <3>2. Continues(wire[e], x, Base(e, x), sent[p][x] + 1, FALSE)
      BY ZenonT(60), <1>1, <1>3, LostData
    <3>3. Continues(wire'[e], x, Base(e, x), sent[p][x] + 1, Up' \/ Has(wire'[e], "Close", x))
      BY ZenonT(60), <2>1, <2>2, <2>4, <3>1, <3>2
    <3> QED BY <1>1, <1>3, <2>1, <3>3
  <2> QED BY ZenonT(60), <2>3, <2>4
<1>5. CASE sent'[p][x] = sent[p][x]
  <2>1. (Up' => Up) /\ Up' \in BOOLEAN
    BY ZenonT(60), EndSteps DEF Up
  \* Nothing is taken, though a frame of another kind may be added.
  <2>2. ASSUME Appends(e)
        PROVE  Continues(wire'[e], x, Base(e, x), sent'[p][x], Up' \/ Has(wire'[e], "Close", x))
    <3>1. CASE wire'[e] = wire[e]
      BY ZenonT(60), <1>3, <1>5, <2>1, <3>1 DEF Continues
    <3>2. ASSUME Up, NEW f \in Frame, Written(p, f), wire'[e] = Append(wire[e], f)
          PROVE  Continues(wire'[e], x, Base(e, x), sent'[p][x], Up' \/ Has(wire'[e], "Close", x))
      <4>1. ~Data(f, x)
        BY <1>1, <1>5, <3>2 DEF Written, Data, F
      <4>2. Continues(wire[e], x, Base(e, x), sent[p][x], TRUE)
        BY ZenonT(60), <1>3, <3>2 DEF Continues
      <4>3. Continues(wire'[e], x, Base(e, x), sent[p][x], TRUE)
        BY ZenonT(60), <1>1, <3>2, <4>1, <4>2, AppendOther
      <4> QED BY ZenonT(60), <1>5, <4>3 DEF Continues
    <3> QED BY ZenonT(60), <2>2, <3>1, <3>2 DEF Appends, p
  <2>3. CASE /\ Appends(e) /\ loop'[e] = loop[e] /\ held'[e] = held[e]
             /\ \A y \in Ids : BufferStep(e, y)
    <3>1. Taken(e, x)' = Taken(e, x)
      <4>1. BufferStep(e, x) /\ got[e][x] \in Seq(Nat) /\ reads[e][x] \in Seq(Nat)
        BY ZenonT(60), <2>3, CopyTypes
      <4> QED BY ZenonT(60), <4>1, ReadInOrder DEF BufferStep, Taken
    <3>2. Base(e, x)' = Base(e, x) /\ (Holds(e, x)' <=> Holds(e, x))
      BY ZenonT(60), <2>3, <3>1 DEF Base, Holds
    <3> QED BY ZenonT(60), <1>3, <1>5, <2>2, <2>3, <3>1, <3>2
  <2>4. CASE wire'[e] = wire[e] /\ loop[e] = "read" /\ loop'[e] = "stopped" /\ Still(e)
    <3>1. Taken(e, x)' = Taken(e, x) /\ ~Holds(e, x)' /\ ~Holds(e, x)
      BY ZenonT(60), <2>4 DEF Still, Taken, Holds
    <3>2. Base(e, x)' = Base(e, x) /\ Appends(e)
      BY ZenonT(60), <2>4, <3>1 DEF Base, Appends
    <3> QED BY ZenonT(60), <1>3, <1>5, <2>2, <3>1, <3>2
  <2>5. CASE Takes(e) /\ Still(e)
    <3>1. Taken(e, x)' = Taken(e, x) /\ ~Holds(e, x) /\ Base(e, x) = Taken(e, x)
      BY ZenonT(60), <2>5 DEF Still, Takes, Taken, Holds, Base
    <3>2. wire[e] # <<>> /\ wire'[e] = Tail(wire[e])
      BY ZenonT(60), <2>5 DEF Takes
    <3>3. Up' \/ Has(wire'[e], "Close", x) => Up \/ Has(wire[e], "Close", x)
      BY ZenonT(60), <1>1, <2>1, <3>2, TailHas
    <3>4. CASE Data(Head(wire[e]), x)
      <4>1. Has(wire[e], "Data", x)
        BY ZenonT(60), <1>1, <3>2, <3>4, HeadHas DEF Data
      <4>2. x \in streams[e]
        BY ZenonT(60), <1>2, <4>1, DropsClosed DEF p
      <4>3. loop'[e] = "deliver" /\ held'[e] = [id |-> x, n |-> Head(wire[e]).n]
        BY ZenonT(60), <2>5, <3>4, <4>2 DEF Takes, Data
      <4>4. Holds(e, x)' /\ Base(e, x)' = Taken(e, x) + 1
        BY <3>1, <4>3 DEF Holds, Base
      <4>5. /\ Head(wire[e]).n = Taken(e, x) + 1 /\ Taken(e, x) + 1 <= sent[p][x]
            /\ Continues(Tail(wire[e]), x, Taken(e, x) + 1, sent[p][x], Up \/ Has(wire[e], "Close", x))
        BY ZenonT(60), <1>1, <1>3, <3>1, <3>2, <3>4, TailData
      <4>6. Continues(wire'[e], x, Base(e, x)', sent'[p][x], Up' \/ Has(wire'[e], "Close", x))
        BY ZenonT(60), <1>5, <3>2, <3>3, <4>4, <4>5 DEF Continues
      <4> QED BY <1>5, <3>1, <4>3, <4>4, <4>5, <4>6
    <3>5. CASE ~Data(Head(wire[e]), x)
      <4>1. ~Holds(e, x)'
        BY <2>5, <3>5 DEF Takes, Holds, Data
      <4>2. Base(e, x)' = Base(e, x)
        BY ZenonT(60), <3>1, <4>1 DEF Base
      <4>3. Continues(Tail(wire[e]), x, Base(e, x), sent[p][x], Up \/ Has(wire[e], "Close", x))
        BY ZenonT(60), <1>1, <1>3, <3>2, <3>5, TailOther
      <4>4. Continues(wire'[e], x, Base(e, x)', sent'[p][x], Up' \/ Has(wire'[e], "Close", x))
        BY ZenonT(60), <1>5, <3>2, <3>3, <4>2, <4>3 DEF Continues
      <4> QED BY ZenonT(60), <1>3, <1>5, <4>1, <4>2, <4>4
    <3> QED BY ZenonT(60), <3>4, <3>5
  <2>6. CASE Delivers(e)
    <3>1. ~Holds(e, x)' /\ Base(e, x)' = Taken(e, x)' /\ Appends(e)
      BY ZenonT(60), <2>6 DEF Delivers, Holds, Base, Appends
    <3>2. Taken(e, x)' = Base(e, x)
      <4>1. CASE Holds(e, x)
        <5>1. reads' = [reads EXCEPT ![e][x] = Append(@, held[e].n)] /\ got'[e] = got[e]
          BY ZenonT(60), <1>2, <2>6, <4>1 DEF Delivers, Holds
        <5>2. ChanT /\ held[e].n \in Nat /\ got[e][x] \in Seq(Nat) /\ reads[e][x] \in Seq(Nat)
          BY <1>0, <1>1, <1>3, <4>1, CopyTypes, Parts
        <5>3. reads'[e][x] = Append(reads[e][x], held[e].n)
          BY ZenonT(60), <5>1, <5>2 DEF ChanT
        <5>4. Taken(e, x)' = Taken(e, x) + 1
          BY SMTT(30), <5>1, <5>2, <5>3, DeliverInOrder DEF Taken
        <5> QED BY ZenonT(60), <4>1, <5>4 DEF Base
      <4>2. CASE ~Holds(e, x)
        BY ZenonT(60), <1>0, <2>6, <4>2, TakenSteps DEF Base
      <4> QED BY ZenonT(60), <4>1, <4>2
    <3> QED BY ZenonT(60), <1>3, <1>5, <2>2, <3>1, <3>2
  <2> QED BY ZenonT(60), <2>3, <2>4, <2>5, <2>6, ArriveSteps DEF ArriveStep
<1> QED BY ZenonT(60), <1>0, <1>4, <1>5, SendSteps DEF SendStep


LEMMA NextClose ==
  ASSUME TypeOK, [Next]_vars, NEW e \in Ends, NEW x \in Ids, RegInv(x), DeadInv(x),
         \A d \in Ends : ShutInv(d) /\ SendInv(d, x) /\ CloseInv(d, x), ArriveInv(e, x)
  PROVE  CloseInv(e, x)'
<1> DEFINE p == Peer(e)
<1>0. p \in Ends /\ Peer(p) = e /\ closed[e] \subseteq remoteEOF[e]
  BY ZenonT(60), PeerType DEF ShutInv
<1> HIDE DEF p
<1>1. /\ wire[e] \in Seq(Frame) /\ wire[p] \in Seq(Frame) /\ Taken(e, x) \in Nat
      /\ sent[p][x] \in Nat /\ sent'[p][x] \in Nat /\ sent[p][x] <= sent'[p][x]
      /\ got[e][x] \in Seq(Nat) /\ reads[e][x] \in Seq(Nat)
  BY ZenonT(60), <1>0, CopyTypes, SentGrows
<1>2. Final(p, x) => Final(p, x)' /\ sent'[p][x] = sent[p][x]
  BY ZenonT(60), <1>0, Stable
<1>3. Has(wire'[e], "Data", x) => sent'[p][x] > 0
  <2>1. \A f \in Frame : Written(p, f) /\ f.type = "Data" /\ f.id = x => sent'[p][x] > 0
    BY <1>1 DEF Written, F
  <2>2. Has(wire[e], "Data", x) => sent'[p][x] > 0
    <3>1. Has(wire[e], "Data", x) => sent[p][x] > 0
      BY ZenonT(60) DEF CloseInv, p
    <3> QED BY <1>1, <3>1
  <2>3. Has(wire'[e], "Data", x) => \/ Has(wire[e], "Data", x)
                                    \/ \E f \in Frame : Written(p, f) /\ f.type = "Data" /\ f.id = x
    BY HasNext DEF p
  <2> QED BY ZenonT(60), <2>1, <2>2, <2>3
<1>4. CloseLast(wire'[e], x)
  <2>1. ASSUME NEW f \in Frame, Written(p, f), Data(f, x) PROVE ~Has(wire[e], "Close", x)
    <3>1. sent'[p][x] = sent[p][x] + 1
      BY <2>1 DEF Written, Data, F
    <3> QED BY <1>0, <1>1, <1>2, <3>1 DEF CloseInv, p
  <2>2. ASSUME NEW f \in Frame, Written(p, f), wire'[e] = Append(wire[e], f)
        PROVE  CloseLast(wire'[e], x)
    BY ZenonT(60), <1>1, <2>1, <2>2, AppendCloseLast DEF CloseInv
  <2>3. ASSUME wire[e] # <<>>, wire'[e] = Tail(wire[e])
        PROVE  CloseLast(wire'[e], x)
    BY ZenonT(60), <1>1, <2>3, TailHas DEF CloseInv
  <2> QED BY ZenonT(60), <2>2, <2>3, WireSteps DEF CloseInv, p
<1>5. Has(wire'[e], "Close", x) => Final(p, x)'
  <2>1. CASE Has(wire[e], "Close", x)
    BY ZenonT(60), <1>2, <2>1 DEF CloseInv, p
  <2>2. ASSUME Up, NEW f \in Frame, Written(p, f), f.type = "Close", f.id = x
        PROVE  Final(p, x)'
    <3>1. CASE writer'[p][x] = "done"
      BY ZenonT(60), <3>1 DEF Final
    <3>2. CASE ~sclosed[p] /\ x \notin streams[p] /\ wire[p] # <<>> /\ Data(Head(wire[p]), x)
      <4>1. Has(wire[p], "Data", x)
        BY ZenonT(60), <1>1, <3>2, HeadHas DEF Data
      <4>2. x \in closed[p]
        BY ZenonT(60), <1>0, <3>2, <4>1, DropsClosed
      <4>3. Never(p, x)
        BY ZenonT(60), <1>0, <2>2, <3>2, <4>2 DEF DeadInv
      <4> QED BY ZenonT(60), <1>2, <4>3 DEF Final
    <3> QED BY SMTT(40), <2>2, <3>1, <3>2 DEF Written, F
  <2> QED BY <2>1, <2>2, HasNext DEF p
<1>6. x \in remoteEOF'[e] /\ x \notin closed'[e] => Taken(e, x)' = sent'[p][x] /\ Final(p, x)'
  <2> SUFFICES ASSUME x \in remoteEOF'[e], x \notin closed'[e]
               PROVE  Taken(e, x)' = sent'[p][x] /\ Final(p, x)'
    BY ZenonT(60)
  <2>1. x \notin closed[e]
    BY ZenonT(60), Monotone
  <2>2. CASE x \in remoteEOF[e]
    <3>1. Taken(e, x) = sent[p][x] /\ Final(p, x)
      BY ZenonT(60), <2>1, <2>2 DEF CloseInv, p
    <3>2. Taken(e, x)' = Taken(e, x)
      BY ZenonT(60), <1>0, <2>2, TakenSteps
    <3> QED BY ZenonT(60), <1>2, <3>1, <3>2
  <2>3. CASE ReadClose(e) /\ x \notin remoteEOF[e]
    <3>1. wire[e] # <<>> /\ Head(wire[e]).type = "Close" /\ loop[e] = "read" /\ UNCHANGED <<got, reads>>
      BY ZenonT(60), <2>3 DEF ReadClose, Arrives, Reading, appVars, chanVars
    <3>2. Head(wire[e]).id = x
      <4>1. CloseT
        BY SMTT(30), Parts
      <4> QED BY ZenonT(60), <2>3, <4>1 DEF ReadClose, remoteClose, CloseT
    <3>3. Has(wire[e], "Close", x) /\ ~Has(wire[e], "Data", x)
      BY ZenonT(60), <1>1, <3>1, <3>2, HeadHas DEF CloseInv
    <3>4. Base(e, x) = Taken(e, x) /\ Taken(e, x)' = Taken(e, x)
      BY ZenonT(60), <3>1 DEF Base, Holds, Taken
    <3>5. Taken(e, x) <= sent[p][x] /\ Complete(wire[e], x, Taken(e, x), sent[p][x])
      BY ZenonT(60), <2>3, <3>3, <3>4 DEF ArriveInv, Continues, p
    <3>6. ~(Taken(e, x) < sent[p][x])
      BY ZenonT(60), <3>3, <3>5 DEF Complete, Data, Has
    <3>7. Final(p, x)
      BY ZenonT(60), <3>3 DEF CloseInv, p
    <3> QED BY <1>1, <1>2, <3>4, <3>5, <3>6, <3>7
  <2>4. ReadClose(e) \/ x \in remoteEOF[e]
    <3>0. CloseT
      BY Parts
    <3>1. ASSUME NEW d \in Ends, NEW S \in SUBSET Ids, forceClose(d, S) PROVE x \in remoteEOF[e]
      BY ZenonT(60), <2>1, <3>0, <3>1 DEF forceClose, CloseT
    <3>2. ASSUME NEW d \in Ends, ReadClose(d), d # e PROVE x \in remoteEOF[e]
      BY SMTT(30), <3>0, <3>2 DEF ReadClose, remoteClose, CloseT
    <3>3. PICK d \in Ends : CloseStep(d)
      BY ZenonT(60), CloseSteps
    <3>4. CASE ShutdownNext(d)
      <4>1. SessT
        BY ZenonT(60), Parts
      <4>2. PICK y \in Ids : forceClose(d, {y})
        BY ZenonT(60), <3>4, <4>1 DEF ShutdownNext, SessT
      <4> QED BY ZenonT(60), <3>1, <4>2
    <3>5. CASE Closes(d)
      BY ZenonT(60), <3>1, <3>5 DEF Closes
    <3> QED BY ZenonT(60), <3>2, <3>3, <3>4, <3>5 DEF CloseStep, Registers, closeVars
  <2> QED BY ZenonT(60), <2>2, <2>3, <2>4
<1>7. reader'[e][x] = "eof" => Len(got'[e][x]) = sent'[p][x] /\ Final(p, x)'
  <2> SUFFICES ASSUME reader'[e][x] = "eof"
               PROVE  Len(got'[e][x]) = sent'[p][x] /\ Final(p, x)'
    BY ZenonT(60)
  <2>1. CASE reader[e][x] = "eof" /\ got'[e][x] = got[e][x]
    BY ZenonT(60), <1>2, <2>1 DEF CloseInv, p
  <2>2. CASE got'[e][x] = got[e][x] /\ reads[e][x] = <<>> /\ x \in remoteEOF[e] /\ x \notin closed[e]
    <3>1. Taken(e, x) = sent[p][x] /\ Final(p, x)
      BY ZenonT(60), <2>2 DEF CloseInv, p
    <3>2. Taken(e, x) = Len(got[e][x])
      BY ZenonT(60), <1>1, <2>2, TotalType DEF Taken
    <3> QED BY ZenonT(60), <1>2, <2>2, <3>1, <3>2
  <2>3. CASE BufferStep(e, x)
    BY ZenonT(60), <2>1, <2>2, <2>3 DEF BufferStep
  <2> QED BY ZenonT(60), <2>1, <2>3, ArriveSteps DEF ArriveStep, Still, Delivers
<1> QED BY ZenonT(60), <1>3, <1>4, <1>5, <1>6, <1>7 DEF CloseInv, p

-----------------------------------------------------------------------------
(* Theorems                                                                *)

LEMMA InitIInv == Init => IInv
<1> SUFFICES ASSUME Init PROVE IInv
  OBVIOUS
<1>1. TypeOK
  BY SMTT(30), InitType
<1>2. EndsInv
  BY ZenonT(60) DEF Init, EndsInv, ShutInv, CauseInv, handlerAtStart
<1>3. \A e \in Ends, x \in Ids : wire[e] = <<>> /\ got[e][x] = <<>> /\ reads[e][x] = <<>> /\ sent[e][x] = 0
                                  /\ writer[e][x] = "idle" /\ reader[e][x] = "idle" /\ loop[e] = "read"
                                  /\ remoteEOF[e] = {}
  BY DEF Init
<1>4. "opener" \in Ends /\ "acceptor" \in Ends
  BY ZenonT(60) DEF Ends
<1>5. \A e \in Ends : \A t, x : ~Has(wire[e], t, x) /\ ~HasAck(wire[e], x)
  BY <1>3 DEF Has, HasAck, Init
<1>6. StreamsInv
  <2> SUFFICES ASSUME NEW x \in Ids PROVE RegInv(x) /\ DeadInv(x)
    BY DEF StreamsInv
  <2>1. opener[x] = "idle" /\ handler[x] = "none" /\ ack[x] = "none" /\ \A e \in Ends : closed[e] = {}
    BY SMTT(30) DEF Init
  <2>2. Once(wire["acceptor"], x)
    BY <1>3, <1>4 DEF Once
  <2> QED BY ZenonT(60), <1>4, <1>5, <2>1, <2>2 DEF RegInv, DeadInv
<1>7. CopiesInv
  <2> SUFFICES ASSUME NEW e \in Ends, NEW x \in Ids
               PROVE  SendInv(e, x) /\ OrderInv(e, x) /\ ArriveInv(e, x) /\ CloseInv(e, x)
    BY SMTT(30) DEF CopiesInv
  <2>1. /\ wire[e] = <<>> /\ got[e][x] = <<>> /\ reads[e][x] = <<>> /\ sent[e][x] = 0
        /\ sent[Peer(e)][x] = 0 /\ writer[e][x] = "idle" /\ reader[e][x] = "idle" /\ loop[e] = "read"
        /\ remoteEOF[e] = {}
    BY ZenonT(60), <1>3, PeerType
  <2>2. Taken(e, x) = 0 /\ Base(e, x) = 0 /\ ~Holds(e, x)
    BY SMTT(30), <2>1 DEF Taken, Total, Base, Holds
  <2>3. InOrder(got[e][x], reads[e][x])
    BY SMTT(30), <2>1 DEF InOrder
  <2>4. Continues(wire[e], x, 0, 0, Up \/ Has(wire[e], "Close", x)) /\ CloseLast(wire[e], x)
    BY <2>1 DEF Continues, Chain, Distinct, Complete, CloseLast
  <2>5. SendInv(e, x) /\ OrderInv(e, x)
    BY SMTT(30), <2>1, <2>2, <2>3 DEF SendInv, OrderInv
  <2>6. ArriveInv(e, x)
    BY <2>1, <2>2, <2>4 DEF ArriveInv
  <2>7. CloseInv(e, x)
    BY ZenonT(60), <1>5, <2>1, <2>4 DEF CloseInv
  <2> QED BY <2>5, <2>6, <2>7
<1> QED BY <1>1, <1>2, <1>6, <1>7 DEF IInv

LEMMA NextIInv ==
  ASSUME IInv, [Next]_vars
  PROVE  IInv'
<1>1. TypeOK /\ EndsInv /\ StreamsInv /\ CopiesInv
  BY DEF IInv
<1>2. TypeOK'
  BY ZenonT(60), <1>1, NextType
<1>3. EndsInv'
  BY ZenonT(60), <1>1, NextShut, NextCause DEF EndsInv
<1>4. ASSUME NEW x \in Ids PROVE RegInv(x)' /\ DeadInv(x)'
  <2>1. RegInv(x) /\ DeadInv(x) /\ \A e \in Ends : ShutInv(e)
    BY <1>1 DEF EndsInv, StreamsInv
  <2> QED BY ZenonT(60), <1>1, <2>1, NextReg, NextDead
<1>5. StreamsInv'
  BY <1>4 DEF StreamsInv
<1>6. ASSUME NEW e \in Ends, NEW x \in Ids
      PROVE  SendInv(e, x)' /\ OrderInv(e, x)' /\ ArriveInv(e, x)' /\ CloseInv(e, x)'
  <2>1. RegInv(x) /\ DeadInv(x)
    BY <1>1 DEF StreamsInv
  <2>2. \A d \in Ends : ShutInv(d) /\ SendInv(d, x) /\ CloseInv(d, x)
    BY <1>1 DEF EndsInv, CopiesInv
  <2>3. OrderInv(e, x) /\ ArriveInv(e, x)
    BY <1>1 DEF CopiesInv
  <2>4. SendInv(e, x)'
    BY ZenonT(60), <1>1, <2>1, <2>2, NextSend
  <2>5. OrderInv(e, x)'
    BY ZenonT(60), <1>1, <2>2, <2>3, NextOrder
  <2>6. ArriveInv(e, x)'
    BY ZenonT(60), <1>1, <2>1, <2>2, <2>3, PeerType, NextArrive
  <2>7. CloseInv(e, x)'
    BY ZenonT(60), <1>1, <2>1, <2>2, <2>3, NextClose
  <2> QED BY ZenonT(60), <2>4, <2>5, <2>6, <2>7
<1>7. CopiesInv'
  BY <1>6 DEF CopiesInv
<1> QED BY ZenonT(60), <1>2, <1>3, <1>5, <1>7 DEF IInv

LEMMA Inductive == Spec => []IInv
<1>1. IInv /\ [Next]_vars => IInv'
  BY NextIInv
<1> QED BY <1>1, InitIInv, PTL DEF Spec


\* Type correctness, whatever the sets of streams, the capacities and the load.
THEOREM TypeCorrect == Spec => []TypeOK
<1>1. IInv => TypeOK
  BY DEF IInv
<1> QED BY <1>1, Inductive, PTL

\* What Read returned is, in order and without a gap, what Write sent: frames
\* are lost only behind a broken connection, and never only some of them.
THEOREM StreamsAreIntact == Spec => []StreamIntegrity
<1>1. ASSUME IInv PROVE StreamIntegrity
  <2> SUFFICES ASSUME NEW e \in Ends, NEW x \in Ids
               PROVE  Len(got[e][x]) <= sent[Peer(e)][x] /\ \A i \in 1..Len(got[e][x]) : got[e][x][i] = i
    BY ZenonT(60) DEF StreamIntegrity
  <2>1. OrderInv(e, x) /\ TypeOK
    BY SMTT(30), <1>1 DEF IInv, CopiesInv
  <2>2. /\ got[e][x] \in Seq(Nat) /\ reads[e][x] \in Seq(Nat) /\ sent[Peer(e)][x] \in Nat
        /\ Taken(e, x) \in Nat
    BY ZenonT(60), <2>1, CopyTypes, PeerType
  <2>3. Len(got[e][x]) \in Nat /\ Len(got[e][x]) <= Taken(e, x)
    BY <2>2, TotalBounds DEF Taken
  <2> QED BY <2>1, <2>2, <2>3 DEF OrderInv, InOrder
<1> QED BY <1>1, Inductive, PTL

\* A reader is told io.EOF only after everything the peer ever wrote.
THEOREM EndOfFileIsTrue == Spec => []EOFIntegrity
<1>1. IInv => EOFIntegrity
  BY ZenonT(60) DEF IInv, CopiesInv, CloseInv, EOFIntegrity
<1> QED BY <1>1, Inductive, PTL

\* Open returns a stream only if the handler at the other end accepted it.
THEOREM OpenIsAccepted == Spec => []OpenImpliesAccepted
<1>1. IInv => OpenImpliesAccepted
  BY ZenonT(60) DEF IInv, StreamsInv, RegInv, OpenImpliesAccepted
<1> QED BY <1>1, Inductive, PTL

\* shutdown closes every stream that was registered; none slips in behind it.
THEOREM ShutdownIsComplete == Spec => []ShutdownClosesAll
<1>1. ASSUME IInv PROVE ShutdownClosesAll
  <2> SUFFICES ASSUME NEW e \in Ends, sclosed[e], todo[e] = {}
               PROVE  streams[e] = {} /\ \A x \in Ids : Established(e, x) => x \in closed[e]
    BY DEF ShutdownClosesAll
  <2>1. streams[e] = {}
    BY SMTT(30), <1>1 DEF IInv, EndsInv, ShutInv
  <2>2. ASSUME NEW x \in Ids, Established(e, x) PROVE Known(e, x)
    BY ZenonT(60), <1>1, <2>2 DEF IInv, StreamsInv, RegInv, Established, Ends
  <2> QED BY ZenonT(60), <2>1, <2>2 DEF Known
<1> QED BY <1>1, Inductive, PTL

\* With the control handler in place before Start, a session ends only because
\* its owner closed it or the connection went away.
THEOREM EndsForCause == Spec => []EndsOnlyForCause
<1>1. ASSUME IInv PROVE EndsOnlyForCause
  <2>1. load.handlers \subseteq Ends
    <3>1. load \in Load
      BY <1>1 DEF IInv, TypeOK
    <3> QED BY ZenonT(60), <3>1 DEF Load
  <2> QED BY <1>1, <2>1 DEF IInv, EndsInv, CauseInv, EndsOnlyForCause
<1> QED BY <1>1, Inductive, PTL


-----------------------------------------------------------------------------
(* The session implements the pipes                                        *)

Result(pc) == IF pc \in {"eof", "err"} THEN pc ELSE "open"

LEMMA OutcomeStep ==
  ASSUME TypeOK, NEW e \in Ends, NEW x \in Ids, NEW pc, SetReader(e, x, pc)
  PROVE  outcome' = [outcome EXCEPT ![e][x] = Result(pc)]
<1>1. reader \in [Ends -> [Ids -> {"idle", "select", "eof", "err"}]]
  BY Parts DEF CopyT
<1>2. ASSUME NEW d \in Ends, NEW y \in Ids
      PROVE  reader'[d][y] = IF d = e /\ y = x THEN pc ELSE reader[d][y]
  BY <1>1, <1>2 DEF SetReader
<1>3. outcome' = [d \in Ends |-> [y \in Ids |-> IF d = e /\ y = x THEN Result(pc) ELSE Result(reader[d][y])]]
  BY ZenonT(60), <1>2 DEF outcome, Result
<1>4. outcome = [d \in Ends |-> [y \in Ids |-> Result(reader[d][y])]]
  BY ZenonT(60) DEF outcome, Result
<1> QED BY ZenonT(60), <1>3, <1>4

LEMMA OutcomeAt ==
  ASSUME NEW e \in Ends, NEW x \in Ids
  PROVE  /\ outcome[e][x] = Result(reader[e][x])
         /\ reader[e][x] \in {"idle", "select"} => /\ outcome[e][x] = "open"
                                                   /\ [outcome EXCEPT ![e][x] = "open"] = outcome
<1>1. outcome = [d \in Ends |-> [y \in Ids |-> Result(reader[d][y])]]
  BY DEF outcome, Result
<1>2. outcome[e][x] = Result(reader[e][x])
  BY <1>1
<1>3. ASSUME reader[e][x] \in {"idle", "select"}
      PROVE  outcome[e][x] = "open" /\ [outcome EXCEPT ![e][x] = "open"] = outcome
  <2>1. outcome[e][x] = "open"
    BY ZenonT(60), <1>2, <1>3 DEF Result
  <2> QED BY ZenonT(60), <1>1, <2>1
<1> QED BY <1>2, <1>3

LEMMA SendIsPipe ==
  ASSUME IInv, [Next]_vars, NEW e \in Ends, NEW x \in Ids, WriteChunk(e, x), sent' # sent
  PROVE  Pipes!Send(e, x)
<1>1. sent' = [sent EXCEPT ![e][x] = @ + 1] /\ UNCHANGED <<got, reader>>
  BY DEF WriteChunk
<1>2. TypeOK /\ RegInv(x) /\ CloseInv(Peer(e), x)
  BY ZenonT(60), PeerType DEF IInv, StreamsInv, CopiesInv
<1>3. Est(e, x) /\ writer[e][x] = "chunk"
  BY SMTT(30) DEF WriteChunk, Established, Est
<1>4. ~Final(e, x)
  BY ZenonT(60), <1>2, <1>3, Stable DEF Final
<1>5. reader[Peer(e)][x] # "eof"
  BY ZenonT(60), <1>2, <1>4, PeerType DEF CloseInv
<1>6. outcome[Peer(e)][x] # "eof"
  BY ZenonT(60), <1>5, OutcomeAt, PeerType DEF Result
<1>7. UNCHANGED outcome
  BY SMTT(30), <1>1 DEF outcome
<1> QED BY ZenonT(60), <1>1, <1>6, <1>7 DEF Pipes!Send

LEMMA ReceiveIsPipe ==
  ASSUME IInv, NEW e \in Ends, NEW x \in Ids, ReadSelect(e, x), got' # got
  PROVE  Pipes!Receive(e, x)
<1>1. /\ got' = [got EXCEPT ![e][x] = Append(@, Head(reads[e][x]))] /\ SetReader(e, x, "idle")
      /\ reads[e][x] # <<>> /\ UNCHANGED sent /\ reader[e][x] = "select"
  BY DEF ReadSelect
<1>2. TypeOK /\ OrderInv(e, x)
  BY SMTT(30) DEF IInv, CopiesInv
<1>3. got[e][x] \in Seq(Nat) /\ reads[e][x] \in Seq(Nat) /\ sent[Peer(e)][x] \in Nat /\ Taken(e, x) \in Nat
  BY ZenonT(60), <1>2, CopyTypes, PeerType
<1>4. Head(reads[e][x]) = Len(got[e][x]) + 1 /\ Len(got[e][x]) + 1 <= Taken(e, x) /\ Len(got[e][x]) \in Nat
  <2>1. /\ Len(reads[e][x]) \in Nat /\ Len(got[e][x]) \in Nat /\ 1 \in 1..Len(reads[e][x])
        /\ Head(reads[e][x]) = reads[e][x][1]
    BY SMTT(30), <1>1, <1>3
  <2>2. reads[e][x][1] = Len(got[e][x]) + 1
    BY ZenonT(60), <1>2, <2>1 DEF OrderInv, InOrder
  <2>3. Len(got[e][x]) + 1 <= Taken(e, x)
    BY ZenonT(60), <1>1, <1>3, TotalMore DEF Taken
  <2> QED BY ZenonT(60), <2>1, <2>2, <2>3
<1>5. Len(got[e][x]) < sent[Peer(e)][x]
  BY <1>2, <1>3, <1>4 DEF OrderInv
<1>6. outcome[e][x] = "open" /\ UNCHANGED outcome
  BY SMTT(30), <1>1, <1>2, OutcomeAt, OutcomeStep DEF Result
<1>7. got' = [got EXCEPT ![e][x] = Append(@, Len(@) + 1)]
  BY ZenonT(60), <1>1, <1>4
<1> QED BY ZenonT(60), <1>1, <1>5, <1>6, <1>7 DEF Pipes!Receive

LEMMA EndIsPipe ==
  ASSUME IInv, NEW e \in Ends, NEW x \in Ids, Read(e, x) \/ ReadSelect(e, x), got' = got
  PROVE  Pipes!EndOfFile(e, x) \/ Pipes!Fail(e, x) \/ UNCHANGED <<sent, got, outcome>>
<1>1. TypeOK /\ OrderInv(e, x) /\ CloseInv(e, x)
  BY DEF IInv, CopiesInv
<1>2. UNCHANGED sent /\ outcome[e][x] = "open" /\ [outcome EXCEPT ![e][x] = "open"] = outcome
  BY ZenonT(60), OutcomeAt DEF Read, ReadSelect
<1>3. CASE SetReader(e, x, "err")
  <2>1. outcome' = [outcome EXCEPT ![e][x] = "err"]
    BY ZenonT(60), <1>1, <1>3, OutcomeStep DEF Result
  <2> QED BY <1>2, <2>1 DEF Pipes!Fail
<1>4. CASE SetReader(e, x, "select") \/ SetReader(e, x, "idle")
  <2>1. UNCHANGED outcome
    BY ZenonT(60), <1>1, <1>2, <1>4, OutcomeStep DEF Result
  <2> QED BY ZenonT(60), <1>2, <2>1
<1>5. CASE SetReader(e, x, "eof") /\ reads[e][x] = <<>> /\ x \in remoteEOF[e] /\ x \notin closed[e]
  <2>1. outcome' = [outcome EXCEPT ![e][x] = "eof"]
    BY ZenonT(60), <1>1, <1>5, OutcomeStep DEF Result
  <2>2. Taken(e, x) = sent[Peer(e)][x]
    BY ZenonT(60), <1>1, <1>5 DEF CloseInv
  <2>3. Taken(e, x) = Len(got[e][x])
    BY ZenonT(60), <1>1, <1>5, CopyTypes, TotalType DEF Taken
  <2> QED BY ZenonT(60), <1>2, <2>1, <2>2, <2>3 DEF Pipes!EndOfFile
<1> QED BY ZenonT(60), <1>3, <1>4, <1>5 DEF Read, ReadSelect, atEnd, endOfReads

\* Every step of the session is a step of the pipes, or changes nothing of them.
LEMMA StepIsPipe ==
  ASSUME IInv, [Next]_vars
  PROVE  [Pipes!Next]_(Pipes!pipeVars)
<1> DEFINE Quiet == UNCHANGED <<sent, got, reader>>
<1>1. CASE Quiet
  BY ZenonT(60), <1>1 DEF Pipes!pipeVars, outcome
<1> HIDE DEF Quiet
<1>2. ASSUME NEW e \in Ends, NEW x \in Ids, WriteChunk(e, x)
      PROVE  [Pipes!Next]_(Pipes!pipeVars)
  <2>1. CASE sent' # sent
    BY ZenonT(60), <1>2, <2>1, SendIsPipe DEF Pipes!Next
  <2>2. CASE sent' = sent
    BY ZenonT(60), <1>1, <1>2, <2>2 DEF WriteChunk, Quiet
  <2> QED BY ZenonT(60), <2>1, <2>2
<1>3. ASSUME NEW e \in Ends, NEW x \in Ids, Read(e, x) \/ ReadSelect(e, x)
      PROVE  [Pipes!Next]_(Pipes!pipeVars)
  <2>1. CASE got' # got
    <3>1. ReadSelect(e, x)
      BY ZenonT(60), <1>3, <2>1 DEF Read
    <3> QED BY ZenonT(60), <2>1, <3>1, ReceiveIsPipe DEF Pipes!Next
  <2>2. CASE got' = got
    BY ZenonT(60), <1>3, <2>2, EndIsPipe DEF Pipes!Next, Pipes!pipeVars
  <2> QED BY <2>1, <2>2
<1>4. ASSUME NEW e \in Ends, NEW x \in Ids, Write(e, x) \/ WriteNext(e, x) \/ CloseWrite(e, x)
      PROVE  Quiet
  BY ZenonT(60), <1>4 DEF Write, WriteNext, CloseWrite, Quiet
<1>5. ASSUME NEW x \in Ids, Open(x) \/ OpenWrite(x) \/ OpenSelect(x) \/ OpenCancel(x)
                            \/ DispatchOverflow(x) \/ dispatchLoop(x) \/ Accept(x) \/ Reject(x)
      PROVE  Quiet
  BY ZenonT(60), <1>5 DEF Open, OpenWrite, OpenSelect, OpenCancel, DispatchOverflow, dispatchLoop, Accept, Reject, Quiet
<1>6. ASSUME NEW e \in Ends, readLoop(e)
      PROVE  Quiet
  BY ZenonT(60), <1>6 DEF readLoop, ReadError, ReadControl, ReadData, Deliver, ReadClose, ReadErrorFrame, ReadOpen,
              ReadOpenAck, Quiet, appVars
<1>7. ASSUME NEW e \in Ends, ShutdownNext(e) \/ WriteJSON(e) \/ Close(e) \/ CloseConn(e) \/ SetControlHandler(e)
      PROVE  Quiet
  BY ZenonT(60), <1>7 DEF ShutdownNext, WriteJSON, Close, CloseConn, SetControlHandler, Quiet, appVars
<1>8. CASE Break \/ UNCHANGED vars
  BY <1>1, <1>8 DEF Break, Quiet, vars, appVars
<1> QED BY ZenonT(60), <1>1, <1>2, <1>3, <1>4, <1>5, <1>6, <1>7, <1>8 DEF Next

\* Every stream of a session is a pair of pipes: nothing is sent behind the end
\* of file, what is received is what was sent, and an outcome is final.
THEOREM SessionImplementsPipes == Spec => ImplementsPipes
<1>1. Init => Pipes!Init
  BY DEF Init, Pipes!Init, outcome
<1>2. IInv /\ [Next]_vars => [Pipes!Next]_(Pipes!pipeVars)
  BY StepIsPipe
<1> QED BY <1>1, <1>2, Inductive, PTL DEF Spec, ImplementsPipes, Pipes!Spec
=============================================================================
