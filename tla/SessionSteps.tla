---------------------------- MODULE SessionSteps ----------------------------
(***************************************************************************)
(* Lemmas about Session: the types, what a frame put on a wire or taken    *)
(* from it does to the frames on their way, the inductive invariant, and   *)
(* what a step does to the variables the invariant relates.                *)
(***************************************************************************)
EXTENDS Session, TLAPS

-----------------------------------------------------------------------------
(* Types                                                                   *)

LEMMA PeerType ==
  ASSUME NEW e \in Ends
  PROVE  Peer(e) \in Ends /\ Peer(e) # e /\ Peer(Peer(e)) = e /\ \A d \in Ends : d \in {e, Peer(e)}
  BY DEF Peer, Ends

LEMMA FrameType ==
  ASSUME NEW x \in Ids, NEW n \in Nat
  PROVE  /\ \A t \in {"Open", "OpenAck", "Data", "Close", "Error"} : F(t, x, n) \in Frame
         /\ F("Control", 0, 0) \in Frame
  BY DEF F, Frame

LEMMA HeadType ==
  ASSUME wire \in [Ends -> Seq(Frame)], NEW e \in Ends, NEW t, Arrives(e, t), t # "Control"
  PROVE  Head(wire[e]).id \in Ids /\ Head(wire[e]).n \in Nat
<1>1. Head(wire[e]) \in Frame /\ Head(wire[e]).type # "Control"
  BY DEF Arrives
<1> QED BY <1>1 DEF Frame

LEMMA PutType ==
  ASSUME wire \in [Ends -> Seq(Frame)], NEW e \in Ends, NEW f \in Frame,
         Put(e, f) \/ PutUnlessClosed(e, f)
  PROVE  wire' \in [Ends -> Seq(Frame)]
<1>1. Append(wire[Peer(e)], f) \in Seq(Frame)
  BY PeerType
<1>2. CASE Put(e, f)
  BY <1>1, <1>2, PeerType DEF Put
<1> QED BY <1>2 DEF PutUnlessClosed

LEMMA TakeType ==
  ASSUME wire \in [Ends -> Seq(Frame)], NEW e \in Ends, wire[e] # <<>>, Take(e)
  PROVE  wire' \in [Ends -> Seq(Frame)]
<1>1. Tail(wire[e]) \in Seq(Frame)
  OBVIOUS
<1> QED BY <1>1 DEF Take

LEMMA AnswerType ==
  ASSUME wire \in [Ends -> Seq(Frame)], NEW e \in Ends, NEW f \in Frame, wire[e] # <<>>, Answer(e, f)
  PROVE  wire' \in [Ends -> Seq(Frame)]
<1>1. Tail(wire[e]) \in Seq(Frame) /\ Append(wire[Peer(e)], f) \in Seq(Frame)
  BY PeerType
<1> QED BY ZenonT(60), <1>1, PeerType DEF Answer

LEMMA CloseType ==
  ASSUME closed \in [Ends -> SUBSET Ids], remoteEOF \in [Ends -> SUBSET Ids],
         streams \in [Ends -> SUBSET Ids], NEW e \in Ends, NEW S \in SUBSET Ids, forceClose(e, S)
  PROVE  /\ closed' \in [Ends -> SUBSET Ids] /\ remoteEOF' \in [Ends -> SUBSET Ids]
         /\ streams' \in [Ends -> SUBSET Ids]
  BY DEF forceClose

LEMMA ShutdownType ==
  ASSUME sclosed \in [Ends -> BOOLEAN], todo \in [Ends -> SUBSET Ids],
         streams \in [Ends -> SUBSET Ids], NEW e \in Ends, shutdown(e)
  PROVE  sclosed' \in [Ends -> BOOLEAN] /\ todo' \in [Ends -> SUBSET Ids]
  BY ZenonT(60) DEF shutdown, streamsCopy

\* TypeOK in the groups that the actions leave unchanged together.
WireT == wire \in [Ends -> Seq(Frame)]
ConnT == load \in Load /\ conn \in [Ends -> BOOLEAN] /\ broken \in BOOLEAN
SessT ==
  /\ sclosed \in [Ends -> BOOLEAN] /\ todo \in [Ends -> SUBSET Ids] /\ closing \in [Ends -> BOOLEAN]
  /\ control \in [Ends -> BOOLEAN] /\ ctl \in [Ends -> Nat] /\ panicked \in [Ends -> BOOLEAN]
LoopT ==
  /\ loop \in [Ends -> {"read", "deliver", "stopped"}]
  /\ held \in [Ends -> [id : Ids \cup {0}, n : Nat]]
CloseT ==
  /\ streams \in [Ends -> SUBSET Ids] /\ closed \in [Ends -> SUBSET Ids]
  /\ remoteEOF \in [Ends -> SUBSET Ids]
ChanT ==
  /\ localEOF \in [Ends -> SUBSET Ids] /\ reads \in [Ends -> [Ids -> Seq(Nat)]]
  /\ ack \in [Ids -> {"none", "ok", "nok"}]
OpenT ==
  /\ opener \in [Ids -> {"idle", "registered", "waiting", "open", "failed", "cancelled"}]
  /\ handler \in [Ids -> {"none", "incoming", "overflow", "handling", "accepted", "ended"}]
CopyT ==
  /\ writer \in [Ends -> [Ids -> {"idle", "next", "chunk", "done"}]]
  /\ reader \in [Ends -> [Ids -> {"idle", "select", "eof", "err"}]]
  /\ sent \in [Ends -> [Ids -> Nat]] /\ got \in [Ends -> [Ids -> Seq(Nat)]]

LEMMA Parts == TypeOK <=> WireT /\ ConnT /\ SessT /\ LoopT /\ CloseT /\ ChanT /\ OpenT /\ CopyT
  BY ZenonT(60) DEF TypeOK, WireT, ConnT, SessT, LoopT, CloseT, ChanT, OpenT, CopyT

LEMMA PartsNext ==
  ASSUME WireT', ConnT', SessT', LoopT', CloseT', ChanT', OpenT', CopyT'
  PROVE  TypeOK'
  BY DEF TypeOK, WireT, ConnT, SessT, LoopT, CloseT, ChanT, OpenT, CopyT

\* What is left unchanged keeps its type.
LEMMA Same ==
  ASSUME TypeOK
  PROVE  /\ UNCHANGED wire => WireT'
         /\ UNCHANGED connVars => ConnT'
         /\ UNCHANGED sessVars => SessT'
         /\ UNCHANGED loopVars => LoopT'
         /\ UNCHANGED closeVars => CloseT'
         /\ UNCHANGED chanVars => ChanT'
         /\ UNCHANGED <<opener, handler>> => OpenT'
         /\ UNCHANGED <<writer, reader, sent, got>> => CopyT'
<1> USE Parts
<1>1. UNCHANGED wire => WireT'
  BY DEF WireT
<1>2. UNCHANGED connVars => ConnT'
  BY DEF ConnT, connVars
<1>3. UNCHANGED sessVars => SessT'
  BY DEF SessT, sessVars
<1>4. UNCHANGED loopVars => LoopT'
  BY DEF LoopT, loopVars
<1>5. UNCHANGED closeVars => CloseT'
  BY DEF CloseT, closeVars
<1>6. UNCHANGED chanVars => ChanT'
  BY DEF ChanT, chanVars
<1>7. UNCHANGED <<opener, handler>> => OpenT'
  BY DEF OpenT
<1>8. UNCHANGED <<writer, reader, sent, got>> => CopyT'
  BY DEF CopyT
<1> QED BY <1>1, <1>2, <1>3, <1>4, <1>5, <1>6, <1>7, <1>8

LEMMA AppSame ==
  ASSUME UNCHANGED appVars
  PROVE  UNCHANGED <<opener, handler, writer, reader, sent, got>>
  BY DEF appVars

LEMMA InitType == Init => TypeOK
<1> SUFFICES ASSUME Init PROVE TypeOK
  OBVIOUS
<1>1. WireT /\ LoopT
  BY DEF Init, WireT, LoopT, NoFrame
<1>2. ConnT
  BY ZenonT(60), SessionAssumption DEF Init, ConnT
<1>3. SessT
  BY <1>2 DEF Init, SessT, ConnT, handlerAtStart
<1>4. CloseT /\ ChanT
  BY DEF Init, CloseT, ChanT
<1>5. OpenT /\ CopyT
  BY DEF Init, OpenT, CopyT
<1> QED BY Parts, <1>1, <1>2, <1>3, <1>4, <1>5

LEMMA EndType ==
  ASSUME TypeOK, NEW e \in Ends,
         ShutdownNext(e) \/ Close(e) \/ CloseConn(e) \/ SetControlHandler(e) \/ WriteJSON(e)
  PROVE  TypeOK'
<1> USE Parts, PartsNext
<1>1. CASE ShutdownNext(e)
  <2>1. PICK x \in todo[e] : forceClose(e, {x}) /\ todo' = [todo EXCEPT ![e] = @ \ {x}]
    BY ZenonT(60), <1>1 DEF ShutdownNext
  <2>2. {x} \in SUBSET Ids
    BY <2>1 DEF SessT
  <2>3. CloseT'
    BY <2>1, <2>2, CloseType DEF CloseT
  <2>4. SessT'
    BY <1>1, <2>1 DEF ShutdownNext, SessT
  <2> QED BY <1>1, <2>3, <2>4, Same, AppSame DEF ShutdownNext
<1>2. CASE Close(e)
  <2>1. SessT'
    BY <1>2, ShutdownType DEF Close, SessT, CloseT
  <2> QED BY ZenonT(60), <1>2, <2>1, Same, AppSame DEF Close
<1>3. CASE CloseConn(e)
  <2>1. ConnT'
    BY <1>3 DEF CloseConn, ConnT
  <2> QED BY ZenonT(60), <1>3, <2>1, Same, AppSame DEF CloseConn
<1>4. CASE SetControlHandler(e)
  <2>1. SessT'
    BY ZenonT(60), <1>4 DEF SetControlHandler, SessT
  <2> QED BY <1>4, <2>1, Same, AppSame DEF SetControlHandler
<1>5. CASE WriteJSON(e)
  <2>1. F("Control", 0, 0) \in Frame
    BY ZenonT(60) DEF F, Frame
  <2>2. WireT'
    BY <1>5, <2>1, PutType DEF WriteJSON, WireT
  <2>3. SessT'
    BY <1>5 DEF WriteJSON, SessT
  <2> QED BY <1>5, <2>2, <2>3, Same, AppSame DEF WriteJSON
<1> QED BY ZenonT(60), <1>1, <1>2, <1>3, <1>4, <1>5

LEMMA OpenType ==
  ASSUME TypeOK, NEW x \in Ids,
         \/ Open(x) \/ OpenWrite(x) \/ OpenSelect(x) \/ OpenCancel(x)
         \/ DispatchOverflow(x) \/ dispatchLoop(x) \/ Accept(x) \/ Reject(x)
  PROVE  TypeOK'
<1> USE Parts, PartsNext
<1>0. {x} \in SUBSET Ids /\ "opener" \in Ends /\ "acceptor" \in Ends
  BY DEF Ends
<1>a. \A e \in Ends : forceClose(e, {x}) => CloseT'
  BY <1>0, CloseType DEF CloseT
<1>b. \A e \in Ends, n \in {0, 1}, t \in {"Open", "OpenAck"} :
        Put(e, F(t, x, n)) \/ PutUnlessClosed(e, F(t, x, n)) => WireT'
  BY ZenonT(60), PutType, FrameType DEF WireT
<1>1. CASE Open(x)
  <2>1. OpenT' /\ CloseT'
    BY <1>0, <1>1 DEF Open, OpenT, CloseT
  <2> QED BY ZenonT(60), <1>1, <2>1, Same DEF Open
<1>2. CASE OpenWrite(x)
  <2>1. OpenT'
    BY ZenonT(60), <1>2 DEF OpenWrite, OpenT
  <2>2. WireT' /\ CloseT'
    BY ZenonT(60), <1>0, <1>a, <1>b, <1>2, Same DEF OpenWrite
  <2> QED BY ZenonT(60), <1>2, <2>1, <2>2, Same DEF OpenWrite
<1>3. CASE OpenSelect(x)
  <2>1. OpenT'
    BY ZenonT(60), <1>3 DEF OpenSelect, OpenT
  <2>2. CloseT'
    BY <1>0, <1>a, <1>3, Same DEF OpenSelect
  <2> QED BY ZenonT(60), <1>3, <2>1, <2>2, Same DEF OpenSelect
<1>4. CASE OpenCancel(x)
  <2>1. OpenT'
    BY ZenonT(60), <1>4 DEF OpenCancel, OpenT
  <2> QED BY <1>0, <1>a, <1>4, <2>1, Same DEF OpenCancel
<1>5. CASE DispatchOverflow(x)
  <2>1. OpenT'
    BY <1>5 DEF DispatchOverflow, OpenT
  <2>2. CloseT'
    BY <1>0, <1>a, <1>5, Same DEF DispatchOverflow
  <2> QED BY <1>5, <2>1, <2>2, Same DEF DispatchOverflow
<1>6. CASE dispatchLoop(x)
  <2>1. OpenT'
    BY ZenonT(60), <1>6 DEF dispatchLoop, OpenT
  <2> QED BY <1>6, <2>1, Same DEF dispatchLoop
<1>7. CASE Accept(x)
  <2>1. OpenT'
    BY ZenonT(60), <1>7 DEF Accept, OpenT
  <2>2. WireT' /\ CloseT'
    BY ZenonT(60), <1>0, <1>a, <1>b, <1>7, Same DEF Accept, openAck
  <2> QED BY SMTT(30), <1>7, <2>1, <2>2, Same DEF Accept
<1>8. CASE Reject(x)
  <2>1. OpenT'
    BY ZenonT(60), <1>8 DEF Reject, OpenT
  <2>2. WireT' /\ CloseT'
    BY <1>0, <1>a, <1>b, <1>8 DEF Reject, openAck
  <2> QED BY ZenonT(60), <1>8, <2>1, <2>2, Same DEF Reject
<1> QED BY <1>1, <1>2, <1>3, <1>4, <1>5, <1>6, <1>7, <1>8

LEMMA ReadLoopType ==
  ASSUME TypeOK, NEW e \in Ends, readLoop(e)
  PROVE  TypeOK'
<1> USE Parts, PartsNext
<1>0. "opener" \in Ends /\ "acceptor" \in Ends
  BY DEF Ends
<1>a. \A d \in Ends, S \in SUBSET Ids : forceClose(d, S) => CloseT'
  BY CloseType DEF CloseT
<1>b. \A d \in Ends : wire[d] # <<>> /\ Take(d) => WireT'
  BY TakeType DEF WireT
<1>c. \A d \in Ends, x \in Ids, t \in {"Close", "Error"} : wire[d] # <<>> /\ Answer(d, F(t, x, 0)) => WireT'
  BY ZenonT(60), AnswerType, FrameType DEF WireT
<1>1. CASE ReadError(e)
  <2>1. SessT'
    BY <1>1, ShutdownType DEF ReadError, SessT, CloseT
  <2>2. LoopT'
    BY SMTT(30), <1>1 DEF ReadError, LoopT
  <2> QED BY ZenonT(60), <1>1, <2>1, <2>2, Same, AppSame DEF ReadError
<1>2. CASE ReadData(e)
  <2>1. Head(wire[e]).id \in Ids /\ Head(wire[e]).n \in Nat /\ wire[e] # <<>>
    BY ZenonT(60), <1>2, HeadType DEF ReadData, Arrives, WireT
  <2>2. WireT'
    BY ZenonT(60), <1>b, <1>c, <1>2, <2>1 DEF ReadData
  <2>3. LoopT'
    <3>1. CASE UNCHANGED loopVars
      BY ZenonT(60), <3>1, Same
    <3>2. CASE /\ loop' = [loop EXCEPT ![e] = "deliver"]
               /\ held' = [held EXCEPT ![e] = [id |-> Head(wire[e]).id, n |-> Head(wire[e]).n]]
      BY ZenonT(60), <2>1, <3>2 DEF LoopT
    <3> QED BY ZenonT(60), <1>2, <3>1, <3>2 DEF ReadData
  <2> QED BY ZenonT(60), <1>2, <2>2, <2>3, Same, AppSame DEF ReadData
<1>3. CASE Deliver(e)
  <2>1. LoopT'
    BY ZenonT(60), <1>3 DEF Deliver, LoopT, NoFrame
  <2>2. ConnT' /\ SessT'
    BY ZenonT(60), <1>3 DEF Deliver, ConnT, SessT
  <2>3. ChanT'
    <3>1. held[e].n \in Nat /\ held[e].id \in Ids \cup {0}
      BY ZenonT(60) DEF LoopT
    <3>2. CASE UNCHANGED reads
      BY ZenonT(60), <1>3, <3>2 DEF Deliver, ChanT
    <3>3. CASE reads' = [reads EXCEPT ![e][held[e].id] = Append(@, held[e].n)]
      <4>1. held[e].id \in Ids => Append(reads[e][held[e].id], held[e].n) \in Seq(Nat)
        BY <3>1 DEF ChanT
      <4>2. reads' \in [Ends -> [Ids -> Seq(Nat)]]
        BY ZenonT(60), <3>1, <3>3, <4>1 DEF ChanT
      <4> QED BY ZenonT(60), <1>3, <4>2 DEF Deliver, ChanT
    <3> QED BY ZenonT(60), <1>3, <3>2, <3>3 DEF Deliver
  <2> QED BY <1>3, <2>1, <2>2, <2>3, Same, AppSame DEF Deliver
<1>4. CASE ReadClose(e)
  <2>1. Head(wire[e]).id \in Ids /\ wire[e] # <<>>
    BY ZenonT(60), <1>4, HeadType DEF ReadClose, Arrives, WireT
  <2>2. CloseT'
    BY ZenonT(60), <1>4, <2>1 DEF ReadClose, remoteClose, CloseT
  <2> QED BY ZenonT(60), <1>b, <1>4, <2>1, <2>2, Same, AppSame DEF ReadClose
<1>5. CASE ReadErrorFrame(e)
  <2>1. Head(wire[e]).id \in Ids /\ wire[e] # <<>>
    BY ZenonT(60), <1>5, HeadType DEF ReadErrorFrame, Arrives, WireT
  <2>2. {Head(wire[e]).id} \cap streams[e] \in SUBSET Ids
    BY ZenonT(60), <2>1
  <2> QED BY ZenonT(60), <1>a, <1>b, <1>5, <2>1, <2>2, Same, AppSame DEF ReadErrorFrame
<1>6. CASE ReadControl(e)
  <2>1. WireT'
    BY ZenonT(60), <1>b, <1>6 DEF ReadControl, Arrives
  <2>2. SessT'
    BY <1>6, ShutdownType DEF ReadControl, SessT, CloseT
  <2>3. LoopT'
    BY ZenonT(60), <1>6 DEF ReadControl, LoopT
  <2> QED BY SMTT(30), <1>6, <2>1, <2>2, <2>3, Same, AppSame DEF ReadControl
<1>7. CASE ReadOpen
  <2>1. Head(wire["acceptor"]).id \in Ids /\ wire["acceptor"] # <<>>
    BY SMTT(30), <1>0, <1>7, HeadType DEF ReadOpen, Arrives, WireT
  <2>2. WireT'
    BY ZenonT(60), <1>0, <1>b, <1>c, <1>7, <2>1 DEF ReadOpen
  <2>3. {Head(wire["acceptor"]).id} \in SUBSET Ids
    BY SMTT(30), <2>1
  <2>4. CloseT'
    <3>1. CASE UNCHANGED closeVars
      BY ZenonT(60), <3>1, Same
    <3>2. CASE forceClose("acceptor", {Head(wire["acceptor"]).id})
      BY ZenonT(60), <1>0, <1>a, <2>3, <3>2
    <3>3. CASE /\ streams' = [streams EXCEPT !["acceptor"] = @ \cup {Head(wire["acceptor"]).id}]
               /\ UNCHANGED <<closed, remoteEOF>>
      BY ZenonT(60), <1>0, <2>1, <3>3 DEF CloseT
    <3> QED BY ZenonT(60), <1>7, <3>1, <3>2, <3>3 DEF ReadOpen
  <2>5. OpenT'
    BY ZenonT(60), <1>7, <2>1 DEF ReadOpen, OpenT, Dispatched
  <2> QED BY ZenonT(60), <1>7, <2>2, <2>4, <2>5, Same DEF ReadOpen
<1>8. CASE ReadOpenAck
  <2>1. wire["opener"] # <<>>
    BY SMTT(30), <1>8 DEF ReadOpenAck, Arrives
  <2>2. ChanT'
    BY ZenonT(60), <1>8 DEF ReadOpenAck, ChanT, ackOf
  <2> QED BY ZenonT(60), <1>0, <1>b, <1>8, <2>1, <2>2, Same, AppSame DEF ReadOpenAck
<1> QED BY <1>1, <1>2, <1>3, <1>4, <1>5, <1>6, <1>7, <1>8 DEF readLoop

LEMMA CopyType ==
  ASSUME TypeOK, NEW e \in Ends, NEW x \in Ids,
         \/ Write(e, x) \/ WriteNext(e, x) \/ WriteChunk(e, x)
         \/ CloseWrite(e, x) \/ Read(e, x) \/ ReadSelect(e, x)
  PROVE  TypeOK'
<1> USE Parts, PartsNext
<1>0. {x} \in SUBSET Ids
  BY ZenonT(60)
<1>a. forceClose(e, {x}) => CloseT'
  BY ZenonT(60), <1>0, CloseType DEF CloseT
<1>w. \A pc \in {"idle", "next", "chunk", "done"} :
        SetWriter(e, x, pc) => writer' \in [Ends -> [Ids -> {"idle", "next", "chunk", "done"}]]
  BY DEF SetWriter, CopyT
<1>r. \A pc \in {"idle", "select", "eof", "err"} :
        SetReader(e, x, pc) => reader' \in [Ends -> [Ids -> {"idle", "select", "eof", "err"}]]
  BY DEF SetReader, CopyT
<1>b. \A pc \in {"idle", "next", "chunk", "done"} :
        SetWriter(e, x, pc) /\ UNCHANGED <<reader, sent, got>> => CopyT'
  BY ZenonT(60), <1>w DEF CopyT
<1>1. CASE Write(e, x)
  BY SMTT(30), <1>b, <1>1, Same DEF Write
<1>2. CASE WriteNext(e, x)
  BY ZenonT(60), <1>a, <1>b, <1>2, Same DEF WriteNext
<1>3. CASE WriteChunk(e, x)
  <2>1. sent[e][x] + 1 \in Nat
    BY DEF CopyT
  <2>2. CASE Put(e, F("Data", x, sent[e][x] + 1)) /\ UNCHANGED closeVars
             /\ sent' = [sent EXCEPT ![e][x] = @ + 1]
             /\ (SetWriter(e, x, "idle") \/ SetWriter(e, x, "next"))
    <3>1. WireT'
      BY ZenonT(60), <2>1, <2>2, FrameType, PutType DEF WireT
    <3>2. CopyT'
      <4>1. sent' \in [Ends -> [Ids -> Nat]] /\ UNCHANGED <<reader, got>>
        BY ZenonT(60), <1>3, <2>1, <2>2 DEF WriteChunk, CopyT
      <4>2. writer' \in [Ends -> [Ids -> {"idle", "next", "chunk", "done"}]]
        BY ZenonT(60), <1>w, <2>2
      <4> QED BY ZenonT(60), <4>1, <4>2 DEF CopyT
    <3> QED BY ZenonT(60), <1>3, <2>2, <3>1, <3>2, Same DEF WriteChunk
  <2>3. CASE SetWriter(e, x, "done") /\ forceClose(e, {x}) /\ UNCHANGED <<wire, sent>>
    BY SMTT(30), <1>a, <1>b, <1>3, <2>3, Same DEF WriteChunk
  <2> QED BY ZenonT(60), <1>3, <2>2, <2>3 DEF WriteChunk
<1>4. CASE CloseWrite(e, x)
  <2>1. F("Close", x, 0) \in Frame
    BY SMTT(30), FrameType
  <2>2. WireT'
    BY ZenonT(60), <1>4, <2>1, PutType, Same DEF CloseWrite, WireT
  <2>3. ChanT'
    <3>1. UNCHANGED <<reads, ack>>
      BY ZenonT(60), <1>4 DEF CloseWrite
    <3>2. localEOF' = localEOF \/ localEOF' = [localEOF EXCEPT ![e] = @ \cup {x}]
      BY ZenonT(60), <1>4 DEF CloseWrite
    <3>3. localEOF' \in [Ends -> SUBSET Ids]
      <4>1. CASE localEOF' = localEOF
        BY ZenonT(60), <4>1 DEF ChanT
      <4>2. CASE localEOF' = [localEOF EXCEPT ![e] = @ \cup {x}]
        BY ZenonT(60), <4>2 DEF ChanT
      <4> QED BY ZenonT(60), <3>2, <4>1, <4>2
    <3> QED BY SMTT(30), <3>1, <3>3 DEF ChanT
  <2> QED BY ZenonT(60), <1>b, <1>4, <2>2, <2>3, Same DEF CloseWrite
<1>5. CASE Read(e, x)
  <2>1. CopyT'
    BY ZenonT(60), <1>5 DEF Read, SetReader, CopyT
  <2> QED BY ZenonT(60), <1>5, <2>1, Same DEF Read
<1>6. CASE ReadSelect(e, x)
  <2>1. CASE reads[e][x] # <<>> /\ SetReader(e, x, "idle")
             /\ got' = [got EXCEPT ![e][x] = Append(@, Head(reads[e][x]))]
             /\ reads' = [reads EXCEPT ![e][x] = received(@)]
    <3>1. Head(reads[e][x]) \in Nat /\ Tail(reads[e][x]) \in Seq(Nat)
      BY <2>1 DEF ChanT
    <3>2. Append(got[e][x], Head(reads[e][x])) \in Seq(Nat)
      BY SMTT(30), <3>1 DEF CopyT
    <3>3. ChanT'
      BY ZenonT(60), <1>6, <2>1, <3>1 DEF ReadSelect, ChanT, received
    <3>4. CopyT'
      BY ZenonT(60), <1>6, <2>1, <3>2 DEF ReadSelect, SetReader, CopyT
    <3> QED BY ZenonT(60), <1>6, <3>3, <3>4, Same DEF ReadSelect
  <2>2. CASE (SetReader(e, x, endOfReads(e, x)) \/ SetReader(e, x, "err")) /\ UNCHANGED <<got, reads>>
    <3>1. CopyT'
      <4>1. endOfReads(e, x) \in {"eof", "err"}
        BY ZenonT(60) DEF endOfReads
      <4>2. reader' \in [Ends -> [Ids -> {"idle", "select", "eof", "err"}]]
        BY <1>r, <2>2, <4>1
      <4> QED BY SMTT(30), <1>6, <2>2, <4>2 DEF ReadSelect, CopyT
    <3>2. ChanT'
      BY ZenonT(60), <1>6, <2>2 DEF ReadSelect, ChanT
    <3> QED BY ZenonT(60), <1>6, <3>1, <3>2, Same DEF ReadSelect
  <2> QED BY ZenonT(60), <1>6, <2>1, <2>2 DEF ReadSelect
<1> QED BY <1>1, <1>2, <1>3, <1>4, <1>5, <1>6

LEMMA NextType ==
  ASSUME TypeOK, [Next]_vars
  PROVE  TypeOK'
<1>1. CASE Break
  <2>1. ConnT'
    BY ZenonT(60), <1>1, Parts DEF Break, ConnT
  <2> QED BY <1>1, <2>1, Parts, PartsNext, Same, AppSame DEF Break
<1>2. CASE UNCHANGED vars
  BY ZenonT(60), <1>2, Parts, PartsNext, Same, AppSame DEF vars
<1> QED BY ZenonT(60), <1>1, <1>2, EndType, OpenType, ReadLoopType, CopyType DEF Next

-----------------------------------------------------------------------------
(* Frames on their way: operators on one direction of the wire.            *)

Has(w, t, x) == \E i \in 1..Len(w) : w[i].type = t /\ w[i].id = x
HasAck(w, x) == \E i \in 1..Len(w) : w[i].type = "OpenAck" /\ w[i].id = x /\ w[i].n = 1
Once(w, x) ==
  \A i, j \in 1..Len(w) : w[i].type = "Open" /\ w[i].id = x /\ w[j].type = "Open" /\ w[j].id = x => i = j

\* Nothing was sent behind a Close.
CloseLast(w, x) ==
  \A i, j \in 1..Len(w) : w[i].type = "Close" /\ w[i].id = x /\ w[j].type = "Data" /\ w[j].id = x => j < i

\* The Data frames of x on w continue what has been taken off, b items, without
\* a gap and in order, up to m items; if c, nothing was lost.
Data(f, x) == f.type = "Data" /\ f.id = x
Linked(w, x, b, m, i) ==
  /\ b < w[i].n /\ w[i].n <= m
  /\ w[i].n = b + 1 \/ \E j \in 1..Len(w) : j < i /\ Data(w[j], x) /\ w[j].n + 1 = w[i].n
Chain(w, x, b, m) == \A i \in 1..Len(w) : Data(w[i], x) => Linked(w, x, b, m, i)
Distinct(w, x) == \A i, j \in 1..Len(w) : Data(w[i], x) /\ Data(w[j], x) /\ w[i].n = w[j].n => i = j
Complete(w, x, b, m) == b < m => \E j \in 1..Len(w) : Data(w[j], x) /\ w[j].n = m
Continues(w, x, b, m, c) == Chain(w, x, b, m) /\ Distinct(w, x) /\ (c => Complete(w, x, b, m))

LEMMA AppendFacts ==
  ASSUME NEW w \in Seq(Frame), NEW f \in Frame
  PROVE  /\ Len(Append(w, f)) = Len(w) + 1 /\ Len(w) \in Nat /\ Append(w, f)[Len(w) + 1] = f
         /\ \A i \in 1..Len(w) : i \in 1..Len(Append(w, f)) /\ Append(w, f)[i] = w[i] /\ i < Len(w) + 1
         /\ \A i \in 1..Len(Append(w, f)) : i \in 1..Len(w) \/ i = Len(w) + 1
  OBVIOUS

LEMMA TailFacts ==
  ASSUME NEW w \in Seq(Frame), w # <<>>
  PROVE  /\ Head(w) = w[1] /\ Len(w) \in Nat /\ Len(w) > 0 /\ 1 \in 1..Len(w)
         /\ Len(Tail(w)) = Len(w) - 1
         /\ \A i \in 1..Len(Tail(w)) : i + 1 \in 1..Len(w) /\ Tail(w)[i] = w[i + 1] /\ i + 1 # 1
         /\ \A i \in 1..Len(w) : i # 1 => i - 1 \in 1..Len(Tail(w)) /\ Tail(w)[i - 1] = w[i]
<1>1. /\ Head(w) = w[1] /\ Len(w) \in Nat /\ Len(w) > 0 /\ 1 \in 1..Len(w)
      /\ Len(Tail(w)) = Len(w) - 1
  OBVIOUS
<1>2. \A i \in 1..Len(Tail(w)) : i + 1 \in 1..Len(w) /\ Tail(w)[i] = w[i + 1] /\ i + 1 # 1
  OBVIOUS
<1> QED BY <1>1, <1>2

LEMMA NumberType ==
  ASSUME NEW w \in Seq(Frame), NEW x, NEW i \in 1..Len(w), Data(w[i], x)
  PROVE  w[i].n \in Nat
  BY DEF Data, Frame

LEMMA AppendHas ==
  ASSUME NEW w \in Seq(Frame), NEW f \in Frame, NEW t, NEW x, Has(Append(w, f), t, x)
  PROVE  Has(w, t, x) \/ (f.type = t /\ f.id = x)
  BY DEF Has

LEMMA AppendHasAck ==
  ASSUME NEW w \in Seq(Frame), NEW f \in Frame, NEW x, HasAck(Append(w, f), x)
  PROVE  HasAck(w, x) \/ (f.type = "OpenAck" /\ f.id = x /\ f.n = 1)
  BY DEF HasAck

LEMMA HasAppend ==
  ASSUME NEW w \in Seq(Frame), NEW f \in Frame, NEW t, NEW x, Has(w, t, x)
  PROVE  Has(Append(w, f), t, x)
<1>1. PICK i \in 1..Len(w) : w[i].type = t /\ w[i].id = x
  BY DEF Has
<1>2. i \in 1..Len(Append(w, f)) /\ Append(w, f)[i] = w[i]
  OBVIOUS
<1> QED BY <1>1, <1>2 DEF Has

LEMMA AppendOnce ==
  ASSUME NEW w \in Seq(Frame), NEW f \in Frame, NEW x, Once(w, x),
         f.type = "Open" /\ f.id = x => ~Has(w, "Open", x)
  PROVE  Once(Append(w, f), x)
  BY DEF Once, Has

LEMMA AppendCloseLast ==
  ASSUME NEW w \in Seq(Frame), NEW f \in Frame, NEW x, CloseLast(w, x),
         Data(f, x) => ~Has(w, "Close", x)
  PROVE  CloseLast(Append(w, f), x)
  BY DEF CloseLast, Has, Data

LEMMA TailHas ==
  ASSUME NEW w \in Seq(Frame), w # <<>>
  PROVE  /\ \A t, x : Has(Tail(w), t, x) => Has(w, t, x)
         /\ \A x : HasAck(Tail(w), x) => HasAck(w, x)
         /\ \A x : Once(w, x) => Once(Tail(w), x)
         /\ \A x : CloseLast(w, x) => CloseLast(Tail(w), x)
<1>1. /\ Len(Tail(w)) = Len(w) - 1 /\ Len(w) \in Nat
      /\ \A i \in 1..Len(Tail(w)) : i + 1 \in 1..Len(w) /\ Tail(w)[i] = w[i + 1]
  OBVIOUS
<1>2. \A t, x : Has(Tail(w), t, x) => Has(w, t, x)
  BY <1>1 DEF Has
<1>3. \A x : HasAck(Tail(w), x) => HasAck(w, x)
  BY ZenonT(60), <1>1 DEF HasAck
<1>4. \A x : Once(w, x) => Once(Tail(w), x)
  BY <1>1 DEF Once
<1>5. \A x : CloseLast(w, x) => CloseLast(Tail(w), x)
  BY <1>1 DEF CloseLast
<1> QED BY <1>2, <1>3, <1>4, <1>5

\* The frame that is taken was on the wire, and no Open or Data frame like it
\* is left behind it.
LEMMA HeadHas ==
  ASSUME NEW w \in Seq(Frame), w # <<>>
  PROVE  /\ Has(w, Head(w).type, Head(w).id)
         /\ Head(w).type = "OpenAck" /\ Head(w).n = 1 => HasAck(w, Head(w).id)
         /\ \A x : Once(w, x) /\ Head(w).type = "Open" /\ Head(w).id = x => ~Has(Tail(w), "Open", x)
         /\ \A x : CloseLast(w, x) /\ Head(w).type = "Close" /\ Head(w).id = x => ~Has(w, "Data", x)
<1>1. Head(w) = w[1] /\ 1 \in 1..Len(w)
  OBVIOUS
<1>2. /\ Len(Tail(w)) = Len(w) - 1 /\ Len(w) \in Nat
      /\ \A i \in 1..Len(Tail(w)) : i + 1 \in 1..Len(w) /\ i + 1 # 1 /\ Tail(w)[i] = w[i + 1]
  OBVIOUS
<1>3. Has(w, Head(w).type, Head(w).id) /\ (Head(w).type = "OpenAck" /\ Head(w).n = 1 => HasAck(w, Head(w).id))
  BY <1>1 DEF Has, HasAck
<1>4. \A x : Once(w, x) /\ Head(w).type = "Open" /\ Head(w).id = x => ~Has(Tail(w), "Open", x)
  BY <1>1, <1>2 DEF Once, Has
<1>5. \A x : CloseLast(w, x) /\ Head(w).type = "Close" /\ Head(w).id = x => ~Has(w, "Data", x)
  BY <1>1, <1>2 DEF CloseLast, Has
<1> QED BY <1>3, <1>4, <1>5

LEMMA AppendOther ==
  ASSUME NEW w \in Seq(Frame), NEW f \in Frame, NEW x, ~Data(f, x),
         NEW b \in Nat, NEW m \in Nat, NEW c \in BOOLEAN, Continues(w, x, b, m, c)
  PROVE  Continues(Append(w, f), x, b, m, c)
<1> DEFINE v == Append(w, f)
<1>1. /\ Len(v) = Len(w) + 1 /\ Len(w) \in Nat
      /\ \A i \in 1..Len(w) : i \in 1..Len(v) /\ v[i] = w[i]
      /\ \A i \in 1..Len(v) : Data(v[i], x) => i \in 1..Len(w)
  BY ZenonT(60), AppendFacts
<1> HIDE DEF v
<1>2. Chain(v, x, b, m)
  BY ZenonT(60), <1>1 DEF Continues, Chain, Linked
<1>3. Distinct(v, x)
  BY ZenonT(60), <1>1 DEF Continues, Distinct
<1>4. c => Complete(v, x, b, m)
  BY <1>1 DEF Continues, Complete
<1>5. Continues(v, x, b, m, c)
  BY <1>2, <1>3, <1>4 DEF Continues
<1> QED BY ZenonT(60), <1>5 DEF v

LEMMA AppendData ==
  ASSUME NEW w \in Seq(Frame), NEW x \in Ids, NEW b \in Nat, NEW m \in Nat, b <= m,
         NEW c \in BOOLEAN, Continues(w, x, b, m, TRUE)
  PROVE  Continues(Append(w, F("Data", x, m + 1)), x, b, m + 1, c)
<1>1. F("Data", x, m + 1) \in Frame /\ F("Data", x, m + 1).n = m + 1 /\ Data(F("Data", x, m + 1), x)
  <2>1. F("Data", x, m + 1) \in Frame
    BY FrameType
  <2> QED BY ZenonT(60), <2>1 DEF F, Data
<1> DEFINE f == F("Data", x, m + 1)
           v == Append(w, f)
<1>2. f \in Frame /\ f.n = m + 1 /\ Data(f, x)
  BY ZenonT(60), <1>1
<1> HIDE DEF f
<1>3. /\ Len(v) = Len(w) + 1 /\ Len(w) \in Nat /\ v[Len(w) + 1] = f
      /\ \A i \in 1..Len(w) : i \in 1..Len(v) /\ v[i] = w[i] /\ i < Len(w) + 1
      /\ \A i \in 1..Len(v) : i \in 1..Len(w) \/ i = Len(w) + 1
  BY ZenonT(60), <1>2, AppendFacts
<1> HIDE DEF v
<1>4. ASSUME NEW i \in 1..Len(v), Data(v[i], x) PROVE Linked(v, x, b, m + 1, i)
  <2>1. CASE i \in 1..Len(w)
    <3>1. v[i] = w[i] /\ w[i].n \in Nat /\ Linked(w, x, b, m, i)
      BY ZenonT(60), <1>3, <1>4, <2>1, NumberType DEF Continues, Chain
    <3> QED BY SMTT(30), <1>3, <2>1, <3>1 DEF Linked
  <2>2. CASE i = Len(w) + 1
    <3>1. v[i].n = m + 1
      BY ZenonT(60), <1>2, <1>3, <2>2
    <3>2. CASE b = m
      BY <3>1, <3>2 DEF Linked
    <3>3. CASE b < m
      <4>1. PICK j \in 1..Len(w) : Data(w[j], x) /\ w[j].n = m
        BY ZenonT(60), <3>3 DEF Continues, Complete
      <4> QED BY <1>3, <2>2, <3>1, <4>1 DEF Linked
    <3> QED BY <3>2, <3>3
  <2> QED BY ZenonT(60), <1>3, <2>1, <2>2
<1>5. ASSUME NEW i \in 1..Len(v), NEW j \in 1..Len(v), Data(v[i], x), Data(v[j], x), v[i].n = v[j].n
      PROVE  i = j
  <2>1. \A k \in 1..Len(w) : Data(w[k], x) => w[k].n <= m /\ w[k].n \in Nat
    BY ZenonT(60), NumberType DEF Continues, Chain, Linked
  <2> QED BY <1>2, <1>3, <1>5, <2>1 DEF Continues, Distinct
<1>6. Complete(v, x, b, m + 1)
  BY <1>2, <1>3 DEF Complete
<1>7. Continues(v, x, b, m + 1, c)
  BY ZenonT(60), <1>4, <1>5, <1>6 DEF Continues, Chain, Distinct
<1> QED BY ZenonT(60), <1>7 DEF v, f

LEMMA LostData ==
  ASSUME NEW w \in Seq(Frame), NEW x, NEW b \in Nat, NEW m \in Nat, NEW c \in BOOLEAN,
         Continues(w, x, b, m, c)
  PROVE  Continues(w, x, b, m + 1, FALSE) /\ Continues(w, x, b, m, FALSE)
<1>1. \A i \in 1..Len(w) : Data(w[i], x) /\ Linked(w, x, b, m, i) => Linked(w, x, b, m + 1, i)
  <2> SUFFICES ASSUME NEW i \in 1..Len(w), Data(w[i], x), Linked(w, x, b, m, i)
               PROVE  Linked(w, x, b, m + 1, i)
    OBVIOUS
  <2>1. w[i].n \in Nat
    BY ZenonT(60), NumberType
  <2> QED BY <2>1 DEF Linked
<1>2. Chain(w, x, b, m + 1)
  BY <1>1 DEF Continues, Chain
<1> QED BY ZenonT(60), <1>2 DEF Continues

LEMMA TailOther ==
  ASSUME NEW w \in Seq(Frame), w # <<>>, NEW x, ~Data(Head(w), x),
         NEW b \in Nat, NEW m \in Nat, NEW c \in BOOLEAN, Continues(w, x, b, m, c)
  PROVE  Continues(Tail(w), x, b, m, c)
<1> DEFINE v == Tail(w)
<1>1. /\ Len(v) = Len(w) - 1 /\ Len(w) \in Nat
      /\ \A i \in 1..Len(v) : i + 1 \in 1..Len(w) /\ v[i] = w[i + 1]
      /\ \A i \in 1..Len(w) : Data(w[i], x) => i - 1 \in 1..Len(v) /\ v[i - 1] = w[i]
  BY ZenonT(60), TailFacts
<1> HIDE DEF v
<1>2. ASSUME NEW i \in 1..Len(v), Data(v[i], x) PROVE Linked(v, x, b, m, i)
  <2>1. v[i] = w[i + 1] /\ Linked(w, x, b, m, i + 1)
    BY <1>1, <1>2 DEF Continues, Chain
  <2>2. ASSUME NEW j \in 1..Len(w), j < i + 1, Data(w[j], x), w[j].n + 1 = w[i + 1].n
        PROVE  Linked(v, x, b, m, i)
    <3>1. j - 1 \in 1..Len(v) /\ j - 1 < i /\ v[j - 1] = w[j]
      BY <1>1, <2>2
    <3> QED BY ZenonT(60), <2>1, <2>2, <3>1 DEF Linked
  <2>3. CASE w[i + 1].n = b + 1
    BY <2>1, <2>3 DEF Linked
  <2> QED BY ZenonT(60), <2>1, <2>2, <2>3 DEF Linked
<1>3. ASSUME NEW i \in 1..Len(v), NEW j \in 1..Len(v), Data(v[i], x), Data(v[j], x), v[i].n = v[j].n
      PROVE  i = j
  <2>1. /\ i + 1 \in 1..Len(w) /\ j + 1 \in 1..Len(w) /\ w[i + 1].n = w[j + 1].n
        /\ Data(w[i + 1], x) /\ Data(w[j + 1], x)
    BY ZenonT(60), <1>1, <1>3
  <2>2. i + 1 = j + 1
    BY <2>1 DEF Continues, Distinct
  <2> QED BY <2>2
<1>4. c => Complete(v, x, b, m)
  BY ZenonT(60), <1>1 DEF Continues, Complete
<1>5. Continues(v, x, b, m, c)
  BY ZenonT(60), <1>2, <1>3, <1>4 DEF Continues, Chain, Distinct
<1> QED BY ZenonT(60), <1>5 DEF v

LEMMA TailData ==
  ASSUME NEW w \in Seq(Frame), w # <<>>, NEW x, Data(Head(w), x),
         NEW b \in Nat, NEW m \in Nat, NEW c \in BOOLEAN, Continues(w, x, b, m, c)
  PROVE  Head(w).n = b + 1 /\ b + 1 <= m /\ Continues(Tail(w), x, b + 1, m, c)
<1> DEFINE v == Tail(w)
<1>1. /\ Head(w) = w[1] /\ 1 \in 1..Len(w) /\ Len(w) \in Nat
      /\ Len(v) = Len(w) - 1
      /\ \A i \in 1..Len(v) : i + 1 \in 1..Len(w) /\ v[i] = w[i + 1] /\ i + 1 # 1
      /\ \A i \in 1..Len(w) : i # 1 => i - 1 \in 1..Len(v) /\ v[i - 1] = w[i]
  BY ZenonT(60), TailFacts
<1>2. w[1].n \in Nat /\ Data(w[1], x) /\ Linked(w, x, b, m, 1)
  BY ZenonT(60), <1>1, NumberType DEF Continues, Chain
<1>3. w[1].n = b + 1 /\ b + 1 <= m
  BY <1>1, <1>2 DEF Linked
<1> HIDE DEF v
<1>4. ASSUME NEW i \in 1..Len(v), Data(v[i], x) PROVE Linked(v, x, b + 1, m, i)
  <2>1. /\ v[i] = w[i + 1] /\ w[i + 1].n \in Nat /\ Linked(w, x, b, m, i + 1)
        /\ i + 1 \in 1..Len(w) /\ i + 1 # 1
    BY ZenonT(60), <1>1, <1>4, NumberType DEF Continues, Chain
  <2>2. w[i + 1].n # w[1].n
    BY ZenonT(60), <1>1, <1>2, <1>4, <2>1 DEF Continues, Distinct
  <2>3. PICK j \in 1..Len(w) : j < i + 1 /\ Data(w[j], x) /\ w[j].n + 1 = w[i + 1].n
    <3>1. w[i + 1].n # b + 1
      BY ZenonT(60), <1>3, <2>2
    <3> QED BY ZenonT(60), <2>1, <3>1 DEF Linked
  <2>4. CASE j = 1
    BY <1>3, <2>1, <2>3, <2>4 DEF Linked
  <2>5. CASE j # 1
    <3>1. j - 1 \in 1..Len(v) /\ j - 1 < i /\ v[j - 1] = w[j]
      BY <1>1, <2>3, <2>5
    <3>2. b + 1 < v[i].n /\ v[i].n <= m
      BY <1>3, <2>1, <2>2 DEF Linked
    <3> QED BY ZenonT(60), <2>1, <2>3, <3>1, <3>2 DEF Linked
  <2> QED BY <2>4, <2>5
<1>5. ASSUME NEW i \in 1..Len(v), NEW j \in 1..Len(v), Data(v[i], x), Data(v[j], x), v[i].n = v[j].n
      PROVE  i = j
  <2>1. /\ i + 1 \in 1..Len(w) /\ j + 1 \in 1..Len(w) /\ w[i + 1].n = w[j + 1].n
        /\ Data(w[i + 1], x) /\ Data(w[j + 1], x)
    BY ZenonT(60), <1>1, <1>5
  <2>2. i + 1 = j + 1
    BY <2>1 DEF Continues, Distinct
  <2> QED BY <2>2
<1>6. c => Complete(v, x, b + 1, m)
  <2> SUFFICES ASSUME c, b + 1 < m PROVE \E j \in 1..Len(v) : Data(v[j], x) /\ v[j].n = m
    BY ZenonT(60) DEF Complete
  <2>1. PICK j \in 1..Len(w) : Data(w[j], x) /\ w[j].n = m
    BY DEF Continues, Complete
  <2>2. j # 1
    BY <1>3, <2>1
  <2> QED BY ZenonT(60), <1>1, <2>1, <2>2
<1>7. Continues(v, x, b + 1, m, c)
  BY ZenonT(60), <1>4, <1>5, <1>6 DEF Continues, Chain, Distinct
<1> QED BY ZenonT(60), <1>1, <1>3, <1>7 DEF v

-----------------------------------------------------------------------------
(* The inductive invariant                                                 *)

Est(e, x) == IF e = "opener" THEN opener[x] = "open" ELSE handler[x] = "accepted"
Known(e, x) == x \in streams[e] \/ x \in closed[e]

\* The Open frame of x was refused as invalid.
Dead(x) ==
  /\ handler[x] = "none" /\ ~Has(wire["acceptor"], "Open", x)
  /\ opener[x] \notin {"idle", "registered"}

\* End e will never have x established; it sends no more on x.
Never(e, x) ==
  IF e = "opener" THEN opener[x] \in {"failed", "cancelled"} \/ Dead(x) ELSE handler[x] = "ended"
Final(e, x) == writer[e][x] = "done" \/ Never(e, x)

\* shutdown has what it must still close in todo.
ShutInv(e) ==
  /\ sclosed[e] => streams[e] \subseteq todo[e]
  /\ ~sclosed[e] => todo[e] = {}
  /\ closed[e] \subseteq remoteEOF[e]

CauseInv(e) == e \in load.handlers => control[e] /\ (sclosed[e] => closing[e] \/ ~Up)

\* How far a request has come at the two ends and between them.
RegInv(x) ==
  /\ opener[x] \notin {"idle", "failed"} => Known("opener", x)
  /\ opener[x] \in {"idle", "registered"} => handler[x] = "none" /\ ~Has(wire["acceptor"], "Open", x)
  /\ handler[x] # "none" \/ Has(wire["acceptor"], "Open", x) => Known("opener", x)
  /\ handler[x] # "none" => Known("acceptor", x) /\ ~Has(wire["acceptor"], "Open", x)
  /\ Once(wire["acceptor"], x)
  /\ HasAck(wire["opener"], x) \/ ack[x] = "ok" \/ opener[x] = "open" => handler[x] = "accepted"

\* A stream that is closed though session and connection are up is one that was
\* cancelled, refused or rejected.
DeadInv(x) ==
  /\ ~Has(wire["acceptor"], "Error", x)
  /\ Has(wire["opener"], "Error", x) => Dead(x)
  /\ \A e \in Ends : x \in closed[e] /\ ~sclosed[e] /\ Up => Never(e, x)

\* The numbers that were read, g, and that wait to be read, r.
InOrder(g, r) ==
  /\ \A i \in 1..Len(g) : g[i] = i
  /\ \A i \in 1..Len(r) : r[i] = Len(g) + i
Total(g, r) == Len(g) + Len(r)

\* What end e has taken off the connection: read, buffered or held.
Taken(e, x) == Total(got[e][x], reads[e][x])
Holds(e, x) == loop[e] = "deliver" /\ held[e].id = x
Base(e, x) == IF Holds(e, x) THEN Taken(e, x) + 1 ELSE Taken(e, x)

SendInv(e, x) == sent[e][x] > 0 \/ writer[e][x] # "idle" => Est(e, x)

OrderInv(e, x) ==
  /\ InOrder(got[e][x], reads[e][x])
  /\ Taken(e, x) <= sent[Peer(e)][x]

\* While e still takes what arrives, the wire continues what e has.
ArriveInv(e, x) ==
  x \notin remoteEOF[e] =>
    /\ Base(e, x) <= sent[Peer(e)][x]
    /\ Holds(e, x) => held[e].n = Taken(e, x) + 1
    /\ Continues(wire[e], x, Base(e, x), sent[Peer(e)][x], Up \/ Has(wire[e], "Close", x))

\* A Close, and what e concludes from it, come after everything.
CloseInv(e, x) ==
  /\ Has(wire[e], "Data", x) => sent[Peer(e)][x] > 0
  /\ CloseLast(wire[e], x)
  /\ Has(wire[e], "Close", x) => Final(Peer(e), x)
  /\ x \in remoteEOF[e] /\ x \notin closed[e] => Taken(e, x) = sent[Peer(e)][x] /\ Final(Peer(e), x)
  /\ reader[e][x] = "eof" => Len(got[e][x]) = sent[Peer(e)][x] /\ Final(Peer(e), x)

EndsInv == \A e \in Ends : ShutInv(e) /\ CauseInv(e)
StreamsInv == \A x \in Ids : RegInv(x) /\ DeadInv(x)
CopiesInv == \A e \in Ends, x \in Ids : SendInv(e, x) /\ OrderInv(e, x) /\ ArriveInv(e, x) /\ CloseInv(e, x)
IInv == TypeOK /\ EndsInv /\ StreamsInv /\ CopiesInv


-----------------------------------------------------------------------------
(* What a step does, by the variables it changes                           *)

\* Why a stream is closed while the session is not.
Rejected(e, x) ==
  \/ IF e = "opener" THEN opener'[x] \in {"failed", "cancelled"} ELSE handler'[x] = "ended"
  \/ Has(wire[e], "Error", x)

\* The steps of the session's tables.
Closes(e) ==
  \E S \in SUBSET Ids :
    /\ forceClose(e, S) /\ UNCHANGED <<sclosed, todo>>
    /\ sclosed[e] \/ ~Up \/ \A x \in S : Rejected(e, x)
Registers(e) ==
  \E x \in Ids :
    /\ ~sclosed[e] /\ streams' = [streams EXCEPT ![e] = @ \cup {x}]
    /\ UNCHANGED <<sclosed, todo, closed, remoteEOF>>
CloseStep(e) ==
  \/ UNCHANGED <<sclosed, todo, closeVars>>
  \/ shutdown(e) /\ UNCHANGED closeVars
  \/ ShutdownNext(e)
  \/ Closes(e)
  \/ Registers(e)
  \/ ReadClose(e)

LEMMA ClosesOne ==
  ASSUME NEW e \in Ends, NEW x \in Ids, forceClose(e, {x}), UNCHANGED sessVars,
         sclosed[e] \/ ~Up \/ Rejected(e, x)
  PROVE  CloseStep(e)
<1>1. UNCHANGED <<sclosed, todo>>
  BY DEF sessVars
<1>2. Closes(e)
  BY <1>1 DEF Closes
<1> QED BY <1>2 DEF CloseStep

LEMMA CloseSteps ==
  ASSUME TypeOK, [Next]_vars
  PROVE  \E e \in Ends : CloseStep(e)
<1>0. "opener" \in Ends /\ "acceptor" \in Ends /\ wire \in [Ends -> Seq(Frame)]
  BY SMTT(30), Parts DEF Ends, WireT
<1> USE DEF sessVars
<1>1. ASSUME NEW x \in Ids, Open(x)
      PROVE  CloseStep("opener")
  BY ZenonT(60), <1>0, <1>1 DEF Open, openRefused, CloseStep, Registers, closeVars
<1>2. ASSUME NEW x \in Ids, OpenWrite(x)
      PROVE  CloseStep("opener")
  BY ZenonT(60), <1>0, <1>2, ClosesOne DEF OpenWrite, CloseStep
<1>3. ASSUME NEW x \in Ids, OpenSelect(x) \/ OpenCancel(x)
      PROVE  CloseStep("opener")
  <2>1. CASE UNCHANGED closeVars
    BY ZenonT(60), <1>3, <2>1 DEF OpenSelect, OpenCancel, CloseStep
  <2>2. CASE forceClose("opener", {x})
    <3>1. opener'[x] \in {"failed", "cancelled"} \/ UNCHANGED closeVars
      BY ZenonT(60), <1>3, Parts DEF OpenSelect, OpenCancel, OpenT
    <3>2. UNCHANGED sessVars
      BY ZenonT(60), <1>3 DEF OpenSelect, OpenCancel
    <3> QED BY ZenonT(60), <1>0, <2>1, <2>2, <3>1, <3>2, ClosesOne DEF Rejected
  <2> QED BY SMTT(30), <1>3, <2>1, <2>2 DEF OpenSelect, OpenCancel
<1>4. ASSUME NEW x \in Ids, DispatchOverflow(x) \/ dispatchLoop(x) \/ Accept(x) \/ Reject(x)
      PROVE  CloseStep("acceptor")
  <2>0. UNCHANGED sessVars
    BY ZenonT(60), <1>4 DEF DispatchOverflow, dispatchLoop, Accept, Reject
  <2>1. UNCHANGED closeVars \/ (forceClose("acceptor", {x}) /\ handler'[x] = "ended")
    BY ZenonT(60), <1>4, Parts DEF DispatchOverflow, dispatchLoop, Accept, Reject, OpenT
  <2>2. CASE UNCHANGED closeVars
    BY SMTT(30), <2>0, <2>2 DEF CloseStep
  <2>3. CASE forceClose("acceptor", {x}) /\ handler'[x] = "ended"
    BY ZenonT(60), <1>0, <2>0, <2>3, ClosesOne DEF Rejected
  <2> QED BY SMTT(30), <2>1, <2>2, <2>3
<1>5. ASSUME ReadOpen
      PROVE  CloseStep("acceptor")
  <2>1. Head(wire["acceptor"]).id \in Ids
    BY ZenonT(60), <1>0, <1>5, HeadType DEF ReadOpen
  <2>2. CASE forceClose("acceptor", {Head(wire["acceptor"]).id}) /\ sclosed["acceptor"]
    BY ZenonT(60), <1>0, <1>5, <2>1, <2>2, ClosesOne DEF ReadOpen
  <2> QED BY ZenonT(60), <1>5, <2>1, <2>2 DEF ReadOpen, CloseStep, Registers
<1>6. ASSUME NEW e \in Ends, ReadErrorFrame(e)
      PROVE  CloseStep(e)
  <2>1. PICK S \in SUBSET Ids : forceClose(e, S) /\ S \subseteq {Head(wire[e]).id}
    BY ZenonT(60), <1>0, <1>6, HeadType DEF ReadErrorFrame
  <2>2. Has(wire[e], "Error", Head(wire[e]).id)
    BY <1>0, <1>6, HeadHas DEF ReadErrorFrame, Arrives
  <2>3. UNCHANGED <<sclosed, todo>> /\ \A x \in S : Rejected(e, x)
    BY ZenonT(60), <1>6, <2>1, <2>2 DEF ReadErrorFrame, Rejected
  <2>4. Closes(e)
    BY <2>1, <2>3 DEF Closes
  <2> QED BY ZenonT(60), <2>4 DEF CloseStep
<1>7. ASSUME NEW e \in Ends, ReadClose(e)
      PROVE  CloseStep(e)
  BY <1>7 DEF CloseStep
<1>8. ASSUME NEW e \in Ends, ReadError(e) \/ ReadControl(e) \/ Close(e) \/ ShutdownNext(e)
      PROVE  CloseStep(e)
  BY ZenonT(60), <1>8 DEF ReadError, ReadControl, Close, CloseStep, closeVars
<1>9. ASSUME NEW e \in Ends, NEW x \in Ids, WriteNext(e, x) \/ WriteChunk(e, x)
      PROVE  CloseStep(e)
  <2>1. UNCHANGED closeVars \/ (forceClose(e, {x}) /\ (sclosed[e] \/ ~Up))
    BY ZenonT(60), <1>9 DEF WriteNext, WriteChunk
  <2>2. UNCHANGED sessVars
    BY ZenonT(60), <1>9 DEF WriteNext, WriteChunk
  <2> QED BY <1>9, <2>1, <2>2, ClosesOne DEF CloseStep
<1>10. ASSUME NEW e \in Ends, ReadOpenAck \/ ReadData(e) \/ Deliver(e) \/ CloseConn(e) \/ SetControlHandler(e)
                                \/ WriteJSON(e)
       PROVE  CloseStep(e)
  BY ZenonT(60), <1>10 DEF ReadOpenAck, ReadData, Deliver, CloseConn, SetControlHandler, WriteJSON, CloseStep
<1>11. ASSUME NEW e \in Ends, NEW x \in Ids, Write(e, x) \/ CloseWrite(e, x) \/ Read(e, x) \/ ReadSelect(e, x)
       PROVE  CloseStep(e)
  BY ZenonT(60), <1>11 DEF Write, CloseWrite, Read, ReadSelect, CloseStep
<1>12. CASE Break \/ UNCHANGED vars
  BY <1>0, <1>12 DEF Break, vars, CloseStep
<1> HIDE DEF sessVars
<1> QED BY ZenonT(60), <1>0, <1>1, <1>2, <1>3, <1>4, <1>5, <1>6, <1>7, <1>8, <1>9, <1>10, <1>11, <1>12 DEF Next, readLoop


\* Nothing that was closed is opened again.
LEMMA Monotone ==
  ASSUME TypeOK, [Next]_vars, NEW d \in Ends
  PROVE  /\ closed[d] \subseteq closed'[d] /\ remoteEOF[d] \subseteq remoteEOF'[d]
         /\ sclosed[d] => sclosed'[d]
         /\ \A x \in Ids : Known(d, x) => Known(d, x)'
<1>1. PICK e \in Ends : CloseStep(e)
  BY CloseSteps
<1>2. CloseT /\ SessT
  BY ZenonT(60), Parts
<1>3. CASE UNCHANGED <<sclosed, todo, closeVars>>
  BY SMTT(30), <1>3 DEF closeVars, Known
<1>4. CASE shutdown(e) /\ UNCHANGED closeVars
  BY ZenonT(60), <1>2, <1>4 DEF closeVars, Known, shutdown, SessT
<1>5. ASSUME NEW S \in SUBSET Ids, forceClose(e, S), UNCHANGED sclosed
      PROVE  /\ closed[d] \subseteq closed'[d] /\ remoteEOF[d] \subseteq remoteEOF'[d]
             /\ sclosed[d] => sclosed'[d]
             /\ \A x \in Ids : Known(d, x) => Known(d, x)'
  BY ZenonT(60), <1>2, <1>5 DEF CloseT, forceClose, Known
<1>6. CASE ShutdownNext(e)
  <2>1. PICK x \in Ids : forceClose(e, {x}) /\ UNCHANGED sclosed
    BY ZenonT(60), <1>2, <1>6 DEF ShutdownNext, SessT
  <2> QED BY <1>5, <2>1
<1>7. CASE Closes(e)
  BY ZenonT(60), <1>5, <1>7 DEF Closes
<1>8. CASE Registers(e)
  BY ZenonT(60), <1>2, <1>8 DEF Registers, CloseT, Known
<1>9. CASE ReadClose(e)
  BY <1>2, <1>9 DEF ReadClose, remoteClose, CloseT, sessVars, Known
<1> QED BY ZenonT(60), <1>1, <1>3, <1>4, <1>6, <1>7, <1>8, <1>9 DEF CloseStep

LEMMA NextShut ==
  ASSUME TypeOK, [Next]_vars, NEW d \in Ends, ShutInv(d)
  PROVE  ShutInv(d)'
<1>1. PICK e \in Ends : CloseStep(e)
  BY CloseSteps
<1>2. CloseT /\ SessT
  BY ZenonT(60), Parts
<1>3. CASE UNCHANGED <<sclosed, todo, closeVars>>
  BY ZenonT(60), <1>3 DEF closeVars, ShutInv
<1>4. CASE shutdown(e) /\ UNCHANGED closeVars
  <2>1. CASE UNCHANGED <<sclosed, todo>>
    BY ZenonT(60), <1>3, <1>4, <2>1
  <2>2. CASE ~sclosed[e]
    <3>1. sclosed' = [sclosed EXCEPT ![e] = TRUE] /\ todo' = [todo EXCEPT ![e] = streams[e]]
      BY <1>4, <2>2 DEF shutdown, streamsCopy
    <3>2. UNCHANGED <<streams, closed, remoteEOF>>
      BY ZenonT(60), <1>4 DEF closeVars
    <3> QED BY ZenonT(60), <1>2, <3>1, <3>2 DEF ShutInv, SessT, CloseT
  <2> QED BY <1>4, <2>1, <2>2 DEF shutdown
<1>5. ASSUME NEW S \in SUBSET Ids, forceClose(e, S), UNCHANGED <<sclosed, todo>>
      PROVE  ShutInv(d)'
  BY ZenonT(60), <1>2, <1>5 DEF CloseT, SessT, forceClose, ShutInv
<1>6. CASE ShutdownNext(e)
  <2>1. PICK x \in todo[e] : forceClose(e, {x}) /\ todo' = [todo EXCEPT ![e] = @ \ {x}] /\ UNCHANGED sclosed
    BY ZenonT(60), <1>6 DEF ShutdownNext
  <2> QED BY <1>2, <2>1 DEF CloseT, SessT, forceClose, ShutInv
<1>7. CASE Closes(e)
  BY ZenonT(60), <1>5, <1>7 DEF Closes
<1>8. CASE Registers(e)
  BY <1>2, <1>8 DEF Registers, CloseT, ShutInv
<1>9. CASE ReadClose(e)
  BY ZenonT(60), <1>2, <1>9 DEF ReadClose, remoteClose, CloseT, sessVars, ShutInv
<1> QED BY ZenonT(60), <1>1, <1>3, <1>4, <1>6, <1>7, <1>8, <1>9 DEF CloseStep

\* The steps of the connection and of the flags of the session.
LEMMA EndSteps ==
  ASSUME TypeOK, [Next]_vars
  PROVE  /\ UNCHANGED load /\ (~Up => ~Up')
         /\ \A d \in Ends : (closing[d] => closing'[d]) /\ (control[d] => control'[d])
         /\ \A d \in Ends : sclosed'[d] => sclosed[d] \/ closing'[d] \/ ~Up \/ ~control[d]
<1>1. ConnT /\ SessT
  BY ZenonT(60), Parts
<1> DEFINE Quiet == UNCHANGED <<load, conn, broken, sclosed, closing, control>>
<1>2. CASE Quiet
  BY ZenonT(60), <1>2 DEF Up
<1> HIDE DEF Quiet
<1>3. CASE Break
  BY ZenonT(60), <1>1, <1>3 DEF Break, Up, ConnT, sessVars
<1>4. ASSUME NEW e \in Ends, Close(e)
      PROVE  /\ UNCHANGED load /\ (~Up => ~Up')
             /\ \A d \in Ends : (closing[d] => closing'[d]) /\ (control[d] => control'[d])
             /\ \A d \in Ends : sclosed'[d] => sclosed[d] \/ closing'[d] \/ ~Up \/ ~control[d]
  BY ZenonT(60), <1>1, <1>4 DEF Close, shutdown, Up, ConnT, SessT, connVars
<1>5. ASSUME NEW e \in Ends, CloseConn(e)
      PROVE  /\ UNCHANGED load /\ (~Up => ~Up')
             /\ \A d \in Ends : (closing[d] => closing'[d]) /\ (control[d] => control'[d])
             /\ \A d \in Ends : sclosed'[d] => sclosed[d] \/ closing'[d] \/ ~Up \/ ~control[d]
  BY ZenonT(60), <1>1, <1>5 DEF CloseConn, Up, ConnT, SessT, sessVars
<1>6. ASSUME NEW e \in Ends, SetControlHandler(e)
      PROVE  /\ UNCHANGED load /\ (~Up => ~Up')
             /\ \A d \in Ends : (closing[d] => closing'[d]) /\ (control[d] => control'[d])
             /\ \A d \in Ends : sclosed'[d] => sclosed[d] \/ closing'[d] \/ ~Up \/ ~control[d]
  BY ZenonT(60), <1>1, <1>6 DEF SetControlHandler, Up, ConnT, SessT, connVars
<1>7. ASSUME NEW e \in Ends, ReadError(e) \/ ReadControl(e)
      PROVE  /\ UNCHANGED load /\ (~Up => ~Up')
             /\ \A d \in Ends : (closing[d] => closing'[d]) /\ (control[d] => control'[d])
             /\ \A d \in Ends : sclosed'[d] => sclosed[d] \/ closing'[d] \/ ~Up \/ ~control[d]
  <2>1. UNCHANGED <<load, conn, broken, closing, control>>
    BY ZenonT(60), <1>7 DEF ReadError, ReadControl, connVars
  <2>2. UNCHANGED sclosed \/ (shutdown(e) /\ (~Up \/ ~control[e]))
    BY ZenonT(60), <1>7 DEF ReadError, ReadControl
  <2> QED BY SMTT(30), <1>1, <2>1, <2>2 DEF Up, shutdown, SessT
<1>8. ASSUME NEW e \in Ends, Deliver(e)
      PROVE  /\ UNCHANGED load /\ (~Up => ~Up')
             /\ \A d \in Ends : (closing[d] => closing'[d]) /\ (control[d] => control'[d])
             /\ \A d \in Ends : sclosed'[d] => sclosed[d] \/ closing'[d] \/ ~Up \/ ~control[d]
  BY ZenonT(60), <1>1, <1>8 DEF Deliver, Up, ConnT, SessT
<1>9. ASSUME NEW x \in Ids, Open(x) \/ OpenWrite(x) \/ OpenSelect(x) \/ OpenCancel(x)
                            \/ DispatchOverflow(x) \/ dispatchLoop(x) \/ Accept(x) \/ Reject(x)
      PROVE  Quiet
  BY ZenonT(60), <1>9 DEF Open, OpenWrite, OpenSelect, OpenCancel, DispatchOverflow, dispatchLoop, Accept, Reject,
              Quiet, connVars, sessVars
<1>10. ASSUME NEW e \in Ends, NEW x \in Ids, Write(e, x) \/ WriteNext(e, x) \/ WriteChunk(e, x)
                            \/ CloseWrite(e, x) \/ Read(e, x) \/ ReadSelect(e, x)
       PROVE  Quiet
  BY ZenonT(60), <1>10 DEF Write, WriteNext, WriteChunk, CloseWrite, Read, ReadSelect, Quiet, connVars, sessVars
<1>11. ASSUME NEW e \in Ends, ReadOpen \/ ReadOpenAck \/ ReadData(e) \/ ReadClose(e) \/ ReadErrorFrame(e)
                                \/ ShutdownNext(e) \/ WriteJSON(e)
       PROVE  Quiet
  BY ZenonT(60), <1>11 DEF ReadOpen, ReadOpenAck, ReadData, ReadClose, ReadErrorFrame, ShutdownNext, WriteJSON,
               Quiet, connVars, sessVars
<1>12. CASE UNCHANGED vars
  BY ZenonT(60), <1>2, <1>12 DEF Quiet, vars, connVars, sessVars
<1> QED BY ZenonT(60), <1>2, <1>3, <1>4, <1>5, <1>6, <1>7, <1>8, <1>9, <1>10, <1>11, <1>12 DEF Next, readLoop

LEMMA NextCause ==
  ASSUME TypeOK, [Next]_vars, NEW e \in Ends, CauseInv(e)
  PROVE  CauseInv(e)'
  BY ZenonT(60), EndSteps DEF CauseInv


\* The steps of one request.
OpenerStep(x) ==
  \/ opener'[x] = opener[x]
  \/ opener[x] = "idle" /\ opener'[x] = "failed"
  \/ opener[x] = "idle" /\ opener'[x] = "registered" /\ x \in streams'["opener"]
  \/ opener[x] = "registered" /\ opener'[x] = "waiting"
  \/ opener[x] = "waiting" /\ opener'[x] = "open" /\ ack[x] = "ok"
  \/ opener[x] \in {"registered", "waiting"} /\ opener'[x] \in {"failed", "cancelled"}
HandlerStep(x) ==
  \/ handler'[x] = handler[x]
  \/ /\ handler'[x] \in {"incoming", "overflow"} /\ x \in streams'["acceptor"]
     /\ wire["acceptor"] # <<>> /\ wire'["acceptor"] = Tail(wire["acceptor"])
     /\ Head(wire["acceptor"]).type = "Open" /\ Head(wire["acceptor"]).id = x
  \/ handler[x] \in {"incoming", "overflow", "handling"} /\ handler'[x] # "none"
AckStep(x) == ack'[x] = "ok" => ack[x] = "ok" \/ HasAck(wire["opener"], x)

LEMMA RequestSteps ==
  ASSUME TypeOK, [Next]_vars, NEW x \in Ids
  PROVE  OpenerStep(x) /\ HandlerStep(x) /\ AckStep(x)
<1>0. /\ "opener" \in Ends /\ "acceptor" \in Ends
      /\ WireT /\ CloseT /\ OpenT /\ ChanT
  BY ZenonT(60), Parts DEF Ends
<1> DEFINE Quiet == UNCHANGED <<opener, handler, ack>>
           Goal == OpenerStep(x) /\ HandlerStep(x) /\ AckStep(x)
<1>1. CASE Quiet
  BY SMTT(30), <1>1 DEF OpenerStep, HandlerStep, AckStep
<1> HIDE DEF Quiet
<1>2. ASSUME NEW y \in Ids, Open(y) PROVE Goal
  BY ZenonT(60), <1>0, <1>2 DEF Open, chanVars, OpenT, CloseT, OpenerStep, HandlerStep, AckStep
<1>3. ASSUME NEW y \in Ids, OpenWrite(y) \/ OpenCancel(y) PROVE Goal
  BY ZenonT(60), <1>0, <1>3 DEF OpenWrite, OpenCancel, chanVars, OpenT, OpenerStep, HandlerStep, AckStep
<1>4. ASSUME NEW y \in Ids, OpenSelect(y) PROVE Goal
  BY ZenonT(60), <1>0, <1>4 DEF OpenSelect, chanVars, OpenT, OpenerStep, HandlerStep, AckStep
<1>5. ASSUME ReadOpen PROVE Goal
  <2>1. UNCHANGED <<opener, ack>> /\ wire["acceptor"] # <<>>
    BY ZenonT(60), <1>5 DEF ReadOpen, chanVars, Arrives
  <2>2. CASE UNCHANGED handler
    BY ZenonT(60), <2>1, <2>2 DEF OpenerStep, HandlerStep, AckStep
  <2>3. CASE /\ Take("acceptor")
             /\ streams' = [streams EXCEPT !["acceptor"] = @ \cup {Head(wire["acceptor"]).id}]
             /\ handler' = [handler EXCEPT ![Head(wire["acceptor"]).id] = Dispatched]
    <3>1. Head(wire["acceptor"]).type = "Open" /\ Head(wire["acceptor"]).id \in Ids
      BY ZenonT(60), <1>0, <1>5, HeadType DEF ReadOpen, Arrives, WireT
    <3>2. wire'["acceptor"] = Tail(wire["acceptor"])
      BY SMTT(30), <1>0, <2>3 DEF Take, WireT
    <3>3. CASE x = Head(wire["acceptor"]).id
      BY ZenonT(60), <1>0, <2>1, <2>3, <3>1, <3>2, <3>3 DEF OpenerStep, HandlerStep, AckStep, Dispatched, OpenT, CloseT
    <3>4. CASE x # Head(wire["acceptor"]).id
      BY ZenonT(60), <1>0, <2>1, <2>3, <3>1, <3>4 DEF OpenerStep, HandlerStep, AckStep, OpenT
    <3> QED BY SMTT(30), <3>3, <3>4
  <2> QED BY ZenonT(60), <1>5, <2>2, <2>3 DEF ReadOpen
<1>6. ASSUME ReadOpenAck PROVE Goal
  <2>1. UNCHANGED <<opener, handler>> /\ wire["opener"] # <<>> /\ Head(wire["opener"]).type = "OpenAck"
    BY <1>6 DEF ReadOpenAck, appVars, Arrives
  <2>2. wire["opener"] \in Seq(Frame)
    BY ZenonT(60), <1>0 DEF WireT
  <2>3. Head(wire["opener"]).n = 1 => HasAck(wire["opener"], Head(wire["opener"]).id)
    BY ZenonT(60), <2>1, <2>2, HeadHas
  <2>4. UNCHANGED ack \/ ack' = [ack EXCEPT ![Head(wire["opener"]).id] = ackOf(Head(wire["opener"]))]
    BY ZenonT(60), <1>6 DEF ReadOpenAck
  <2>5. AckStep(x)
    BY SMTT(30), <1>0, <2>3, <2>4 DEF AckStep, ackOf, ChanT
  <2> QED BY ZenonT(60), <2>1, <2>5 DEF OpenerStep, HandlerStep
<1>7. ASSUME NEW y \in Ids, DispatchOverflow(y) \/ dispatchLoop(y) PROVE Goal
  BY ZenonT(60), <1>0, <1>7 DEF DispatchOverflow, dispatchLoop, Dispatched, chanVars, OpenT, OpenerStep, HandlerStep, AckStep
<1>8. ASSUME NEW y \in Ids, Accept(y) \/ Reject(y) PROVE Goal
  BY ZenonT(60), <1>0, <1>8 DEF Accept, Reject, chanVars, OpenT, OpenerStep, HandlerStep, AckStep
<1>9. ASSUME NEW e \in Ends, NEW y \in Ids, Write(e, y) \/ WriteNext(e, y) \/ WriteChunk(e, y)
                            \/ CloseWrite(e, y) \/ Read(e, y) \/ ReadSelect(e, y)
       PROVE  Quiet
  BY ZenonT(60), <1>9 DEF Write, WriteNext, WriteChunk, CloseWrite, Read, ReadSelect, Quiet, chanVars
<1>10. ASSUME NEW e \in Ends, ReadError(e) \/ ReadControl(e) \/ ReadData(e) \/ Deliver(e) \/ ReadClose(e)
                                \/ ReadErrorFrame(e)
       PROVE  Quiet
  BY ZenonT(60), <1>10 DEF ReadError, ReadControl, ReadData, Deliver, ReadClose, ReadErrorFrame, Quiet, chanVars, appVars
<1>11. ASSUME NEW e \in Ends, ShutdownNext(e) \/ WriteJSON(e) \/ Close(e) \/ CloseConn(e) \/ SetControlHandler(e)
       PROVE  Quiet
  BY ZenonT(60), <1>11 DEF ShutdownNext, WriteJSON, Close, CloseConn, SetControlHandler, Quiet, chanVars, appVars
<1>12. CASE Break \/ UNCHANGED vars
  BY <1>1, <1>12 DEF Break, Quiet, vars, chanVars, appVars
<1> HIDE DEF Goal
<1>13. Goal
  BY ZenonT(60), <1>1, <1>2, <1>3, <1>4, <1>5, <1>6, <1>7, <1>8, <1>9, <1>10, <1>11, <1>12 DEF Next, readLoop, Goal
<1> QED BY <1>13 DEF Goal


\* The steps of the writing goroutine.
Sends(e, x) ==
  /\ Est(e, x) /\ writer[e][x] = "chunk" /\ sent'[e][x] = sent[e][x] + 1
  /\ wire' = [wire EXCEPT ![Peer(e)] = IF Up THEN Append(@, F("Data", x, sent[e][x] + 1)) ELSE @]
  /\ UNCHANGED <<loop, held, reads, got, reader, conn, broken>>
SendStep(e, x) ==
  \/ sent'[e][x] = sent[e][x] /\ writer'[e][x] = writer[e][x]
  \/ sent'[e][x] = sent[e][x] /\ Est(e, x) /\ writer[e][x] # "done"
  \/ Sends(e, x)

LEMMA SendSteps ==
  ASSUME TypeOK, [Next]_vars, NEW e \in Ends, NEW x \in Ids
  PROVE  SendStep(e, x)
<1>0. CopyT
  BY ZenonT(60), Parts
<1> DEFINE Quiet == UNCHANGED <<sent, writer>>
<1>1. CASE Quiet
  BY ZenonT(60), <1>1 DEF SendStep
<1> HIDE DEF Quiet
<1>2. ASSUME NEW d \in Ends, NEW y \in Ids, NEW pc, Est(d, y), writer[d][y] # "done", UNCHANGED sent,
             SetWriter(d, y, pc)
      PROVE  SendStep(e, x)
  BY ZenonT(60), <1>0, <1>2 DEF SendStep, SetWriter, CopyT
<1>3. ASSUME NEW d \in Ends, NEW y \in Ids, Write(d, y) \/ WriteNext(d, y) \/ CloseWrite(d, y)
      PROVE  SendStep(e, x)
  <2>1. Est(d, y) /\ writer[d][y] # "done" /\ UNCHANGED sent
    BY ZenonT(60), <1>3 DEF Write, WriteNext, CloseWrite, Established, Est
  <2>2. \E pc : SetWriter(d, y, pc)
    BY ZenonT(60), <1>3 DEF Write, WriteNext, CloseWrite
  <2> QED BY SMTT(30), <1>2, <2>1, <2>2
<1>4. ASSUME NEW d \in Ends, NEW y \in Ids, WriteChunk(d, y)
      PROVE  SendStep(e, x)
  <2>1. Est(d, y) /\ writer[d][y] = "chunk"
    BY SMTT(30), <1>4 DEF WriteChunk, Established, Est
  <2>2. CASE UNCHANGED sent /\ SetWriter(d, y, "done")
    BY ZenonT(60), <1>2, <2>1, <2>2
  <2>3. CASE /\ Put(d, F("Data", y, sent[d][y] + 1)) /\ sent' = [sent EXCEPT ![d][y] = @ + 1]
             /\ SetWriter(d, y, "idle") \/ SetWriter(d, y, "next")
    <3>1. CASE d = e /\ y = x
      <4>1. sent'[e][x] = sent[e][x] + 1
        BY ZenonT(60), <1>0, <2>3, <3>1 DEF CopyT
      <4>2. UNCHANGED <<loop, held, reads, got, reader, conn, broken>>
        BY ZenonT(60), <1>4 DEF WriteChunk, loopVars, chanVars, connVars
      <4> QED BY ZenonT(60), <2>1, <2>3, <3>1, <4>1, <4>2 DEF Sends, SendStep, Put
    <3>2. CASE ~(d = e /\ y = x)
      <4>1. sent'[e][x] = sent[e][x]
        BY ZenonT(60), <1>0, <2>3, <3>2 DEF CopyT
      <4>2. ASSUME NEW pc, SetWriter(d, y, pc) PROVE writer'[e][x] = writer[e][x]
        BY ZenonT(60), <1>0, <3>2, <4>2 DEF SetWriter, CopyT
      <4> QED BY ZenonT(60), <2>3, <4>1, <4>2 DEF SendStep
    <3> QED BY ZenonT(60), <3>1, <3>2
  <2> QED BY ZenonT(60), <1>4, <2>2, <2>3 DEF WriteChunk
<1>5. ASSUME NEW y \in Ids, Open(y) \/ OpenWrite(y) \/ OpenSelect(y) \/ OpenCancel(y)
                            \/ DispatchOverflow(y) \/ dispatchLoop(y) \/ Accept(y) \/ Reject(y)
      PROVE  Quiet
  BY ZenonT(60), <1>5 DEF Open, OpenWrite, OpenSelect, OpenCancel, DispatchOverflow, dispatchLoop, Accept, Reject, Quiet
<1>6. ASSUME NEW d \in Ends, NEW y \in Ids, Read(d, y) \/ ReadSelect(d, y)
      PROVE  Quiet
  BY SMTT(30), <1>6 DEF Read, ReadSelect, Quiet
<1>7. ASSUME NEW d \in Ends, readLoop(d)
      PROVE  Quiet
  BY ZenonT(60), <1>7 DEF readLoop, ReadError, ReadControl, ReadData, Deliver, ReadClose, ReadErrorFrame, ReadOpen,
              ReadOpenAck, Quiet, appVars
<1>8. ASSUME NEW d \in Ends, ShutdownNext(d) \/ WriteJSON(d) \/ Close(d) \/ CloseConn(d) \/ SetControlHandler(d)
      PROVE  Quiet
  BY ZenonT(60), <1>8 DEF ShutdownNext, WriteJSON, Close, CloseConn, SetControlHandler, Quiet, appVars
<1>9. CASE Break \/ UNCHANGED vars
  BY ZenonT(60), <1>1, <1>9 DEF Break, Quiet, vars, appVars
<1> QED BY ZenonT(60), <1>1, <1>3, <1>4, <1>5, <1>6, <1>7, <1>8, <1>9 DEF Next

\* The steps of the wire towards d, and of what takes frames from it.
Written(e, f) ==
  \/ f.type = "Control"
  \/ \E x \in Ids, n \in Nat : /\ e = "opener" /\ f = F("Open", x, n)
                               /\ opener[x] = "registered" /\ opener'[x] = "waiting"
  \/ \E x \in Ids, n \in Nat : /\ e = "acceptor" /\ f = F("OpenAck", x, n)
                               /\ n = 1 => handler'[x] = "accepted"
  \/ \E x \in Ids : /\ e = "acceptor" /\ f = F("Error", x, 0) /\ handler'[x] = handler[x]
                    /\ wire["acceptor"] # <<>> /\ wire'["acceptor"] = Tail(wire["acceptor"])
                    /\ Head(wire["acceptor"]).type = "Open" /\ Head(wire["acceptor"]).id = x
  \/ \E x \in Ids : f = F("Data", x, sent[e][x] + 1) /\ sent'[e][x] = sent[e][x] + 1
  \/ \E x \in Ids : f = F("Close", x, 0) /\ writer'[e][x] = "done"
  \/ \E x \in Ids : /\ f = F("Close", x, 0) /\ ~sclosed[e] /\ x \notin streams[e]
                    /\ wire[e] # <<>> /\ Data(Head(wire[e]), x)
Appends(d) ==
  \/ wire'[d] = wire[d]
  \/ Up /\ \E f \in Frame : Written(Peer(d), f) /\ wire'[d] = Append(wire[d], f)
Takes(d) ==
  /\ wire[d] # <<>> /\ loop[d] = "read" /\ wire'[d] = Tail(wire[d])
  /\ IF Head(wire[d]).type = "Data" /\ Head(wire[d]).id \in streams[d]
     THEN loop'[d] = "deliver" /\ held'[d] = [id |-> Head(wire[d]).id, n |-> Head(wire[d]).n]
     ELSE loop'[d] # "deliver"
Still(d) == reads'[d] = reads[d] /\ got'[d] = got[d] /\ reader'[d] = reader[d]
Delivers(d) ==
  /\ wire'[d] = wire[d] /\ loop[d] = "deliver" /\ loop'[d] # "deliver"
  /\ got'[d] = got[d] /\ reader'[d] = reader[d]
  /\ \/ reads'[d] = reads[d] /\ held[d].id \in closed[d] \cup remoteEOF[d]
     \/ /\ held[d].id \notin remoteEOF[d]
        /\ reads' = [reads EXCEPT ![d][held[d].id] = Append(@, held[d].n)]
BufferStep(d, x) ==
  \/ /\ reads'[d][x] = reads[d][x] /\ got'[d][x] = got[d][x]
     /\ reader'[d][x] = "eof" => \/ reader[d][x] = "eof"
                                 \/ reads[d][x] = <<>> /\ x \in remoteEOF[d] /\ x \notin closed[d]
  \/ /\ reads[d][x] # <<>> /\ reads'[d][x] = Tail(reads[d][x])
     /\ got'[d][x] = Append(got[d][x], Head(reads[d][x])) /\ reader'[d][x] # "eof"
ArriveStep(d) ==
  \/ Appends(d) /\ loop'[d] = loop[d] /\ held'[d] = held[d] /\ \A x \in Ids : BufferStep(d, x)
  \/ wire'[d] = wire[d] /\ loop[d] = "read" /\ loop'[d] = "stopped" /\ Still(d)
  \/ Takes(d) /\ Still(d)
  \/ Delivers(d)


LEMMA PutAppends ==
  ASSUME TypeOK, NEW e \in Ends, NEW f \in Frame, Written(e, f), NEW d \in Ends,
         Put(e, f) \/ PutUnlessClosed(e, f)
  PROVE  Appends(d)
<1>1. wire' = wire \/ wire' = [wire EXCEPT ![Peer(e)] = IF Up THEN Append(@, f) ELSE @]
  BY DEF Put, PutUnlessClosed
<1>2. wire \in [Ends -> Seq(Frame)]
  BY ZenonT(60), Parts DEF WireT
<1>3. CASE d = e
  BY ZenonT(60), <1>1, <1>2, <1>3, PeerType DEF Appends
<1>4. CASE d = Peer(e) /\ wire' # wire
  <2>1. Peer(d) = e
    BY <1>4, PeerType
  <2>2. wire'[d] = IF Up THEN Append(wire[d], f) ELSE wire[d]
    BY ZenonT(60), <1>1, <1>2, <1>4
  <2> QED BY ZenonT(60), <2>1, <2>2 DEF Appends
<1> QED BY ZenonT(60), <1>3, <1>4, PeerType DEF Appends

LEMMA QuietArrives ==
  ASSUME NEW d \in Ends, Appends(d), UNCHANGED <<loop, held, reads, got, reader>>
  PROVE  ArriveStep(d)
  BY ZenonT(60) DEF ArriveStep, BufferStep

LEMMA StillArrives ==
  ASSUME NEW d \in Ends, UNCHANGED <<wire, loopVars, chanVars, reader, got>>
  PROVE  ArriveStep(d)
  BY SMTT(30), QuietArrives DEF Appends, loopVars, chanVars

LEMMA ControlArrives ==
  ASSUME TypeOK, NEW d \in Ends, NEW e \in Ends, WriteJSON(e)
  PROVE  ArriveStep(d)
<1>1. F("Control", 0, 0) \in Frame /\ Written(e, F("Control", 0, 0))
  BY ZenonT(60) DEF F, Frame, Written
<1>2. UNCHANGED <<loop, held, reads, got, reader>>
  BY ZenonT(60) DEF WriteJSON, loopVars, chanVars, appVars
<1> QED BY ZenonT(60), <1>1, <1>2, PutAppends, QuietArrives DEF WriteJSON

\* The actions that write to the wire and take nothing from it.
LEMMA WriteArrives ==
  ASSUME TypeOK, NEW d \in Ends, NEW x \in Ids, NEW e \in Ends,
         \/ OpenWrite(x) \/ Accept(x) \/ Reject(x) \/ WriteChunk(e, x) \/ CloseWrite(e, x)
  PROVE  ArriveStep(d)
<1>0. "opener" \in Ends /\ "acceptor" \in Ends /\ CopyT /\ OpenT
  BY SMTT(30), Parts DEF Ends
<1>1. UNCHANGED <<loop, held, reads, got, reader>>
  BY ZenonT(60) DEF OpenWrite, Accept, Reject, WriteChunk, CloseWrite, loopVars, chanVars
<1>2. CASE wire' = wire
  BY ZenonT(60), <1>1, <1>2, QuietArrives DEF Appends
<1>4. CASE OpenWrite(x) /\ wire' # wire
  <2>1. PICK v \in {0, 1} : Put("opener", F("Open", x, v)) /\ opener' = [opener EXCEPT ![x] = "waiting"]
    BY ZenonT(60), <1>4 DEF OpenWrite
  <2>2. opener[x] = "registered" /\ opener'[x] = "waiting"
    BY ZenonT(60), <1>0, <1>4, <2>1 DEF OpenWrite, OpenT
  <2>3. F("Open", x, v) \in Frame /\ Written("opener", F("Open", x, v))
    BY ZenonT(60), <2>2, FrameType DEF Written
  <2> QED BY ZenonT(60), <1>0, <1>1, <2>1, <2>3, PutAppends, QuietArrives
<1>5. CASE Accept(x) /\ wire' # wire
  <2>1. Put("acceptor", F("OpenAck", x, 1)) /\ handler' = [handler EXCEPT ![x] = "accepted"]
    BY ZenonT(60), <1>5 DEF Accept, openAck
  <2>2. handler'[x] = "accepted"
    BY ZenonT(60), <1>0, <2>1 DEF OpenT
  <2>3. F("OpenAck", x, 1) \in Frame /\ Written("acceptor", F("OpenAck", x, 1))
    BY ZenonT(60), <2>2, FrameType DEF Written
  <2> QED BY ZenonT(60), <1>0, <1>1, <2>1, <2>3, PutAppends, QuietArrives
<1>6. CASE Reject(x)
  <2>1. PutUnlessClosed("acceptor", F("OpenAck", x, 0))
    BY SMTT(30), <1>6 DEF Reject, openAck
  <2>2. F("OpenAck", x, 0) \in Frame /\ Written("acceptor", F("OpenAck", x, 0))
    <3>1. 0 \in Nat /\ 0 # 1
      OBVIOUS
    <3> QED BY ZenonT(60), <3>1, FrameType DEF Written
  <2> QED BY ZenonT(60), <1>0, <1>1, <2>1, <2>2, PutAppends, QuietArrives
<1>7. CASE WriteChunk(e, x) /\ wire' # wire
  <2>1. Put(e, F("Data", x, sent[e][x] + 1)) /\ sent' = [sent EXCEPT ![e][x] = @ + 1]
    BY ZenonT(60), <1>7 DEF WriteChunk
  <2>2. sent'[e][x] = sent[e][x] + 1 /\ sent[e][x] + 1 \in Nat
    BY SMTT(30), <1>0, <2>1 DEF CopyT
  <2>3. F("Data", x, sent[e][x] + 1) \in Frame /\ Written(e, F("Data", x, sent[e][x] + 1))
    BY ZenonT(60), <2>2, FrameType DEF Written
  <2> QED BY ZenonT(60), <1>1, <2>1, <2>3, PutAppends, QuietArrives
<1>8. CASE CloseWrite(e, x) /\ wire' # wire
  <2>1. PutUnlessClosed(e, F("Close", x, 0)) /\ SetWriter(e, x, "done")
    BY ZenonT(60), <1>8 DEF CloseWrite
  <2>2. writer'[e][x] = "done"
    BY SMTT(30), <1>0, <2>1 DEF CopyT, SetWriter
  <2>3. F("Close", x, 0) \in Frame /\ Written(e, F("Close", x, 0))
    BY ZenonT(60), <2>2, FrameType DEF Written
  <2> QED BY ZenonT(60), <1>1, <2>1, <2>3, PutAppends, QuietArrives
<1> QED BY ZenonT(60), <1>2, <1>4, <1>5, <1>6, <1>7, <1>8

\* The actions that take a frame from the wire.
LEMMA TakeArrives ==
  ASSUME TypeOK, NEW d \in Ends, NEW e \in Ends,
         \/ ReadData(e) \/ ReadClose(e) \/ ReadErrorFrame(e) \/ ReadControl(e)
         \/ (e = "acceptor" /\ ReadOpen) \/ (e = "opener" /\ ReadOpenAck)
  PROVE  ArriveStep(d)
<1>0. wire \in [Ends -> Seq(Frame)] /\ LoopT
  BY ZenonT(60), Parts DEF WireT
<1> DEFINE f == Head(wire[e])
<1>1. wire[e] # <<>> /\ loop[e] = "read" /\ f \in Frame
  <2>1. wire[e] # <<>> /\ loop[e] = "read"
    BY ZenonT(60) DEF ReadData, ReadClose, ReadErrorFrame, ReadControl, ReadOpen, ReadOpenAck, Arrives, Reading
  <2>2. wire[e] \in Seq(Frame)
    BY ZenonT(60), <1>0
  <2> QED BY <2>1, <2>2
<1>2. Still(d)
  BY ZenonT(60) DEF ReadData, ReadClose, ReadErrorFrame, ReadControl, ReadOpen, ReadOpenAck, Still, appVars, chanVars
<1>3. CASE d = e
  <2>1. wire'[e] = Tail(wire[e])
    <3>1. Take(e) \/ \E g \in {F("Error", f.id, 0), F("Close", f.id, 0)} : Answer(e, g)
      BY ZenonT(60) DEF ReadData, ReadClose, ReadErrorFrame, ReadControl, ReadOpen, ReadOpenAck
    <3> QED BY ZenonT(60), <1>0, <3>1, PeerType DEF Take, Answer
  <2>2. IF f.type = "Data" /\ f.id \in streams[e]
        THEN loop'[e] = "deliver" /\ held'[e] = [id |-> f.id, n |-> f.n]
        ELSE loop'[e] # "deliver"
    <3>1. CASE ReadData(e)
      BY ZenonT(60), <1>0, <1>1, <3>1 DEF ReadData, Arrives, LoopT, loopVars
    <3>2. CASE ~ReadData(e)
      <4>1. f.type # "Data"
        BY ZenonT(60), <3>2 DEF ReadClose, ReadErrorFrame, ReadControl, ReadOpen, ReadOpenAck, Arrives
      <4>2. loop'[e] # "deliver"
        BY ZenonT(60), <1>0, <1>1, <3>2 DEF ReadClose, ReadErrorFrame, ReadControl, ReadOpen, ReadOpenAck, loopVars, LoopT
      <4> QED BY ZenonT(60), <4>1, <4>2
    <3> QED BY ZenonT(60), <3>1, <3>2
  <2> QED BY ZenonT(60), <1>1, <1>2, <1>3, <2>1, <2>2 DEF ArriveStep, Takes
<1>4. CASE d # e
  <2>1. d = Peer(e) /\ Peer(d) = e
    BY SMTT(30), <1>4, PeerType
  <2>2. loop'[d] = loop[d] /\ held'[d] = held[d]
    BY ZenonT(60), <1>0, <1>4 DEF ReadData, ReadClose, ReadErrorFrame, ReadControl, ReadOpen, ReadOpenAck, loopVars, LoopT
  <2>3. \A x \in Ids : BufferStep(d, x)
    BY ZenonT(60), <1>2 DEF Still, BufferStep
  <2>4. CASE Take(e)
    BY ZenonT(60), <1>0, <1>4, <2>2, <2>3, <2>4 DEF Take, Appends, ArriveStep
  <2>5. ASSUME NEW g \in Frame, Answer(e, g), Written(e, g)
        PROVE  Appends(d)
    BY ZenonT(60), <1>0, <2>1, <2>5 DEF Answer, Appends
  <2>6. CASE ReadData(e) /\ ~Take(e) /\ wire'[d] # wire[d]
    <3>1. f.type = "Data" /\ f.id \in Ids /\ f.id \notin streams[e] /\ Answer(e, F("Close", f.id, 0))
      BY ZenonT(60), <1>0, <2>6, HeadType DEF ReadData, Arrives
    <3>2. ~sclosed[e]
      BY ZenonT(60), <1>0, <2>1, <2>6, <3>1 DEF Answer
    <3>3. F("Close", f.id, 0) \in Frame /\ Written(e, F("Close", f.id, 0))
      BY ZenonT(60), <1>1, <3>1, <3>2, FrameType DEF Written, Data
    <3> QED BY ZenonT(60), <2>2, <2>3, <2>5, <3>1, <3>3 DEF ArriveStep
  <2>7. CASE e = "acceptor" /\ ReadOpen /\ ~Take(e)
    <3>1. f.type = "Open" /\ f.id \in Ids /\ Answer(e, F("Error", f.id, 0)) /\ UNCHANGED handler
      BY ZenonT(60), <1>0, <2>7, HeadType DEF ReadOpen, Arrives
    <3>2. wire'["acceptor"] = Tail(wire["acceptor"])
      BY SMTT(30), <1>0, <2>1, <2>7, <3>1 DEF Answer
    <3>3. F("Error", f.id, 0) \in Frame /\ Written(e, F("Error", f.id, 0))
      BY ZenonT(60), <1>1, <2>7, <3>1, <3>2, FrameType DEF Written
    <3> QED BY ZenonT(60), <2>2, <2>3, <2>5, <3>1, <3>3 DEF ArriveStep
  <2>8. CASE wire'[d] = wire[d]
    BY ZenonT(60), <2>2, <2>3, <2>8 DEF ArriveStep, Appends
  <2> QED BY ZenonT(60), <2>4, <2>6, <2>7, <2>8 DEF ReadClose, ReadErrorFrame, ReadControl, ReadOpenAck
<1> QED BY ZenonT(60), <1>3, <1>4


LEMMA ReaderArrives ==
  ASSUME TypeOK, NEW d \in Ends, NEW e \in Ends, NEW y \in Ids, Read(e, y) \/ ReadSelect(e, y)
  PROVE  ArriveStep(d)
<1>0. CopyT /\ ChanT
  BY ZenonT(60), Parts
<1>1. Appends(d) /\ loop'[d] = loop[d] /\ held'[d] = held[d]
  BY DEF Read, ReadSelect, Appends, loopVars
<1>2. ASSUME NEW x \in Ids PROVE BufferStep(d, x)
  <2>1. CASE ~(d = e /\ x = y)
    <3>1. reads'[d][x] = reads[d][x] /\ got'[d][x] = got[d][x]
      <4>1. CASE UNCHANGED <<reads, got>>
        BY ZenonT(60), <4>1
      <4>2. CASE \E a, b : got' = [got EXCEPT ![e][y] = a] /\ reads' = [reads EXCEPT ![e][y] = b]
        <5>1. ASSUME NEW S, NEW g \in [Ends -> [Ids -> S]], NEW a
              PROVE  [g EXCEPT ![e][y] = a][d][x] = g[d][x]
          BY <2>1
        <5>2. PICK a, b : got' = [got EXCEPT ![e][y] = a] /\ reads' = [reads EXCEPT ![e][y] = b]
          BY ZenonT(60), <4>2
        <5>3. got \in [Ends -> [Ids -> Seq(Nat)]] /\ reads \in [Ends -> [Ids -> Seq(Nat)]]
          BY ZenonT(60), <1>0 DEF CopyT, ChanT
        <5> QED BY ZenonT(60), <5>1, <5>2, <5>3
      <4> QED BY ZenonT(60), <4>1, <4>2 DEF Read, ReadSelect, chanVars
    <3>2. ASSUME NEW pc, SetReader(e, y, pc) PROVE reader'[d][x] = reader[d][x]
      BY ZenonT(60), <1>0, <2>1, <3>2 DEF SetReader, CopyT
    <3>3. reader'[d][x] = reader[d][x]
      BY ZenonT(60), <3>2 DEF Read, ReadSelect
    <3> QED BY ZenonT(60), <3>1, <3>3 DEF BufferStep
  <2>2. ASSUME NEW pc, SetReader(e, y, pc) PROVE reader'[e][y] = pc
    BY <1>0, <2>2 DEF SetReader, CopyT
  <2>3. CASE Read(e, y)
    <3>1. reader'[e][y] # "eof" /\ UNCHANGED <<reads, got>>
      BY ZenonT(60), <2>2, <2>3 DEF Read, chanVars
    <3> QED BY ZenonT(60), <2>1, <3>1 DEF BufferStep
  <2>4. CASE ReadSelect(e, y) /\ UNCHANGED <<got, reads>> /\ SetReader(e, y, "err")
    BY ZenonT(60), <2>1, <2>2, <2>4 DEF BufferStep
  <2>5. CASE ReadSelect(e, y) /\ UNCHANGED <<got, reads>> /\ atEnd(e, y) /\ SetReader(e, y, endOfReads(e, y))
    BY ZenonT(60), <2>1, <2>2, <2>5 DEF BufferStep, atEnd, endOfReads
  <2>6. CASE /\ reads[e][y] # <<>> /\ got' = [got EXCEPT ![e][y] = Append(@, Head(reads[e][y]))]
             /\ reads' = [reads EXCEPT ![e][y] = Tail(@)] /\ SetReader(e, y, "idle")
    <3>1. /\ reads'[e][y] = Tail(reads[e][y])
          /\ got'[e][y] = Append(got[e][y], Head(reads[e][y]))
      BY ZenonT(60), <1>0, <2>6 DEF CopyT, ChanT
    <3>2. reader'[e][y] = "idle"
      BY <2>2, <2>6
    <3> QED BY ZenonT(60), <2>1, <2>6, <3>1, <3>2 DEF BufferStep
  <2> QED BY ZenonT(60), <2>3, <2>4, <2>5, <2>6 DEF ReadSelect, received
<1> QED BY ZenonT(60), <1>1, <1>2 DEF ArriveStep

LEMMA ArriveSteps ==
  ASSUME TypeOK, [Next]_vars, NEW d \in Ends
  PROVE  ArriveStep(d)
<1>0. LoopT /\ ChanT
  BY SMTT(30), Parts
<1>1. ASSUME NEW e \in Ends, ShutdownNext(e) \/ Close(e) \/ CloseConn(e) \/ SetControlHandler(e)
      PROVE  ArriveStep(d)
  BY ZenonT(60), <1>1, StillArrives DEF ShutdownNext, Close, CloseConn, SetControlHandler, appVars
<1>2. ASSUME NEW x \in Ids, \/ Open(x) \/ OpenSelect(x) \/ OpenCancel(x)
                            \/ DispatchOverflow(x) \/ dispatchLoop(x)
      PROVE  ArriveStep(d)
  BY ZenonT(60), <1>2, StillArrives DEF Open, OpenSelect, OpenCancel, DispatchOverflow, dispatchLoop
<1>3. ASSUME NEW e \in Ends, NEW x \in Ids, Write(e, x) \/ WriteNext(e, x)
      PROVE  ArriveStep(d)
  BY ZenonT(60), <1>3, StillArrives DEF Write, WriteNext
<1>4. CASE Break \/ UNCHANGED vars
  BY ZenonT(60), <1>4, StillArrives DEF Break, vars, appVars
<1>5. ASSUME NEW e \in Ends, ReadError(e)
      PROVE  ArriveStep(d)
  <2>1. UNCHANGED <<wire, held, reads, got, reader>> /\ loop' = [loop EXCEPT ![e] = "stopped"] /\ loop[e] = "read"
    BY SMTT(30), <1>5 DEF ReadError, chanVars, appVars
  <2>2. CASE d = e
    BY ZenonT(60), <1>0, <2>1, <2>2 DEF ArriveStep, Still, LoopT
  <2>3. CASE d # e
    BY ZenonT(60), <1>0, <2>1, <2>3 DEF ArriveStep, Appends, BufferStep, LoopT
  <2> QED BY ZenonT(60), <2>2, <2>3
<1>6. ASSUME NEW e \in Ends, Deliver(e)
      PROVE  ArriveStep(d)
  <2>1. UNCHANGED <<wire, got, reader>> /\ loop[e] = "deliver"
    BY ZenonT(60), <1>6 DEF Deliver, appVars
  <2>2. \E pc \in {"read", "stopped"} : loop' = [loop EXCEPT ![e] = pc]
    BY SMTT(30), <1>6 DEF Deliver
  <2>3. CASE d = e
    <3>1. \/ UNCHANGED reads /\ held[e].id \in closed[e] \cup remoteEOF[e]
          \/ /\ held[e].id \notin remoteEOF[e]
             /\ reads' = [reads EXCEPT ![e][held[e].id] = Append(@, held[e].n)]
      BY ZenonT(60), <1>6 DEF Deliver
    <3>2. loop'[e] # "deliver"
      BY SMTT(30), <1>0, <2>2 DEF LoopT
    <3> QED BY ZenonT(60), <2>1, <2>3, <3>1, <3>2 DEF ArriveStep, Delivers
  <2>4. CASE d # e
    <3>1. loop'[d] = loop[d]
      BY ZenonT(60), <1>0, <2>2, <2>4 DEF LoopT
    <3>2. held'[d] = held[d]
      BY ZenonT(60), <1>0, <1>6, <2>4 DEF Deliver, LoopT
    <3>3. reads'[d] = reads[d]
      BY ZenonT(60), <1>0, <1>6, <2>4 DEF Deliver, ChanT
    <3> QED BY ZenonT(60), <2>1, <3>1, <3>2, <3>3 DEF ArriveStep, Appends, BufferStep
  <2> QED BY <2>3, <2>4
<1>7. ASSUME NEW e \in Ends, \/ ReadData(e) \/ ReadClose(e) \/ ReadErrorFrame(e) \/ ReadControl(e)
                             \/ (e = "acceptor" /\ ReadOpen) \/ (e = "opener" /\ ReadOpenAck)
      PROVE  ArriveStep(d)
  BY ZenonT(60), <1>7, TakeArrives
<1>8. ASSUME NEW e \in Ends, WriteJSON(e)
      PROVE  ArriveStep(d)
  BY ZenonT(60), <1>8, ControlArrives
<1>9. ASSUME NEW x \in Ids, OpenWrite(x) \/ Accept(x) \/ Reject(x)
      PROVE  ArriveStep(d)
  BY ZenonT(60), <1>9, WriteArrives
<1>10. ASSUME NEW e \in Ends, NEW x \in Ids, WriteChunk(e, x) \/ CloseWrite(e, x)
       PROVE  ArriveStep(d)
  BY ZenonT(60), <1>10, WriteArrives
<1>11. ASSUME NEW e \in Ends, NEW x \in Ids, Read(e, x) \/ ReadSelect(e, x)
       PROVE  ArriveStep(d)
  BY ZenonT(60), <1>11, ReaderArrives
<1>12. ASSUME NEW e \in Ends, readLoop(e)
       PROVE  ArriveStep(d)
  BY <1>5, <1>6, <1>7, <1>12 DEF readLoop
<1> QED BY ZenonT(60), <1>1, <1>2, <1>3, <1>4, <1>8, <1>9, <1>10, <1>11, <1>12 DEF Next
=============================================================================
