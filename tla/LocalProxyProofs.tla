-------------------------- MODULE LocalProxyProofs --------------------------
(***************************************************************************)
(* The types, the count of active streams, the drain of Shutdown, the      *)
(* uploads and the downloads, for any number of connections and any load.  *)
(***************************************************************************)
EXTENDS Integers, LocalProxy, TLAPS

\* A sequence cut in two after its first n items.
LEMMA Splits ==
  ASSUME NEW s \in Seq(Nat), NEW n \in 0..Len(s)
  PROVE  /\ SubSeq(s, 1, n) \in Seq(Nat) /\ Len(SubSeq(s, 1, n)) = n
         /\ \A i \in 1..n : SubSeq(s, 1, n)[i] = s[i]
         /\ SubSeq(s, n + 1, Len(s)) \in Seq(Nat) /\ Len(SubSeq(s, n + 1, Len(s))) = Len(s) - n
         /\ \A i \in 1..(Len(s) - n) : SubSeq(s, n + 1, Len(s))[i] = s[n + i]
         /\ n = 0 => SubSeq(s, 1, n) = <<>>
         /\ n = Len(s) => SubSeq(s, n + 1, Len(s)) = <<>>
<1>1. ASSUME NEW l \in 1..(Len(s) + 1), NEW m \in 0..Len(s)
      PROVE  /\ SubSeq(s, l, m) \in Seq(Nat)
             /\ Len(SubSeq(s, l, m)) = IF l <= m THEN m - l + 1 ELSE 0
             /\ \A i \in 1..(m - l + 1) : SubSeq(s, l, m)[i] = s[l + i - 1]
  <2>1. \A i \in l..m : s[i] \in Nat
    OBVIOUS
  <2> QED BY <2>1
<1>2. \A t \in Seq(Nat) : Len(t) = 0 => t = <<>>
  OBVIOUS
<1> QED BY <1>1, <1>2

-----------------------------------------------------------------------------
(* Types                                                                   *)

Places == {"none", "reading", "dialing", "dialed", "reply", "writing", "relay", "deferred", "gone"}
CopySteps == {"idle", "copying", "done"}

ShutT ==
  /\ load \in [Conns -> Load] /\ shut \in {"none", "http", "socks", "drain", "manager", "done"}
  /\ expired \in BOOLEAN /\ inFlight \in SUBSET Conns
PlaceT == pc \in [Conns -> Places]
AppT ==
  /\ kind \in [Conns -> Kinds] /\ app \in [Conns -> {"open", "half", "away"}]
  /\ sent \in [Conns -> Nat] /\ (\A c \in Conns : sent[c] <= load[c].up)
  /\ replied \in SUBSET Conns
UpT ==
  /\ socket \in [Conns -> Seq(Nat)] /\ buf \in [Conns -> Seq(Nat)] /\ atDest \in [Conns -> Seq(Nat)]
  /\ up \in [Conns -> CopySteps] /\ localEOF \in SUBSET Conns
DownT ==
  /\ destEOF \in SUBSET Conns /\ down \in [Conns -> CopySteps]
  /\ pending \in [Conns -> Nat] /\ \A c \in Conns : pending[c] <= load[c].down
StreamT == target \in [Conns -> {"none", "open", "counted", "closed"}] /\ dead \in SUBSET Conns

\* All of TypeOK but the type of the count.
Types == ShutT /\ PlaceT /\ AppT /\ UpT /\ DownT /\ StreamT

LEMMA TypeParts == Types /\ active \in Nat => TypeOK
  BY ZenonT(60) DEF Types, TypeOK, ShutT, PlaceT, AppT, UpT, DownT, StreamT, Places, CopySteps

\* What is left unchanged keeps its type; the bounds depend on the load as well.
LEMMA SameTypes ==
  ASSUME Types
  PROVE  /\ UNCHANGED shutVars => ShutT'
         /\ UNCHANGED pc => PlaceT'
         /\ UNCHANGED <<appVars, load>> => AppT'
         /\ UNCHANGED upVars => UpT'
         /\ UNCHANGED <<downVars, load>> => DownT'
         /\ UNCHANGED <<target, dead>> => StreamT'
<1>1. UNCHANGED shutVars => ShutT'
  BY DEF Types, ShutT, shutVars
<1>2. UNCHANGED pc => PlaceT'
  BY DEF Types, PlaceT
<1>3. UNCHANGED <<appVars, load>> => AppT'
  BY DEF Types, AppT, appVars
<1>4. UNCHANGED upVars => UpT'
  BY DEF Types, UpT, upVars
<1>5. UNCHANGED <<downVars, load>> => DownT'
  BY DEF Types, DownT, downVars
<1>6. UNCHANGED <<target, dead>> => StreamT'
  BY DEF Types, StreamT
<1> QED BY <1>1, <1>2, <1>3, <1>4, <1>5, <1>6

\* Of a sequence of numbers: what is put in and what is taken out.
LEMMA SeqTypes ==
  ASSUME NEW s \in Seq(Nat)
  PROVE  /\ Len(s) \in Nat /\ (\A n \in Nat : Append(s, n) \in Seq(Nat))
         /\ s # <<>> => Head(s) \in Nat /\ Tail(s) \in Seq(Nat)
         /\ \A n \in 0..Len(s) : SubSeq(s, 1, n) \in Seq(Nat) /\ SubSeq(s, n + 1, Len(s)) \in Seq(Nat)
<1>1. Len(s) \in Nat /\ \A n \in Nat : Append(s, n) \in Seq(Nat)
  OBVIOUS
<1>2. s # <<>> => Head(s) \in Nat /\ Tail(s) \in Seq(Nat)
  OBVIOUS
<1>3. ASSUME NEW n \in 0..Len(s)
      PROVE  SubSeq(s, 1, n) \in Seq(Nat) /\ SubSeq(s, n + 1, Len(s)) \in Seq(Nat)
  BY Splits
<1> QED BY <1>1, <1>2, <1>3

LEMMA ReturnTypes ==
  ASSUME Types, NEW c \in Conns, Return(c)
  PROVE  ShutT' /\ PlaceT' /\ AppT' /\ UpT' /\ DownT' /\ dead' \in SUBSET Conns
<1>1. ShutT'
  BY SameTypes DEF Return
<1>2. PlaceT'
  BY DEF Types, PlaceT, Places, Return
<1>3. load' = load /\ load[c] \in Load
  BY DEF Return, shutVars, Types, ShutT
<1>4. AppT'
  <2>1. kind' \in [Conns -> Kinds] /\ app' \in [Conns -> {"open", "half", "away"}] /\ replied' \in SUBSET Conns
    BY DEF Types, AppT, Return, Kinds
  <2>2. sent' \in [Conns -> Nat] /\ sent'[c] = 0 /\ \A d \in Conns \ {c} : sent'[d] = sent[d]
    BY DEF Types, AppT, Return
  <2>3. 0 <= load[c].up
    BY <1>3 DEF Load
  <2> QED BY <1>3, <2>1, <2>2, <2>3 DEF Types, AppT
<1>5. UpT'
  BY DEF Types, UpT, Return, CopySteps
<1>6. DownT'
  <2>1. down' \in [Conns -> CopySteps] /\ destEOF' \in SUBSET Conns
    BY DEF Types, DownT, Return, CopySteps
  <2>2. pending' \in [Conns -> Nat] /\ pending'[c] = 0 /\ \A d \in Conns \ {c} : pending'[d] = pending[d]
    BY DEF Types, DownT, Return
  <2>3. 0 <= load[c].down
    BY <1>3 DEF Load
  <2> QED BY <1>3, <2>1, <2>2, <2>3 DEF Types, DownT
<1>7. dead' \in SUBSET Conns
  BY DEF Types, StreamT, Return
<1> QED BY <1>1, <1>2, <1>4, <1>5, <1>6, <1>7

LEMMA InitTypes == Init => Types
<1> SUFFICES ASSUME Init PROVE Types
  OBVIOUS
<1>1. load \in [Conns -> Load]
  BY LocalProxyAssumption DEF Init
<1>2. ShutT
  BY ZenonT(60), <1>1 DEF Init, ShutT
<1>3. \A c \in Conns : 0 <= load[c].up /\ 0 <= load[c].down
  BY <1>1 DEF Load
<1>4. PlaceT
  BY DEF Init, PlaceT, Places
<1>5. AppT
  BY <1>3 DEF Init, AppT, Kinds
<1>6. UpT
  BY DEF Init, UpT, CopySteps
<1>7. DownT
  BY <1>3 DEF Init, DownT, CopySteps
<1>8. StreamT
  BY DEF Init, StreamT
<1> QED BY <1>2, <1>4, <1>5, <1>6, <1>7, <1>8 DEF Types

LEMMA CloseTypes ==
  ASSUME Types, NEW c \in Conns, CloseTarget(c)
  PROVE  target' \in [Conns -> {"none", "open", "counted", "closed"}]
  BY DEF Types, StreamT, CloseTarget

LEMMA ReturnCloses ==
  ASSUME Types, NEW c \in Conns, Return(c), CloseTarget(c) \/ UNCHANGED streamVars
  PROVE  Types'
<1>1. target' \in [Conns -> {"none", "open", "counted", "closed"}]
  BY CloseTypes DEF Types, StreamT, streamVars
<1> QED BY <1>1, ReturnTypes DEF Types, StreamT

LEMMA ShutdownTypes ==
  ASSUME Types, BeginShutdown \/ Shutdown \/ SessionLost
  PROVE  Types'
<1>1. PlaceT' /\ UpT'
  BY SameTypes DEF BeginShutdown, Shutdown, CloseListener, DrainTick, DrainExpires, ManagerClose, SessionLost
<1>2. UNCHANGED load
  BY DEF BeginShutdown, Shutdown, CloseListener, DrainTick, DrainExpires, ManagerClose, SessionLost, shutVars
<1>3. AppT' /\ DownT'
  BY <1>2, SameTypes DEF BeginShutdown, Shutdown, CloseListener, DrainTick, DrainExpires, ManagerClose, SessionLost
<1>4. ShutT'
  <2>1. CASE SessionLost
    BY <2>1, SameTypes DEF SessionLost
  <2>2. CASE BeginShutdown
    BY <2>2, LocalProxyAssumption DEF BeginShutdown, Types, ShutT, Counted
  <2>3. CASE CloseListener
    BY <2>3 DEF CloseListener, Types, ShutT
  <2>4. CASE DrainTick \/ DrainExpires \/ ManagerClose
    BY ZenonT(60), <2>4 DEF DrainTick, DrainExpires, ManagerClose, Types, ShutT
  <2> QED BY <2>1, <2>2, <2>3, <2>4 DEF Shutdown
<1>5. StreamT'
  <2>1. UNCHANGED target
    BY DEF BeginShutdown, Shutdown, CloseListener, DrainTick, DrainExpires, ManagerClose, SessionLost, streamVars
  <2>2. UNCHANGED dead \/ Sever
    BY DEF BeginShutdown, Shutdown, CloseListener, DrainTick, DrainExpires, ManagerClose, SessionLost
  <2> QED BY <2>1, <2>2 DEF Types, StreamT, Sever
<1> QED BY <1>1, <1>3, <1>4, <1>5 DEF Types

LEMMA EnvironmentTypes ==
  ASSUME Types, NEW c \in Conns, Environment(c)
  PROVE  Types'
<1>1. ShutT' /\ UNCHANGED load
  BY SameTypes DEF Environment, AppSend, AppEnds, DestSend, DestEnds, Accept, shutVars
<1>2. PlaceT'
  <2>1. UNCHANGED pc \/ pc' = [pc EXCEPT ![c] = "reading"]
    BY DEF Environment, AppSend, AppEnds, DestSend, DestEnds, Accept
  <2> QED BY <2>1 DEF Types, PlaceT, Places
<1>3. AppT'
  <2>1. CASE AppSend(c)
    <3>1. sent[c] \in Nat /\ load[c] \in Load /\ sent[c] < load[c].up
      BY <2>1 DEF AppSend, Types, AppT, ShutT
    <3>2. sent[c] + 1 \in Nat /\ sent[c] + 1 <= load[c].up
      BY <3>1 DEF Load
    <3>3. /\ sent' \in [Conns -> Nat] /\ sent'[c] = sent[c] + 1
          /\ \A d \in Conns \ {c} : sent'[d] = sent[d]
      BY <2>1, <3>2 DEF AppSend, Types, AppT
    <3>4. \A d \in Conns : sent'[d] <= load'[d].up
      BY <1>1, <3>2, <3>3 DEF Types, AppT
    <3> QED BY <2>1, <3>3, <3>4 DEF AppSend, Types, AppT
  <2>2. CASE AppEnds(c, "half") \/ AppEnds(c, "away")
    BY <1>1, <2>2 DEF AppEnds, Types, AppT
  <2>3. CASE DestSend(c) \/ DestEnds(c)
    BY <1>1, <2>3, SameTypes DEF DestSend, DestEnds
  <2>4. CASE \E k \in Kinds : Accept(c, k)
    BY <1>1, <2>4 DEF Accept, Types, AppT
  <2> QED BY <2>1, <2>2, <2>3, <2>4 DEF Environment
<1>4. UpT'
  <2>1. CASE AppSend(c)
    <3>1. Append(socket[c], sent[c] + 1) \in Seq(Nat)
      BY <2>1 DEF AppSend, Types, AppT, UpT
    <3> QED BY <2>1, <3>1 DEF AppSend, Types, UpT
  <2>2. CASE ~AppSend(c)
    BY <2>2, SameTypes DEF Environment, AppEnds, DestSend, DestEnds, Accept
  <2> QED BY <2>1, <2>2
<1>5. DownT'
  <2>1. CASE DestSend(c)
    <3>1. pending[c] \in Nat /\ load[c] \in Load /\ pending[c] < load[c].down
      BY <2>1 DEF DestSend, Types, DownT, ShutT
    <3>2. pending[c] + 1 \in Nat /\ pending[c] + 1 <= load[c].down
      BY <3>1 DEF Load
    <3>3. /\ pending' \in [Conns -> Nat] /\ pending'[c] = pending[c] + 1
          /\ \A d \in Conns \ {c} : pending'[d] = pending[d]
      BY <2>1, <3>2 DEF DestSend, Types, DownT
    <3>4. \A d \in Conns : pending'[d] <= load'[d].down
      BY <1>1, <3>2, <3>3 DEF Types, DownT
    <3> QED BY <2>1, <3>3, <3>4 DEF DestSend, Types, DownT
  <2>2. CASE DestEnds(c)
    BY ZenonT(60), <1>1, <2>2 DEF DestEnds, Types, DownT
  <2>3. CASE ~DestSend(c) /\ ~DestEnds(c)
    BY <1>1, <2>3, SameTypes DEF Environment, AppSend, AppEnds, Accept
  <2> QED BY <2>1, <2>2, <2>3
<1>6. StreamT'
  BY SameTypes DEF Environment, AppSend, AppEnds, DestSend, DestEnds, Accept, streamVars
<1> QED BY <1>1, <1>2, <1>3, <1>4, <1>5, <1>6 DEF Types

LEMMA HandlerTypes ==
  ASSUME Types, NEW c \in Conns, Handler(c)
  PROVE  Types'
<1>1. CASE RequestFails(c) \/ HandlerFails(c) \/ DeferredClose(c) \/ (RelayReturns(c) /\ kind[c] # "socks")
  BY <1>1, ReturnCloses DEF RequestFails, HandlerFails, giveUp, DeferredClose, RelayReturns
<1>2. CASE RelayReturns(c) /\ kind[c] = "socks"
  <2>1. UNCHANGED <<shutVars, appVars, upVars, downVars, dead>> /\ pc' = [pc EXCEPT ![c] = "deferred"]
    BY <1>2 DEF RelayReturns
  <2>2. UNCHANGED load
    BY <2>1 DEF shutVars
  <2>3. PlaceT'
    BY <2>1 DEF Types, PlaceT, Places
  <2>4. StreamT'
    BY <1>2, <2>1, CloseTypes DEF RelayReturns, Types, StreamT
  <2> QED BY <2>1, <2>2, <2>3, <2>4, SameTypes DEF Types
<1>3. CASE ReadRequest(c)
  <2>1. UNCHANGED <<shutVars, appVars, atDest, up, localEOF, downVars, streamVars, dead>>
    BY <1>3 DEF ReadRequest
  <2>2. UNCHANGED load /\ UNCHANGED <<target, dead>>
    BY <2>1 DEF shutVars, streamVars
  <2>3. PlaceT'
    BY <1>3 DEF ReadRequest, Goto, Types, PlaceT, Places
  <2>4. socket[c] \in Seq(Nat)
    BY DEF Types, UpT
  <2>5. PICK n \in readOver(c) :
          /\ buf' = [buf EXCEPT ![c] = SubSeq(socket[c], 1, n)]
          /\ socket' = [socket EXCEPT ![c] = SubSeq(socket[c], n + 1, Len(socket[c]))]
    BY ZenonT(60), <1>3 DEF ReadRequest
  <2>6. n \in 0..Len(socket[c])
    BY <2>4, <2>5 DEF readOver
  <2>7. UpT'
    BY <2>1, <2>4, <2>5, <2>6, SeqTypes DEF Types, UpT
  <2> QED BY <2>1, <2>2, <2>3, <2>7, SameTypes DEF Types
<1>4. CASE Dial(c) \/ Count(c)
  <2>1. UNCHANGED <<shutVars, appVars, upVars, downVars, dead>>
    BY <1>4 DEF Dial, Count
  <2>2. UNCHANGED load
    BY <2>1 DEF shutVars
  <2>3. PlaceT'
    BY <1>4 DEF Dial, Count, Goto, Types, PlaceT, Places
  <2>4. StreamT'
    BY <1>4, <2>1 DEF Dial, Count, Types, StreamT
  <2> QED BY <2>1, <2>2, <2>3, <2>4, SameTypes DEF Types
<1>5. CASE Reply(c) \/ BodyWritten(c)
  <2>1. UNCHANGED <<shutVars, target, dead, kind, app, sent, socket, buf, atDest, destEOF, pending>>
    BY <1>5 DEF Reply, BodyWritten, appVars, streamVars
  <2>2. UNCHANGED load
    BY <2>1 DEF shutVars
  <2>3. PlaceT'
    BY <1>5 DEF Reply, BodyWritten, Goto, Types, PlaceT, Places
  <2>4. AppT'
    <3>1. replied' \in SUBSET Conns
      BY <1>5 DEF Reply, BodyWritten, appVars, Types, AppT
    <3> QED BY ZenonT(60), <2>1, <2>2, <3>1 DEF Types, AppT
  <2>5. UpT'
    BY ZenonT(60), <1>5, <2>1 DEF Reply, BodyWritten, closeWrite, Types, UpT, CopySteps
  <2>6. DownT'
    <3>1. down' \in [Conns -> CopySteps]
      BY <1>5 DEF Reply, BodyWritten, Types, DownT, CopySteps
    <3> QED BY <2>1, <2>2, <3>1 DEF Types, DownT
  <2> QED BY <2>1, <2>3, <2>4, <2>5, <2>6, SameTypes DEF Types
<1>6. CASE WriteBody(c)
  <2>1. UNCHANGED <<shutVars, pc, appVars, up, localEOF, downVars, streamVars, dead>>
    BY <1>6 DEF WriteBody
  <2>2. UNCHANGED load /\ UNCHANGED <<target, dead>>
    BY <2>1 DEF shutVars, streamVars
  <2>3. UpT'
    <3>1. socket[c] \in Seq(Nat) /\ buf[c] \in Seq(Nat) /\ atDest[c] \in Seq(Nat)
      BY DEF Types, UpT
    <3>2. CASE buf[c] # <<>>
      <4>1. Append(atDest[c], Head(buf[c])) \in Seq(Nat) /\ Tail(buf[c]) \in Seq(Nat)
        BY <3>1, <3>2, SeqTypes
      <4> QED BY ZenonT(60), <1>6, <2>1, <3>2, <4>1 DEF WriteBody, Types, UpT
    <3>3. CASE buf[c] = <<>>
      <4>1. socket[c] # <<>>
        BY <1>6, <3>3 DEF WriteBody
      <4>2. Append(atDest[c], Head(socket[c])) \in Seq(Nat) /\ Tail(socket[c]) \in Seq(Nat)
        BY <3>1, <4>1, SeqTypes
      <4> QED BY ZenonT(60), <1>6, <2>1, <3>3, <4>2 DEF WriteBody, Types, UpT
    <3> QED BY <3>2, <3>3
  <2> QED BY <2>1, <2>2, <2>3, SameTypes DEF Types
<1> QED BY <1>1, <1>2, <1>3, <1>4, <1>5, <1>6 DEF Handler

LEMMA CopyTypes ==
  ASSUME Types, NEW c \in Conns, CopyUp(c) \/ CopyDown(c)
  PROVE  Types'
<1>1. ShutT' /\ PlaceT' /\ StreamT' /\ UNCHANGED load
  BY SameTypes DEF CopyUp, CopyDown, shutVars, streamVars
<1>2. AppT'
  BY <1>1, SameTypes DEF CopyUp, CopyDown
<1>3. CASE CopyUp(c)
  <2>1. socket[c] \in Seq(Nat) /\ atDest[c] \in Seq(Nat)
    BY DEF Types, UpT
  <2>2. CASE socket[c] # <<>> /\ c \notin dead
    <3>1. Append(atDest[c], Head(socket[c])) \in Seq(Nat) /\ Tail(socket[c]) \in Seq(Nat)
      BY <2>1, <2>2, SeqTypes
    <3>2. UpT'
      BY ZenonT(60), <1>3, <2>2, <3>1 DEF CopyUp, Types, UpT
    <3> QED BY <1>1, <1>2, <1>3, <3>2, SameTypes DEF CopyUp, Types
  <2>3. CASE ~(socket[c] # <<>> /\ c \notin dead)
    <3>1. UpT'
      BY ZenonT(60), <1>3, <2>3 DEF CopyUp, closeWrite, Types, UpT, CopySteps
    <3> QED BY <1>1, <1>2, <1>3, <3>1, SameTypes DEF CopyUp, Types
  <2> QED BY <2>2, <2>3
<1>4. CASE CopyDown(c)
  <2>1. UpT'
    BY <1>4, SameTypes DEF CopyDown
  <2>2. CASE pending[c] > 0 /\ pending' = [pending EXCEPT ![c] = @ - 1] /\ UNCHANGED down
    <3>1. pending[c] \in Nat /\ pending[c] <= load[c].down /\ load[c] \in Load
      BY DEF Types, DownT, ShutT
    <3>2. pending[c] - 1 \in Nat /\ pending[c] - 1 <= load[c].down
      BY <2>2, <3>1 DEF Load
    <3>3. /\ pending' \in [Conns -> Nat] /\ pending'[c] = pending[c] - 1
          /\ \A d \in Conns \ {c} : pending'[d] = pending[d]
      BY ZenonT(60), <2>2, <3>2 DEF Types, DownT
    <3>4. DownT'
      BY ZenonT(60), <1>1, <1>4, <2>2, <3>2, <3>3 DEF CopyDown, Types, DownT
    <3> QED BY <1>1, <1>2, <2>1, <3>4 DEF Types
  <2>3. CASE down' = [down EXCEPT ![c] = "done"] /\ UNCHANGED pending
    <3>1. DownT'
      BY <1>1, <1>4, <2>3 DEF CopyDown, Types, DownT, CopySteps
    <3> QED BY <1>1, <1>2, <2>1, <3>1 DEF Types
  <2> QED BY <1>4, <2>2, <2>3 DEF CopyDown
<1> QED BY <1>3, <1>4

LEMMA NextTypes == Types /\ [Next]_vars => Types'
<1> SUFFICES ASSUME Types, [Next]_vars PROVE Types'
  OBVIOUS
<1>1. CASE UNCHANGED vars
  <2>1. UNCHANGED <<shutVars, load, pc, appVars, upVars, downVars, target, dead>>
    BY <1>1 DEF vars, shutVars, streamVars
  <2> QED BY <2>1, SameTypes DEF Types
<1>2. CASE Next
  BY <1>2, ShutdownTypes, EnvironmentTypes, HandlerTypes, CopyTypes DEF Next
<1> QED BY <1>1, <1>2

-----------------------------------------------------------------------------
(* What an application sends                                               *)

\* a, b and s together are 1 .. n: what is at the destination, in the handler's
\* reader, and in the socket.
Lined(a, b, s, n) ==
  /\ \A i \in 1..Len(a) : a[i] = i
  /\ \A i \in 1..Len(b) : b[i] = Len(a) + i
  /\ \A i \in 1..Len(s) : s[i] = Len(a) + Len(b) + i
  /\ Len(a) + Len(b) + Len(s) = n

\* The connections that UploadIntact is about.
Promised(c) == kind[c] # "connect" \/ ~load[c].eager

Unanswered == {"none", "reading", "dialing", "dialed", "reply"}

\* Of a connection that no handler has: nothing is left of it.
Blank(c) ==
  /\ socket[c] = <<>> /\ buf[c] = <<>> /\ atDest[c] = <<>>
  /\ sent[c] = 0 /\ up[c] = "idle"

\* A tunnel was answered before its copies run, and they run in no other place.
TunnelOK(c) ==
  /\ pc[c] \in {"none", "gone"} => Blank(c)
  /\ pc[c] = "reading" => buf[c] = <<>> /\ atDest[c] = <<>>
  /\ c \in replied => pc[c] \notin Unanswered
  /\ pc[c] = "reply" => kind[c] # "plain"
  /\ up[c] # "idle" => pc[c] \in {"relay", "deferred"}
  /\ up[c] = "copying" => kind[c] # "plain"

\* What was sent is on its way in order; only a plain request has items in the
\* reader once it is read; and what ended without a failure has passed all on.
PassedOn(c) ==
  /\ Lined(atDest[c], buf[c], socket[c], sent[c])
  /\ kind[c] # "plain" => buf[c] = <<>>
  /\ kind[c] = "connect" /\ pc[c] \in Unanswered => socket[c] = <<>>
  /\ up[c] = "done" /\ c \notin dead =>
       Len(atDest[c]) = sent[c] /\ (app[c] # "open" \/ sent[c] = load[c].up)

UpInv == \A c \in Conns : TunnelOK(c) /\ (Promised(c) => PassedOn(c))

LEMMA Sums ==
  ASSUME NEW x \in Nat, NEW y \in Nat, NEW z \in Nat, NEW m \in Nat
  PROVE  /\ x + y + (z + 1) = (x + y + z) + 1
         /\ (x + 1) + (y - 1) = x + y
         /\ (x + 1) + 0 + (z - 1) = x + 0 + z
         /\ x + m + (z - m) = x + 0 + z
OBVIOUS

\* Nothing sent and nothing received is in line.
LEMMA NothingLined == Lined(<<>>, <<>>, <<>>, 0)
BY DEF Lined

\* What may happen to three such sequences.
LEMMA LinedSteps ==
  ASSUME NEW a \in Seq(Nat), NEW b \in Seq(Nat), NEW s \in Seq(Nat), NEW n \in Nat, Lined(a, b, s, n)
  PROVE  /\ Len(a) \in Nat /\ Len(a) <= n
         /\ b = <<>> /\ s = <<>> => Len(a) = n
         /\ Lined(a, b, Append(s, n + 1), n + 1)
         /\ b # <<>> => Lined(Append(a, Head(b)), Tail(b), s, n)
         /\ b = <<>> /\ s # <<>> => Lined(Append(a, Head(s)), b, Tail(s), n)
         /\ b = <<>> => \A m \in 0..Len(s) : Lined(a, SubSeq(s, 1, m), SubSeq(s, m + 1, Len(s)), n)
<1>1. Len(a) \in Nat /\ Len(b) \in Nat /\ Len(s) \in Nat
  OBVIOUS
<1>0. Len(a) + Len(b) + Len(s) = n
  BY DEF Lined
<1>2. Len(a) <= n
  BY <1>0, <1>1
<1>3. b = <<>> /\ s = <<>> => Len(a) = n
  BY <1>0, <1>1
<1>4. Lined(a, b, Append(s, n + 1), n + 1)
  <2>1. /\ Len(Append(s, n + 1)) = Len(s) + 1
        /\ \A i \in 1..Len(s) : Append(s, n + 1)[i] = s[i]
        /\ Append(s, n + 1)[Len(s) + 1] = n + 1
    OBVIOUS
  <2>2. ASSUME NEW i \in 1..(Len(s) + 1) PROVE Append(s, n + 1)[i] = Len(a) + Len(b) + i
    <3>1. CASE i \in 1..Len(s)
      BY <2>1, <3>1 DEF Lined
    <3>2. CASE i = Len(s) + 1
      <4>1. Append(s, n + 1)[i] = n + 1
        BY <2>1, <3>2
      <4>2. n + 1 = Len(a) + Len(b) + (Len(s) + 1)
        BY <1>0, <1>1, Sums
      <4> QED BY <3>2, <4>1, <4>2, ZenonT(60)
    <3>3. i \in 1..Len(s) \/ i = Len(s) + 1
      BY <1>1
    <3> QED BY ZenonT(60), <3>1, <3>2, <3>3
  <2>3. Len(a) + Len(b) + (Len(s) + 1) = n + 1
    BY <1>0, <1>1, Sums
  <2> QED BY <2>1, <2>2, <2>3 DEF Lined
<1>5. ASSUME b # <<>> PROVE Lined(Append(a, Head(b)), Tail(b), s, n)
  <2>1. Len(b) >= 1 /\ Head(b) = b[1] /\ Len(Tail(b)) = Len(b) - 1 /\ \A i \in 1..Len(Tail(b)) : Tail(b)[i] = b[i + 1]
    BY <1>5
  <2>2. /\ Len(Append(a, Head(b))) = Len(a) + 1
        /\ \A i \in 1..Len(a) : Append(a, Head(b))[i] = a[i]
        /\ Append(a, Head(b))[Len(a) + 1] = Head(b)
    OBVIOUS
  <2>3. Head(b) = Len(a) + 1
    BY <1>1, <2>1 DEF Lined
  <2>4. \A i \in 1..(Len(a) + 1) : Append(a, Head(b))[i] = i
    BY <1>1, <2>2, <2>3 DEF Lined
  <2>5. \A i \in 1..Len(Tail(b)) : Tail(b)[i] = (Len(a) + 1) + i
    BY <1>1, <2>1 DEF Lined
  <2>6. (Len(a) + 1) + Len(Tail(b)) = Len(a) + Len(b)
    <3>1. Len(Tail(b)) = Len(b) - 1
      BY <2>1
    <3>2. (Len(a) + 1) + (Len(b) - 1) = Len(a) + Len(b)
      BY <1>1
    <3> QED BY <3>1, <3>2, ZenonT(60)
  <2>7. \A i \in 1..Len(s) : s[i] = (Len(a) + 1) + Len(Tail(b)) + i
    BY ZenonT(60), <1>1, <2>6 DEF Lined
  <2>8. (Len(a) + 1) + Len(Tail(b)) + Len(s) = n
    BY ZenonT(60), <1>1, <2>6 DEF Lined
  <2> QED BY ZenonT(60), <2>2, <2>4, <2>5, <2>7, <2>8 DEF Lined
<1>6. ASSUME b = <<>>, s # <<>> PROVE Lined(Append(a, Head(s)), b, Tail(s), n)
  <2>1. Len(s) >= 1 /\ Head(s) = s[1] /\ Len(Tail(s)) = Len(s) - 1 /\ \A i \in 1..Len(Tail(s)) : Tail(s)[i] = s[i + 1]
    BY <1>6
  <2>2. /\ Len(Append(a, Head(s))) = Len(a) + 1
        /\ \A i \in 1..Len(a) : Append(a, Head(s))[i] = a[i]
        /\ Append(a, Head(s))[Len(a) + 1] = Head(s)
    OBVIOUS
  <2>3. Len(b) = 0
    BY <1>6
  <2>4. Head(s) = Len(a) + 1
    BY <1>1, <2>1, <2>3 DEF Lined
  <2>5. \A i \in 1..(Len(a) + 1) : Append(a, Head(s))[i] = i
    BY <1>1, <2>2, <2>4 DEF Lined
  <2>6. \A i \in 1..Len(Tail(s)) : Tail(s)[i] = (Len(a) + 1) + 0 + i
    BY <1>1, <2>1, <2>3 DEF Lined
  <2>7. (Len(a) + 1) + 0 + Len(Tail(s)) = n
    <3>1. Len(Tail(s)) = Len(s) - 1
      BY <2>1
    <3>2. (Len(a) + 1) + 0 + (Len(s) - 1) = Len(a) + 0 + Len(s)
      BY <1>1
    <3>3. Len(a) + 0 + Len(s) = n
      BY <1>0, <2>3, ZenonT(60)
    <3> QED BY <3>1, <3>2, <3>3, ZenonT(60)
  <2>8. \A i \in 1..Len(Append(a, Head(s))) : Append(a, Head(s))[i] = i
    BY <2>2, <2>5, ZenonT(60)
  <2>10. \A i \in 1..Len(b) : b[i] = Len(Append(a, Head(s))) + i
    BY <2>3
  <2>11. \A i \in 1..Len(Tail(s)) : Tail(s)[i] = Len(Append(a, Head(s))) + Len(b) + i
    BY <2>2, <2>3, <2>6, ZenonT(60)
  <2>9. Len(Append(a, Head(s))) + Len(b) + Len(Tail(s)) = n
    BY <2>2, <2>3, <2>7, ZenonT(60)
  <2> QED BY <2>8, <2>9, <2>10, <2>11, ZenonT(60) DEF Lined
<1>7. ASSUME b = <<>>, NEW m \in 0..Len(s)
      PROVE  Lined(a, SubSeq(s, 1, m), SubSeq(s, m + 1, Len(s)), n)
  <2>1. Len(SubSeq(s, 1, m)) = m /\ \A i \in 1..m : SubSeq(s, 1, m)[i] = s[i]
    BY Splits
  <2>2. /\ Len(SubSeq(s, m + 1, Len(s))) = Len(s) - m
        /\ \A i \in 1..(Len(s) - m) : SubSeq(s, m + 1, Len(s))[i] = s[m + i]
    BY Splits
  <2>3. Len(b) = 0
    BY <1>7
  <2>4. \A i \in 1..m : SubSeq(s, 1, m)[i] = Len(a) + i
    BY <1>1, <2>1, <2>3 DEF Lined
  <2>5. \A i \in 1..(Len(s) - m) : SubSeq(s, m + 1, Len(s))[i] = Len(a) + m + i
    BY <1>1, <2>2, <2>3 DEF Lined
  <2>6. Len(a) + m + (Len(s) - m) = n
    BY <1>0, <1>1, <2>3, Sums
  <2>7. \A i \in 1..Len(a) : a[i] = i
    BY DEF Lined
  <2> QED BY ZenonT(60), <2>1, <2>2, <2>4, <2>5, <2>6, <2>7 DEF Lined
<1> QED BY <1>1, <1>2, <1>3, <1>4, <1>5, <1>6, <1>7

LEMMA UploadTypes ==
  ASSUME Types, NEW c \in Conns
  PROVE  /\ socket[c] \in Seq(Nat) /\ buf[c] \in Seq(Nat) /\ atDest[c] \in Seq(Nat)
         /\ sent[c] \in Nat /\ load[c] \in Load /\ load[c].up \in Nat /\ sent[c] <= load[c].up
<1>1. load[c] \in Load
  BY DEF Types, ShutT
<1> QED BY <1>1 DEF Types, UpT, AppT, Load

\* A step of another connection, or of Shutdown.
Aside(c) ==
  /\ pc'[c] = pc[c] /\ kind'[c] = kind[c] /\ app'[c] = app[c] /\ sent'[c] = sent[c]
  /\ socket'[c] = socket[c] /\ buf'[c] = buf[c] /\ atDest'[c] = atDest[c] /\ up'[c] = up[c]
  /\ load'[c] = load[c]
  /\ (c \in replied') = (c \in replied)
  /\ c \in dead => c \in dead'

LEMMA AsideKeeps ==
  ASSUME NEW c \in Conns, Aside(c)
  PROVE  /\ TunnelOK(c) => TunnelOK(c)'
         /\ Promised(c)' = Promised(c)
         /\ PassedOn(c) => PassedOn(c)'
<1>1. TunnelOK(c) => TunnelOK(c)'
  BY ZenonT(60) DEF Aside, TunnelOK, Blank
<1>2. Promised(c)' = Promised(c)
  BY DEF Aside, Promised
<1>3. PassedOn(c) => PassedOn(c)'
  BY DEF Aside, PassedOn
<1> QED BY ZenonT(60), <1>1, <1>2, <1>3

\* Whatever Shutdown, the network or another connection does.
LEMMA ElsewhereAside ==
  ASSUME Types, NEW c \in Conns, NEW d \in Conns, c # d
  PROVE  /\ BeginShutdown \/ Shutdown \/ SessionLost => Aside(c)
         /\ Environment(d) \/ Handler(d) \/ CopyUp(d) \/ CopyDown(d) => Aside(c)
<1>1. BeginShutdown \/ Shutdown \/ SessionLost => Aside(c)
  BY ZenonT(60) DEF BeginShutdown, Shutdown, CloseListener, DrainTick, DrainExpires, ManagerClose, SessionLost, Sever,
         Aside, appVars, upVars, shutVars
<1>2. Environment(d) => Aside(c)
  BY ZenonT(60) DEF Environment, AppSend, AppEnds, DestSend, DestEnds, Accept, Aside, appVars, upVars, shutVars,
         Types, PlaceT, AppT, UpT
<1>3. CopyUp(d) \/ CopyDown(d) => Aside(c)
  BY ZenonT(60) DEF CopyUp, CopyDown, Aside, appVars, upVars, shutVars, Types, PlaceT, AppT, UpT
<1>4. Return(d) => Aside(c)
  <2> SUFFICES ASSUME Return(d) PROVE Aside(c)
    OBVIOUS
  <2>1. pc'[c] = pc[c] /\ kind'[c] = kind[c] /\ app'[c] = app[c] /\ sent'[c] = sent[c]
    BY ZenonT(60) DEF Return, Types, PlaceT, AppT
  <2>2. socket'[c] = socket[c] /\ buf'[c] = buf[c] /\ atDest'[c] = atDest[c] /\ up'[c] = up[c]
    BY ZenonT(60) DEF Return, Types, UpT
  <2>3. load'[c] = load[c] /\ (c \in replied') = (c \in replied) /\ (c \in dead => c \in dead')
    <3>1. load' = load /\ replied' = replied \ {d} /\ dead' = dead \ {d}
      BY ZenonT(60) DEF Return, shutVars
    <3> QED BY <3>1
  <2> QED BY ZenonT(60), <2>1, <2>2, <2>3 DEF Aside
<1>5. ReadRequest(d) \/ Dial(d) \/ Count(d) \/ WriteBody(d) => Aside(c)
  BY ZenonT(60) DEF ReadRequest, Dial, Count, WriteBody, Goto, Aside, appVars, upVars, shutVars, Types, PlaceT, AppT, UpT
<1>6. Reply(d) \/ BodyWritten(d) => Aside(c)
  <2>1. Reply(d) => Aside(c)
    <3> SUFFICES ASSUME Reply(d) PROVE Aside(c)
      OBVIOUS
    <3>1. replied' = replied \cup {d}
      BY ZenonT(60) DEF Reply
    <3>2. (c \in replied') = (c \in replied)
      BY <3>1
    <3> QED BY ZenonT(60), <3>2 DEF Reply, Goto, Aside, shutVars, Types, PlaceT, UpT
  <2>2. BodyWritten(d) => Aside(c)
    BY ZenonT(60) DEF BodyWritten, Goto, Aside, appVars, shutVars, Types, PlaceT, UpT
  <2> QED BY ZenonT(60), <2>1, <2>2
<1>7. RelayReturns(d) => Aside(c)
  BY ZenonT(60), <1>4 DEF RelayReturns, Aside, appVars, upVars, shutVars, Types, PlaceT, AppT, UpT
<1>8. Handler(d) => Aside(c)
  BY <1>4, <1>5, <1>6, <1>7 DEF Handler, RequestFails, HandlerFails, DeferredClose
<1> QED BY ZenonT(60), <1>1, <1>2, <1>3, <1>8

\* A connection that a handler has left starts afresh.
LEMMA ReturnsBlank ==
  ASSUME Types, NEW c \in Conns, Return(c)
  PROVE  TunnelOK(c)' /\ PassedOn(c)'
<1>1. Blank(c)'
  BY DEF Return, Blank, Types, AppT, UpT
<1>2. pc'[c] = "gone" /\ kind'[c] = "connect" /\ c \notin replied'
  BY DEF Return, Types, PlaceT, AppT
<1>3. TunnelOK(c)'
  BY <1>1, <1>2 DEF TunnelOK, Blank, Unanswered
<1>4. Lined(<<>>, <<>>, <<>>, 0)
  BY NothingLined
<1>5. PassedOn(c)'
  BY <1>1, <1>2, <1>4 DEF PassedOn, Blank, Unanswered
<1> QED BY <1>3, <1>5

LEMMA EnvironmentUp ==
  ASSUME Types, NEW c \in Conns, TunnelOK(c), Promised(c) => PassedOn(c), Environment(c)
  PROVE  TunnelOK(c)' /\ (Promised(c)' => PassedOn(c)')
<1>1. CASE DestSend(c) \/ DestEnds(c)
  <2>1. Aside(c)
    BY ZenonT(60), <1>1 DEF DestSend, DestEnds, Aside, shutVars, appVars, upVars
  <2> QED BY <2>1, AsideKeeps
<1>2. CASE AppEnds(c, "half") \/ AppEnds(c, "away")
  <2>1. /\ UNCHANGED <<pc, kind, sent, replied, socket, buf, atDest, up, load, dead>>
        /\ app'[c] # "open"
    BY ZenonT(60), <1>2 DEF AppEnds, shutVars, upVars, Types, AppT
  <2> QED BY ZenonT(60), <2>1 DEF TunnelOK, Blank, PassedOn, Promised
<1>3. CASE AppSend(c)
  <2>1. UNCHANGED <<pc, kind, app, replied, buf, atDest, up, load, dead>>
    BY ZenonT(60), <1>3 DEF AppSend, shutVars
  <2>2. sent'[c] = sent[c] + 1 /\ socket'[c] = Append(socket[c], sent[c] + 1)
    BY ZenonT(60), <1>3 DEF AppSend, Types, AppT, UpT
  <2>3. pc[c] \notin {"none", "gone"}
    BY ZenonT(60), <1>3 DEF AppSend, Connected
  <2>4. TunnelOK(c)'
    BY ZenonT(60), <2>1, <2>3 DEF TunnelOK
  <2>5. ASSUME Promised(c)' PROVE PassedOn(c)'
    <3>1. PassedOn(c)
      BY ZenonT(60), <2>1, <2>5 DEF Promised
    <3>2. Lined(atDest[c], buf[c], Append(socket[c], sent[c] + 1), sent[c] + 1)
      BY ZenonT(60), <3>1, UploadTypes, LinedSteps DEF PassedOn
    <3>3. ~(up[c] = "done" /\ c \notin dead)
      <4>1. up[c] = "done" /\ c \notin dead => sent[c] = load[c].up \/ app[c] # "open"
        BY ZenonT(60), <3>1 DEF PassedOn
      <4>2. sent[c] < load[c].up /\ app[c] = "open"
        BY ZenonT(60), <1>3 DEF AppSend
      <4>3. sent[c] # load[c].up
        BY <4>2, UploadTypes
      <4> QED BY ZenonT(60), <4>1, <4>2, <4>3
    <3>4. ~(kind[c] = "connect" /\ pc[c] \in Unanswered)
      BY ZenonT(60), <1>3, <2>1, <2>5 DEF AppSend, Promised, TunnelOK
    <3> QED BY ZenonT(60), <2>1, <2>2, <3>1, <3>2, <3>3, <3>4 DEF PassedOn
  <2> QED BY ZenonT(60), <2>4, <2>5
<1>4. CASE \E k \in Kinds : Accept(c, k)
  <2>1. UNCHANGED <<app, sent, replied, socket, buf, atDest, up, load, dead>> /\ pc'[c] = "reading" /\ pc[c] = "none"
    BY <1>4 DEF Accept, shutVars, upVars, Types, PlaceT
  <2>2. Blank(c) /\ c \notin replied
    BY ZenonT(60), <2>1 DEF TunnelOK, Unanswered
  <2>3. TunnelOK(c)'
    BY <2>1, <2>2 DEF TunnelOK, Blank
  <2>4. Lined(<<>>, <<>>, <<>>, 0)
    BY NothingLined
  <2>5. PassedOn(c)'
    BY ZenonT(60), <2>1, <2>2, <2>4 DEF PassedOn, Blank
  <2> QED BY <2>3, <2>5
<1> QED BY <1>1, <1>2, <1>3, <1>4 DEF Environment

LEMMA CopyUpKeeps ==
  ASSUME Types, NEW c \in Conns, TunnelOK(c), Promised(c) => PassedOn(c), CopyUp(c) \/ CopyDown(c)
  PROVE  TunnelOK(c)' /\ (Promised(c)' => PassedOn(c)')
<1>1. CASE CopyDown(c)
  <2>1. Aside(c)
    BY <1>1 DEF CopyDown, Aside, shutVars, appVars, upVars
  <2> QED BY ZenonT(60), <2>1, AsideKeeps
<1>2. CASE CopyUp(c)
  <2>1. UNCHANGED <<pc, kind, app, sent, replied, buf, load, dead>> /\ up[c] = "copying"
    BY ZenonT(60), <1>2 DEF CopyUp, shutVars, appVars
  <2>2. pc[c] \in {"relay", "deferred"} /\ kind[c] # "plain"
    BY ZenonT(60), <2>1 DEF TunnelOK
  <2>3. TunnelOK(c)'
    <3>1. up'[c] \in {"copying", "done"}
      BY ZenonT(60), <1>2, <2>1 DEF CopyUp, Types, UpT
    <3> QED BY ZenonT(60), <2>1, <2>2, <3>1 DEF TunnelOK, Unanswered
  <2>4. ASSUME Promised(c)' PROVE PassedOn(c)'
    <3>1. PassedOn(c) /\ buf[c] = <<>>
      BY ZenonT(60), <2>1, <2>2, <2>4 DEF Promised, PassedOn
    <3>2. CASE socket[c] # <<>> /\ c \notin dead
      <4>1. Lined(Append(atDest[c], Head(socket[c])), buf[c], Tail(socket[c]), sent[c])
        BY ZenonT(60), <3>1, <3>2, UploadTypes, LinedSteps DEF PassedOn
      <4>2. socket'[c] = Tail(socket[c]) /\ atDest'[c] = Append(atDest[c], Head(socket[c])) /\ up'[c] = "copying"
        BY ZenonT(60), <1>2, <2>1, <3>2 DEF CopyUp, Types, UpT
      <4> QED BY ZenonT(60), <2>1, <2>2, <3>1, <4>1, <4>2 DEF PassedOn, Unanswered
    <3>3. CASE ~(socket[c] # <<>> /\ c \notin dead)
      <4>1. UNCHANGED <<socket, atDest>> /\ (c \notin dead => socket[c] = <<>> /\ app[c] # "open")
        BY ZenonT(60), <1>2, <3>3 DEF CopyUp
      <4>2. c \notin dead => Len(atDest[c]) = sent[c]
        BY <3>1, <4>1, UploadTypes, LinedSteps DEF PassedOn
      <4> QED BY ZenonT(60), <2>1, <2>2, <3>1, <4>1, <4>2 DEF PassedOn, Unanswered
    <3> QED BY ZenonT(60), <3>2, <3>3
  <2> QED BY <2>3, <2>4
<1> QED BY <1>1, <1>2

LEMMA HandlerUp ==
  ASSUME Types, NEW c \in Conns, TunnelOK(c), Promised(c) => PassedOn(c), Handler(c)
  PROVE  TunnelOK(c)' /\ (Promised(c)' => PassedOn(c)')
<1>1. CASE RequestFails(c) \/ HandlerFails(c) \/ DeferredClose(c) \/ (RelayReturns(c) /\ kind[c] # "socks")
  BY ZenonT(60), <1>1, ReturnsBlank DEF RequestFails, HandlerFails, DeferredClose, RelayReturns
<1>2. CASE RelayReturns(c) /\ kind[c] = "socks"
  <2>1. UNCHANGED <<kind, app, sent, replied, socket, buf, atDest, up, load, dead>> /\ pc[c] = "relay" /\ pc'[c] = "deferred"
    BY <1>2 DEF RelayReturns, shutVars, appVars, upVars, Types, PlaceT
  <2> QED BY <2>1 DEF TunnelOK, PassedOn, Promised, Unanswered
<1>3. CASE ReadRequest(c)
  <2>1. UNCHANGED <<kind, app, sent, replied, atDest, up, load, dead>> /\ pc[c] = "reading" /\ pc'[c] = "dialing"
    BY ZenonT(60), <1>3 DEF ReadRequest, Goto, shutVars, appVars, Types, PlaceT
  <2>2. buf[c] = <<>> /\ up[c] = "idle" /\ c \notin replied
    BY ZenonT(60), <2>1 DEF TunnelOK, Unanswered
  <2>3. TunnelOK(c)'
    BY ZenonT(60), <2>1, <2>2 DEF TunnelOK
  <2>4. ASSUME Promised(c)' PROVE PassedOn(c)'
    <3>1. PassedOn(c)
      BY <2>1, <2>4 DEF Promised
    <3>2. PICK n \in readOver(c) :
            /\ buf'[c] = SubSeq(socket[c], 1, n)
            /\ socket'[c] = SubSeq(socket[c], n + 1, Len(socket[c]))
      BY ZenonT(60), <1>3 DEF ReadRequest, Types, UpT
    <3>3. n \in 0..Len(socket[c]) /\ (kind[c] = "socks" => n = 0)
      BY <3>2, UploadTypes DEF readOver
    <3>4. Lined(atDest[c], SubSeq(socket[c], 1, n), SubSeq(socket[c], n + 1, Len(socket[c])), sent[c])
      <4>1. Lined(atDest[c], buf[c], socket[c], sent[c]) /\ buf[c] = <<>>
        BY ZenonT(60), <2>2, <3>1 DEF PassedOn
      <4> QED BY ZenonT(60), <3>3, <4>1, UploadTypes, LinedSteps
    <3>5. kind[c] = "connect" => socket[c] = <<>>
      BY ZenonT(60), <2>1, <3>1 DEF PassedOn, Unanswered
    <3>6. kind[c] # "plain" => buf'[c] = <<>>
      <4>1. kind[c] # "plain" => n = 0
        BY <3>3, <3>5 DEF Types, AppT, Kinds
      <4>2. n = 0 => SubSeq(socket[c], 1, n) = <<>>
        BY ZenonT(60), <3>3, UploadTypes, Splits
      <4> QED BY ZenonT(60), <3>2, <4>1, <4>2
    <3>7. kind[c] = "connect" => socket'[c] = <<>>
      <4>1. n = Len(socket[c]) => SubSeq(socket[c], n + 1, Len(socket[c])) = <<>>
        BY ZenonT(60), <3>3, UploadTypes, Splits
      <4>2. kind[c] = "connect" => n = Len(socket[c])
        <5>1. socket[c] = <<>> => Len(socket[c]) = 0
          OBVIOUS
        <5>2. n \in 0..0 => n = 0
          OBVIOUS
        <5> QED BY ZenonT(60), <3>3, <3>5, <5>1, <5>2
      <4> QED BY ZenonT(60), <3>2, <4>1, <4>2
    <3> QED BY ZenonT(60), <2>1, <2>2, <3>2, <3>4, <3>6, <3>7 DEF PassedOn
  <2> QED BY <2>3, <2>4
<1>4. CASE Dial(c) \/ Count(c)
  <2>1. UNCHANGED <<kind, app, sent, replied, socket, buf, atDest, up, load, dead>>
    BY <1>4 DEF Dial, Count, shutVars, appVars, upVars
  <2>2. /\ pc[c] \in {"dialing", "dialed"} /\ pc'[c] \in {"dialed", "reply", "writing"}
        /\ pc'[c] = "reply" => kind[c] # "plain"
    BY <1>4 DEF Dial, Count, Goto, Types, PlaceT
  <2>3. up[c] = "idle" /\ c \notin replied
    BY ZenonT(60), <2>2, UploadTypes DEF TunnelOK, Unanswered
  <2> QED BY ZenonT(60), <2>1, <2>2, <2>3 DEF TunnelOK, PassedOn, Promised, Unanswered
<1>5. CASE Reply(c)
  <2>1. /\ UNCHANGED <<kind, app, sent, socket, buf, atDest, load, dead>>
        /\ pc[c] = "reply" /\ pc'[c] = "relay" /\ up'[c] = "copying"
    BY <1>5 DEF Reply, Goto, shutVars, Types, PlaceT, UpT
  <2> QED BY ZenonT(60), <2>1 DEF TunnelOK, PassedOn, Promised, Unanswered
<1>6. CASE BodyWritten(c)
  <2>1. /\ UNCHANGED <<kind, app, sent, replied, socket, buf, atDest, load, dead>>
        /\ pc[c] = "writing" /\ pc'[c] = "relay" /\ up'[c] = "done" /\ Len(atDest[c]) = load[c].up
    BY ZenonT(60), <1>6 DEF BodyWritten, Goto, shutVars, appVars, Types, PlaceT, UpT
  <2>2. TunnelOK(c)'
    BY ZenonT(60), <2>1 DEF TunnelOK, Unanswered
  <2>3. ASSUME Promised(c)' PROVE PassedOn(c)'
    <3>1. PassedOn(c)
      BY ZenonT(60), <2>1, <2>3 DEF Promised
    <3>2. Len(atDest[c]) \in Nat /\ Len(atDest[c]) <= sent[c]
      BY ZenonT(60), <3>1, UploadTypes, LinedSteps DEF PassedOn
    <3>3. Len(atDest[c]) = sent[c] /\ sent[c] = load[c].up
      <4>1. sent[c] \in Nat /\ load[c].up \in Nat /\ sent[c] <= load[c].up
        BY ZenonT(60), UploadTypes
      <4>2. load[c].up <= sent[c]
        BY ZenonT(60), <2>1, <3>2
      <4>3. sent[c] = load[c].up
        BY <4>1, <4>2
      <4> QED BY ZenonT(60), <2>1, <4>3
    <3> QED BY ZenonT(60), <2>1, <3>1, <3>3 DEF PassedOn, Unanswered
  <2> QED BY <2>2, <2>3
<1>7. CASE WriteBody(c)
  <2>1. UNCHANGED <<pc, kind, app, sent, replied, up, load, dead>> /\ pc[c] = "writing"
    BY ZenonT(60), <1>7 DEF WriteBody, shutVars, appVars
  <2>2. TunnelOK(c)' /\ up[c] = "idle"
    BY ZenonT(60), <2>1, UploadTypes DEF TunnelOK, Types, UpT, CopySteps
  <2>3. ASSUME Promised(c)' PROVE PassedOn(c)'
    <3>1. PassedOn(c)
      BY ZenonT(60), <2>1, <2>3 DEF Promised
    <3>2. CASE buf[c] # <<>>
      <4>1. Lined(Append(atDest[c], Head(buf[c])), Tail(buf[c]), socket[c], sent[c])
        BY ZenonT(60), <3>1, <3>2, UploadTypes, LinedSteps DEF PassedOn
      <4>2. atDest'[c] = Append(atDest[c], Head(buf[c])) /\ buf'[c] = Tail(buf[c]) /\ UNCHANGED socket
        BY ZenonT(60), <1>7, <3>2 DEF WriteBody, Types, UpT
      <4> QED BY ZenonT(60), <2>1, <2>2, <3>1, <3>2, <4>1, <4>2 DEF PassedOn, Unanswered
    <3>3. CASE buf[c] = <<>>
      <4>1. socket[c] # <<>> /\ atDest'[c] = Append(atDest[c], Head(socket[c])) /\ socket'[c] = Tail(socket[c]) /\ UNCHANGED buf
        BY ZenonT(60), <1>7, <3>3 DEF WriteBody, Types, UpT
      <4>2. Lined(Append(atDest[c], Head(socket[c])), buf[c], Tail(socket[c]), sent[c])
        BY ZenonT(60), <3>1, <3>3, <4>1, UploadTypes, LinedSteps DEF PassedOn
      <4> QED BY ZenonT(60), <2>1, <2>2, <3>1, <4>1, <4>2 DEF PassedOn, Unanswered
    <3> QED BY <3>2, <3>3
  <2> QED BY <2>2, <2>3
<1> QED BY <1>1, <1>2, <1>3, <1>4, <1>5, <1>6, <1>7 DEF Handler

LEMMA NextUp == Types /\ UpInv /\ [Next]_vars => UpInv'
<1> SUFFICES ASSUME Types, UpInv, [Next]_vars, NEW c \in Conns
             PROVE  TunnelOK(c)' /\ (Promised(c)' => PassedOn(c)')
  BY DEF UpInv
<1>1. TunnelOK(c) /\ (Promised(c) => PassedOn(c))
  BY DEF UpInv
<1>2. CASE Aside(c)
  BY <1>1, <1>2, AsideKeeps
<1>3. CASE Environment(c) \/ Handler(c) \/ CopyUp(c) \/ CopyDown(c)
  BY <1>1, <1>3, EnvironmentUp, HandlerUp, CopyUpKeeps
<1>4. CASE UNCHANGED vars
  <2>1. Aside(c)
    BY ZenonT(60), <1>4 DEF vars, shutVars, appVars, upVars, Aside
  <2> QED BY <1>2, <2>1
<1>5. CASE BeginShutdown \/ Shutdown \/ SessionLost
  <2>1. Aside(c)
    BY <1>5 DEF BeginShutdown, Shutdown, CloseListener, DrainTick, DrainExpires, ManagerClose, SessionLost, Sever,
                Aside, appVars, upVars, shutVars
  <2> QED BY <1>2, <2>1
<1>6. CASE \E d \in Conns : Environment(d) \/ Handler(d) \/ CopyUp(d) \/ CopyDown(d)
  BY ZenonT(60), <1>2, <1>3, <1>6, ElsewhereAside
<1> QED BY <1>4, <1>5, <1>6 DEF Next

LEMMA InitUp == Init => UpInv
<1> SUFFICES ASSUME Init, NEW c \in Conns PROVE TunnelOK(c) /\ PassedOn(c)
  BY DEF UpInv
<1>1. Blank(c) /\ pc[c] = "none" /\ c \notin replied
  BY DEF Init, Blank
<1>2. Lined(<<>>, <<>>, <<>>, 0)
  BY NothingLined
<1> QED BY <1>1, <1>2 DEF TunnelOK, PassedOn, Blank

\* A destination gets what the application sent, in order and from the first item
\* on, and all of it before the EOF: for any number of connections and of items.
THEOREM UploadsAreIntact == Spec => []UploadIntact
<1>1. Types /\ UpInv => UploadIntact
  <2> SUFFICES ASSUME Types, UpInv, NEW c \in Conns, Promised(c)
               PROVE  /\ atDest[c] = [i \in 1 .. Len(atDest[c]) |-> i]
                      /\ up[c] = "done" /\ c \in localEOF \ dead => Len(atDest[c]) = sent[c]
    BY DEF UploadIntact, Promised
  <2>1. PassedOn(c)
    BY DEF UpInv
  <2>2. \A i \in 1..Len(atDest[c]) : atDest[c][i] = i
    BY <2>1 DEF PassedOn, Lined
  <2>3. atDest[c] = [i \in 1 .. Len(atDest[c]) |-> i]
    <3> DEFINE a == atDest[c]
    <3>1. a \in Seq(Nat)
      BY UploadTypes
    <3>2. a = [i \in 1..Len(a) |-> a[i]]
      BY <3>1
    <3> QED BY <2>2, <3>2
  <2> QED BY <2>1, <2>3 DEF PassedOn
<1>2. Types /\ UpInv /\ [Next]_vars => (Types /\ UpInv)'
  BY NextTypes, NextUp
<1>3. Init => Types /\ UpInv
  BY InitTypes, InitUp
<1> QED BY <1>1, <1>2, <1>3, PTL DEF Spec

-----------------------------------------------------------------------------
(* The count of active streams and the drain of Shutdown                  *)

INSTANCE FiniteSetTheorems

\* The handlers that have a counted stream.
Holding == {"reply", "writing", "relay"}

\* Where a handler is tells what has become of its stream.
StageOK ==
  \A c \in Conns :
    /\ pc[c] \in {"none", "reading", "dialing"} => target[c] = "none"
    /\ pc[c] = "dialed" => target[c] = "open"
    /\ pc[c] \in Holding <=> target[c] = "counted"
    /\ pc[c] = "deferred" => target[c] = "closed"

\* Inductive: the types it needs, the count, the stages, that a stream in flight
\* when Shutdown began is never one that has yet to be counted, and that a drain
\* that was not asked for is taken as expired.
DrainInv ==
  /\ pc \in [Conns -> {"none", "reading", "dialing", "dialed", "reply", "writing",
                       "relay", "deferred", "gone"}]
  /\ target \in [Conns -> {"none", "open", "counted", "closed"}]
  /\ inFlight \subseteq Conns
  /\ active = Cardinality(Counted)
  /\ StageOK
  /\ \A c \in inFlight : target[c] \in {"counted", "closed"}
  /\ shut \in {"http", "socks"} /\ ~Drain => expired
  /\ DrainSparesStreams

\* The streams that are counted are finitely many, so that they can be counted.
LEMMA CountedFinite == IsFiniteSet(Counted) /\ Cardinality(Counted) \in Nat
<1>1. IsFiniteSet(Counted)
  BY LocalProxyAssumption, FS_Subset DEF Counted
<1> QED BY <1>1, FS_CardinalityType

\* A step that leaves the streams and the places of the handlers' stages alone
\* keeps the invariant, if it does not end the drain.
LEMMA OtherStep ==
  ASSUME DrainInv, UNCHANGED <<streamVars, inFlight, shut, expired>>,
         pc' \in [Conns -> {"none", "reading", "dialing", "dialed", "reply", "writing",
                            "relay", "deferred", "gone"}],
         StageOK'
  PROVE  DrainInv'
BY DEF DrainInv, DrainSparesStreams, Counted, streamVars

\* Closing a stream uncounts it once, and leaves the others counted.
LEMMA CloseStep ==
  ASSUME DrainInv, NEW c \in Conns, CloseTarget(c),
         pc[c] \in Holding \cup {"deferred"},
         UNCHANGED <<inFlight, shut, expired>>,
         \E to \in {"gone", "deferred"} : pc' = [pc EXCEPT ![c] = to]
  PROVE  DrainInv'
<1>1. PICK to \in {"gone", "deferred"} : pc' = [pc EXCEPT ![c] = to]
  BY ZenonT(60)
<1>2. target' = [target EXCEPT ![c] = "closed"]
  BY DEF CloseTarget
<1>3. Counted' = Counted \ {c}
  BY <1>2 DEF DrainInv, Counted
<1>4. active' = Cardinality(Counted')
  <2>1. CASE c \in Counted
    <3>1. Cardinality(Counted \ {c}) = Cardinality(Counted) - 1
      BY ZenonT(60), <2>1, CountedFinite, FS_RemoveElement
    <3> QED BY <3>1, <2>1, <1>3 DEF CloseTarget, closeOnce, Counted, DrainInv
  <2>2. CASE c \notin Counted
    <3>1. Counted' = Counted
      BY <2>2, <1>3
    <3> QED BY <3>1, <2>2 DEF CloseTarget, closeOnce, Counted, DrainInv
  <2> QED BY <2>1, <2>2
<1>5. StageOK'
  BY <1>1, <1>2 DEF DrainInv, StageOK, Holding
<1>6. DrainSparesStreams'
  BY <1>2 DEF DrainInv, DrainSparesStreams
<1> QED
  BY <1>1, <1>2, <1>4, <1>5, <1>6 DEF DrainInv

\* The steps of Shutdown: only a tick that finds the count at zero ends the
\* drain in time, and then no stream is counted.
LEMMA ShutdownKeeps ==
  ASSUME DrainInv, BeginShutdown \/ Shutdown
  PROVE  DrainInv'
<1>1. CASE BeginShutdown
  BY ZenonT(60), <1>1 DEF BeginShutdown, DrainInv, StageOK, DrainSparesStreams, Counted, streamVars
<1>2. CASE CloseListener
  <2>1. shut' \in {"socks", "drain"} \/ (shut' = "manager" /\ ~Drain)
    BY <1>2 DEF CloseListener
  <2> QED
    BY <1>2, <2>1 DEF CloseListener, DrainInv, StageOK, DrainSparesStreams, Counted, streamVars
<1>3. CASE DrainTick
  <2>1. Counted = {}
    BY ZenonT(60), <1>3, CountedFinite, FS_EmptySet DEF DrainTick, drained, DrainInv
  <2>2. \A c \in inFlight : target[c] = "closed"
    BY <2>1 DEF DrainInv, Counted
  <2> QED
    BY <1>3, <2>2 DEF DrainTick, DrainInv, StageOK, DrainSparesStreams, Counted, streamVars
<1>4. CASE DrainExpires
  BY <1>4 DEF DrainExpires, DrainInv, StageOK, DrainSparesStreams, Counted, streamVars
<1>5. CASE ManagerClose
  BY <1>5 DEF ManagerClose, DrainInv, StageOK, DrainSparesStreams, Counted, streamVars
<1> QED
  BY ZenonT(60), <1>1, <1>2, <1>3, <1>4, <1>5 DEF Shutdown

\* The steps of applications, of destinations and of the two copies touch no
\* stream and move no handler, but for the one that is started.
LEMMA OutsideKeeps ==
  ASSUME DrainInv, NEW c \in Conns,
         Environment(c) \/ CopyUp(c) \/ CopyDown(c)
  PROVE  DrainInv'
<1>1. CASE \E k \in Kinds : Accept(c, k)
  <2>1. /\ UNCHANGED <<streamVars, shutVars>> /\ pc[c] = "none"
        /\ pc' = [pc EXCEPT ![c] = "reading"]
    BY ZenonT(60), <1>1 DEF Accept
  <2>2. StageOK'
    BY <2>1 DEF DrainInv, StageOK, Holding, streamVars
  <2> QED BY ZenonT(60), <2>1, <2>2, OtherStep DEF DrainInv, shutVars
<1>2. CASE \/ AppSend(c) \/ AppEnds(c, "half") \/ AppEnds(c, "away") \/ DestSend(c)
           \/ DestEnds(c) \/ CopyUp(c) \/ CopyDown(c)
  <2>1. UNCHANGED <<streamVars, shutVars, pc>>
    BY ZenonT(60), <1>2 DEF AppSend, AppEnds, DestSend, DestEnds, CopyUp, CopyDown
  <2>2. StageOK'
    BY <2>1 DEF DrainInv, StageOK, streamVars
  <2> QED BY ZenonT(60), <2>1, <2>2, OtherStep DEF DrainInv, shutVars
<1> QED BY <1>1, <1>2 DEF Environment

\* The steps of a handler.
LEMMA HandlerKeeps ==
  ASSUME DrainInv, NEW c \in Conns, Handler(c)
  PROVE  DrainInv'
<1>1. CASE ReadRequest(c) \/ Reply(c) \/ WriteBody(c) \/ BodyWritten(c) \/ RequestFails(c)
  <2>1. /\ UNCHANGED <<streamVars, shutVars>>
        /\ \/ pc' = pc
           \/ pc[c] = "reading" /\ pc' = [pc EXCEPT ![c] = "dialing"]
           \/ pc[c] \in {"reply", "writing"} /\ pc' = [pc EXCEPT ![c] = "relay"]
           \/ pc[c] \in {"reading", "dialing"} /\ pc' = [pc EXCEPT ![c] = "gone"]
    BY <1>1 DEF ReadRequest, Reply, WriteBody, BodyWritten, RequestFails, Return, Goto
  <2>2. StageOK'
    BY <2>1 DEF DrainInv, StageOK, Holding, streamVars
  <2>3. pc' \in [Conns -> {"none", "reading", "dialing", "dialed", "reply", "writing",
                           "relay", "deferred", "gone"}]
    BY <2>1 DEF DrainInv
  <2> QED BY ZenonT(60), <2>1, <2>2, <2>3, OtherStep DEF shutVars
<1>2. CASE Dial(c)
  <2>1. /\ UNCHANGED <<active, shutVars>> /\ pc[c] = "dialing"
        /\ pc' = [pc EXCEPT ![c] = "dialed"] /\ target' = [target EXCEPT ![c] = "open"]
    BY <1>2 DEF Dial, Goto
  <2>2. target[c] = "none"
    BY <2>1 DEF DrainInv, StageOK
  <2>3. Counted' = Counted /\ c \notin inFlight
    BY <2>1, <2>2 DEF DrainInv, Counted
  <2>4. StageOK'
    BY <2>1 DEF DrainInv, StageOK, Holding
  <2>5. DrainSparesStreams'
    BY <2>1, <2>3 DEF DrainInv, DrainSparesStreams, shutVars
  <2> QED BY <2>1, <2>3, <2>4, <2>5 DEF DrainInv, shutVars
<1>3. CASE Count(c)
  <2>1. /\ UNCHANGED shutVars /\ pc[c] = "dialed" /\ active' = active + 1
        /\ target' = [target EXCEPT ![c] = "counted"]
        /\ \E to \in {"writing", "reply"} : pc' = [pc EXCEPT ![c] = to]
    BY ZenonT(60), <1>3 DEF Count, Goto
  <2>2. target[c] = "open"
    BY <2>1 DEF DrainInv, StageOK
  <2>3. Counted' = Counted \cup {c} /\ c \notin Counted /\ c \notin inFlight
    BY <2>1, <2>2 DEF DrainInv, Counted
  <2>4. active' = Cardinality(Counted')
    BY ZenonT(60), <2>1, <2>3, CountedFinite, FS_AddElement DEF DrainInv
  <2>5. StageOK'
    BY <2>1 DEF DrainInv, StageOK, Holding
  <2>6. DrainSparesStreams'
    BY <2>1, <2>3 DEF DrainInv, DrainSparesStreams, shutVars
  <2> QED BY <2>1, <2>3, <2>4, <2>5, <2>6 DEF DrainInv, shutVars
<1>4. CASE HandlerFails(c)
  <2>1. CloseTarget(c) /\ UNCHANGED shutVars /\ pc' = [pc EXCEPT ![c] = "gone"]
        /\ pc[c] \in Holding
    BY <1>4 DEF HandlerFails, giveUp, Return, Holding
  <2> QED BY ZenonT(60), <2>1, CloseStep DEF shutVars
<1>5. CASE RelayReturns(c)
  <2>1. CloseTarget(c) /\ UNCHANGED shutVars /\ pc[c] \in Holding
        /\ \E to \in {"gone", "deferred"} : pc' = [pc EXCEPT ![c] = to]
    BY <1>5 DEF RelayReturns, Return, Holding
  <2> QED BY ZenonT(60), <2>1, CloseStep DEF shutVars
<1>6. CASE DeferredClose(c)
  <2>1. CloseTarget(c) /\ UNCHANGED shutVars /\ pc' = [pc EXCEPT ![c] = "gone"]
        /\ pc[c] = "deferred"
    BY <1>6 DEF DeferredClose, Return
  <2> QED BY ZenonT(60), <2>1, CloseStep DEF shutVars
<1> QED
  BY <1>1, <1>2, <1>3, <1>4, <1>5, <1>6 DEF Handler

\* DrainInv holds in every reachable state, whatever the load.
LEMMA DrainInvariant == Spec => []DrainInv
<1>1. Init => DrainInv
  <2> SUFFICES ASSUME Init PROVE DrainInv
    OBVIOUS
  <2>1. Counted = {}
    BY DEF Init, Counted
  <2>2. active = Cardinality(Counted)
    BY <2>1, FS_EmptySet DEF Init
  <2> QED
    BY <2>2 DEF Init, DrainInv, StageOK, Holding, DrainSparesStreams
<1>2. DrainInv /\ [Next]_vars => DrainInv'
  <2> SUFFICES ASSUME DrainInv, [Next]_vars PROVE DrainInv'
    OBVIOUS
  <2>1. CASE BeginShutdown \/ Shutdown
    BY <2>1, ShutdownKeeps
  <2>2. CASE SessionLost
    <3>1. UNCHANGED <<streamVars, shutVars, pc>>
      BY <2>2 DEF SessionLost
    <3>2. StageOK'
      BY <3>1 DEF DrainInv, StageOK, streamVars
    <3> QED BY <3>1, <3>2, OtherStep DEF DrainInv, shutVars
  <2>3. CASE \E c \in Conns : Environment(c) \/ CopyUp(c) \/ CopyDown(c)
    BY <2>3, OutsideKeeps
  <2>4. CASE \E c \in Conns : Handler(c)
    BY <2>4, HandlerKeeps
  <2>5. CASE UNCHANGED vars
    <3>1. UNCHANGED <<streamVars, shutVars, pc>>
      BY <2>5 DEF vars
    <3>2. StageOK'
      BY <3>1 DEF DrainInv, StageOK, streamVars
    <3> QED BY <3>1, <3>2, OtherStep DEF DrainInv, shutVars
  <2> QED
    BY <2>1, <2>2, <2>3, <2>4, <2>5 DEF Next
<1> QED
  BY <1>1, <1>2, PTL DEF Spec

\* Runtime.active is exact for any number of connections: no handler leaves a
\* stream counted behind, and none uncounts it twice.
THEOREM CountIsExact == Spec => []ActiveCounts
<1>1. DrainInv => ActiveCounts
  <2> SUFFICES ASSUME DrainInv PROVE ActiveCounts
    OBVIOUS
  <2>1. Counted = {c \in Conns : pc[c] \in {"reply", "writing", "relay"}}
    BY DEF DrainInv, StageOK, Holding, Counted
  <2> QED BY <2>1 DEF DrainInv, ActiveCounts
<1> QED
  BY <1>1, DrainInvariant, PTL

\* A drain that ends before its timer has waited for every stream that was
\* active when Shutdown began, for any number of connections.
THEOREM DrainIsComplete == Spec => []DrainSparesStreams
<1>1. DrainInv => DrainSparesStreams
  BY DEF DrainInv
<1> QED
  BY <1>1, DrainInvariant, PTL

\* The types hold in every reachable state of the listeners and handlers.
THEOREM TypeCorrect == Spec => []TypeOK
<1>1. Spec => []Types
  <2>1. Types /\ [Next]_vars => Types'
    BY NextTypes
  <2> QED BY <2>1, InitTypes, PTL DEF Spec
<1>2. Types /\ DrainInv => TypeOK
  BY TypeParts, CountedFinite DEF DrainInv
<1> QED BY <1>1, <1>2, DrainInvariant, PTL

-----------------------------------------------------------------------------
(* The downloads: a copy from a stream that ended to an application that   *)
(* still reads has nothing left to pass on, and nothing can come after it. *)

Delivered(c) ==
  /\ c \in replied => pc[c] \in {"relay", "deferred"}
  /\ pc[c] = "deferred" => down[c] = "done"
  /\ down[c] = "done" /\ app[c] # "away" => c \in dead \/ (c \in destEOF /\ pending[c] = 0)

DownInv == \A c \in Conns : Delivered(c)

\* A step that is not about a connection, or takes it no further.
LEMMA ElsewhereDelivered ==
  ASSUME NEW c \in Conns, Delivered(c), pc'[c] = pc[c], down'[c] = down[c],
         app[c] = "away" => app'[c] = "away",
         pending'[c] = pending[c], c \in replied' => c \in replied,
         c \in dead => c \in dead', c \in destEOF => c \in destEOF'
  PROVE  Delivered(c)'
BY ZenonT(60) DEF Delivered

\* A handler before its relay: the copy down has not run.
LEMMA BeforeRelay ==
  ASSUME NEW c \in Conns, Delivered(c), pc[c] \notin {"relay", "deferred"},
         pc'[c] # "deferred", UNCHANGED <<down, app, replied, dead, destEOF, pending>>
  PROVE  Delivered(c)'
BY ZenonT(60) DEF Delivered

\* What the handler leaves behind is blank.
LEMMA ReturnDelivers ==
  ASSUME Types, NEW c \in Conns, Return(c)
  PROVE  Delivered(c)'
<1>1. pc'[c] = "gone" /\ down'[c] = "idle" /\ c \notin replied'
  BY ZenonT(60) DEF Return, Types, PlaceT, DownT
<1> QED BY ZenonT(60), <1>1 DEF Delivered

\* A handler's step concerns its own connection only.
LEMMA HandlerElsewhere ==
  ASSUME Types, DownInv, NEW c \in Conns, Handler(c), NEW d \in Conns, d # c
  PROVE  Delivered(d)'
<1>1. Delivered(d)
  BY ZenonT(60) DEF DownInv
<1>2. ASSUME Return(c) PROVE Delivered(d)'
  <2>1. /\ pc'[d] = pc[d] /\ down'[d] = down[d] /\ app'[d] = app[d] /\ pending'[d] = pending[d]
    BY ZenonT(60), <1>2 DEF Return, Types, PlaceT, DownT, AppT
  <2>2. /\ d \in replied' => d \in replied
        /\ d \in dead => d \in dead'
        /\ d \in destEOF => d \in destEOF'
    BY ZenonT(60), <1>2 DEF Return
  <2> QED BY ZenonT(60), <1>1, <2>1, <2>2, ElsewhereDelivered
<1>3. ASSUME UNCHANGED <<app, replied, dead, downVars>>, pc'[d] = pc[d] PROVE Delivered(d)'
  BY ZenonT(60), <1>1, <1>3, ElsewhereDelivered DEF downVars
<1>4. CASE ReadRequest(c) \/ Dial(c) \/ Count(c) \/ WriteBody(c)
  <2>1. pc'[d] = pc[d]
    BY ZenonT(60), <1>4 DEF ReadRequest, Dial, Count, WriteBody, Goto, Types, PlaceT
  <2> QED BY ZenonT(60), <1>3, <1>4, <2>1 DEF ReadRequest, Dial, Count, WriteBody, appVars
<1>5. CASE Reply(c)
  <2>1. /\ pc'[d] = pc[d] /\ down'[d] = down[d]
    BY ZenonT(60), <1>5 DEF Reply, Goto, Types, PlaceT, DownT
  <2>2. UNCHANGED <<app, pending, dead, destEOF>> /\ (d \in replied' => d \in replied)
    BY ZenonT(60), <1>5 DEF Reply
  <2> QED BY ZenonT(60), <1>1, <2>1, <2>2, ElsewhereDelivered
<1>6. CASE BodyWritten(c)
  <2>1. /\ pc'[d] = pc[d] /\ down'[d] = down[d]
    BY ZenonT(60), <1>6 DEF BodyWritten, Goto, Types, PlaceT, DownT
  <2>2. UNCHANGED <<app, pending, dead, destEOF, replied>>
    BY ZenonT(60), <1>6 DEF BodyWritten, appVars
  <2> QED BY ZenonT(60), <1>1, <2>1, <2>2, ElsewhereDelivered
<1>7. CASE RelayReturns(c)
  <2>1. CASE kind[c] = "socks"
    <3>1. pc'[d] = pc[d] /\ UNCHANGED <<app, replied, dead, downVars>>
      BY ZenonT(60), <1>7, <2>1 DEF RelayReturns, Types, PlaceT, appVars
    <3> QED BY ZenonT(60), <1>3, <3>1
  <2>2. CASE kind[c] # "socks"
    BY ZenonT(60), <1>2, <1>7, <2>2 DEF RelayReturns
  <2> QED BY <2>1, <2>2
<1> QED
  BY ZenonT(60), <1>2, <1>4, <1>5, <1>6, <1>7
  DEF Handler, RequestFails, HandlerFails, DeferredClose

\* Every way a handler can go, up to Relay and out of it.
LEMMA HandlerDelivers ==
  ASSUME Types, DownInv, NEW c \in Conns, Handler(c)
  PROVE  Delivered(c)'
<1>1. Delivered(c)
  BY ZenonT(60) DEF DownInv
<1>2. CASE ReadRequest(c) \/ Dial(c)
  <2>1. pc[c] \notin {"relay", "deferred"} /\ pc'[c] # "deferred"
    BY ZenonT(60), <1>2 DEF ReadRequest, Dial, Goto, Types, PlaceT
  <2>2. UNCHANGED <<down, app, replied, dead, destEOF, pending>>
    BY ZenonT(60), <1>2 DEF ReadRequest, Dial, appVars, downVars
  <2> QED BY ZenonT(60), <1>1, <2>1, <2>2, BeforeRelay
<1>3. CASE Count(c)
  <2>1. pc[c] \notin {"relay", "deferred"} /\ pc'[c] # "deferred"
    BY <1>3 DEF Count, Goto, Types, PlaceT
  <2>2. UNCHANGED <<down, app, replied, dead, destEOF, pending>>
    BY ZenonT(60), <1>3 DEF Count, appVars, downVars
  <2> QED BY ZenonT(60), <1>1, <2>1, <2>2, BeforeRelay
<1>4. CASE WriteBody(c)
  BY ZenonT(60), <1>1, <1>4, ElsewhereDelivered DEF WriteBody, appVars, downVars
<1>5. CASE Reply(c) \/ BodyWritten(c)
  <2>1. pc'[c] = "relay" /\ down'[c] = "copying"
    BY ZenonT(60), <1>5 DEF Reply, BodyWritten, Goto, Types, PlaceT, DownT
  <2> QED BY ZenonT(60), <2>1 DEF Delivered
<1>6. CASE RelayReturns(c)
  <2>1. CASE kind[c] = "socks"
    <3>1. pc'[c] = "deferred" /\ down[c] = "done" /\ UNCHANGED <<app, dead, downVars>>
      BY ZenonT(60), <1>6, <2>1 DEF RelayReturns, bothDone, Types, PlaceT, appVars
    <3> QED BY ZenonT(60), <1>1, <3>1 DEF Delivered, downVars
  <2>2. CASE kind[c] # "socks"
    BY ZenonT(60), <1>6, <2>2, ReturnDelivers DEF RelayReturns
  <2> QED BY <2>1, <2>2
<1> QED
  BY ZenonT(60), <1>2, <1>3, <1>4, <1>5, <1>6, ReturnDelivers
  DEF Handler, RequestFails, HandlerFails, DeferredClose

\* A destination that has ended sends no more, and an application that is away
\* stays away.
LEMMA EnvironmentDelivers ==
  ASSUME Types, DownInv, NEW c \in Conns, Environment(c), NEW d \in Conns
  PROVE  Delivered(d)'
<1>1. Delivered(d)
  BY ZenonT(60) DEF DownInv
<1>2. CASE AppSend(c)
  BY ZenonT(60), <1>1, <1>2, ElsewhereDelivered DEF AppSend, downVars
<1>3. CASE AppEnds(c, "half") \/ AppEnds(c, "away")
  <2>1. app[d] = "away" => app'[d] = "away"
    BY ZenonT(60), <1>3 DEF AppEnds, Types, AppT
  <2> QED BY ZenonT(60), <1>1, <1>3, <2>1, ElsewhereDelivered DEF AppEnds, downVars
<1>4. CASE DestSend(c)
  <2>1. UNCHANGED <<pc, down, app, replied, dead, destEOF>>
    BY ZenonT(60), <1>4 DEF DestSend, appVars
  <2>2. CASE d # c
    <3>1. pending'[d] = pending[d]
      BY ZenonT(60), <1>4, <2>2 DEF DestSend, Types, DownT
    <3> QED BY ZenonT(60), <1>1, <2>1, <3>1, ElsewhereDelivered
  <2>3. CASE d = c
    <3>1. d \notin dead /\ d \notin destEOF
      BY ZenonT(60), <1>4, <2>3 DEF DestSend, StreamOpen
    <3> QED BY ZenonT(60), <1>1, <2>1, <3>1 DEF Delivered
  <2> QED BY <2>2, <2>3
<1>5. CASE DestEnds(c)
  BY ZenonT(60), <1>1, <1>5, ElsewhereDelivered DEF DestEnds, appVars
<1>6. ASSUME NEW k \in Kinds, Accept(c, k) PROVE Delivered(d)'
  <2>1. UNCHANGED <<down, app, replied, dead, destEOF, pending>>
    BY ZenonT(60), <1>6 DEF Accept, downVars
  <2>2. CASE d # c
    <3>1. pc'[d] = pc[d]
      BY ZenonT(60), <1>6, <2>2 DEF Accept, Types, PlaceT
    <3> QED BY ZenonT(60), <1>1, <2>1, <3>1, ElsewhereDelivered
  <2>3. CASE d = c
    <3>1. pc[d] = "none" /\ pc'[d] = "reading"
      BY ZenonT(60), <1>6, <2>3 DEF Accept, Types, PlaceT
    <3> QED BY ZenonT(60), <1>1, <2>1, <3>1, BeforeRelay
  <2> QED BY <2>2, <2>3
<1> QED BY ZenonT(60), <1>2, <1>3, <1>4, <1>5, <1>6 DEF Environment

\* The copy down ends with nothing left, or with nobody to take it.
LEMMA CopyDelivers ==
  ASSUME Types, DownInv, NEW c \in Conns, CopyUp(c) \/ CopyDown(c), NEW d \in Conns
  PROVE  Delivered(d)'
<1>1. Delivered(d)
  BY ZenonT(60) DEF DownInv
<1>2. CASE CopyUp(c)
  BY ZenonT(60), <1>1, <1>2, ElsewhereDelivered DEF CopyUp, appVars, downVars
<1>3. CASE CopyDown(c)
  <2>1. UNCHANGED <<pc, app, replied, dead, destEOF>> /\ down[c] = "copying"
    BY ZenonT(60), <1>3 DEF CopyDown, appVars
  <2>2. CASE d # c
    <3>1. pending'[d] = pending[d] /\ down'[d] = down[d]
      BY ZenonT(60), <1>3, <2>2 DEF CopyDown, Types, DownT
    <3> QED BY ZenonT(60), <1>1, <2>1, <3>1, ElsewhereDelivered
  <2>3. CASE d = c
    <3>1. CASE down' = down
      BY ZenonT(60), <1>1, <2>1, <2>3, <3>1 DEF Delivered
    <3>2. CASE down' # down
      <4>1. /\ IF pending[c] = 0 THEN c \in destEOF \cup dead
                                 ELSE c \in dead \/ app[c] = "away"
            /\ down' = [down EXCEPT ![c] = "done"] /\ pending' = pending
        BY ZenonT(60), <1>3, <3>2 DEF CopyDown
      <4>2. down'[c] = "done"
        BY ZenonT(60), <4>1 DEF Types, DownT
      <4> QED BY ZenonT(60), <1>1, <2>1, <2>3, <4>1, <4>2 DEF Delivered
    <3> QED BY <3>1, <3>2
  <2> QED BY <2>2, <2>3
<1> QED BY <1>2, <1>3

\* Every step keeps what was said of the downloads.
LEMMA NextDelivers == Types /\ DownInv /\ [Next]_vars => DownInv'
<1> SUFFICES ASSUME Types, DownInv, [Next]_vars, NEW d \in Conns PROVE Delivered(d)'
  BY ZenonT(60) DEF DownInv
<1>1. CASE BeginShutdown \/ Shutdown \/ SessionLost
  <2>1. UNCHANGED <<pc, appVars, downVars>>
    BY ZenonT(60), <1>1
    DEF BeginShutdown, Shutdown, CloseListener, DrainTick, DrainExpires, ManagerClose, SessionLost
  <2>2. d \in dead => d \in dead'
    BY ZenonT(60), <1>1
    DEF BeginShutdown, Shutdown, CloseListener, DrainTick, DrainExpires, ManagerClose,
        SessionLost, Sever
  <2>3. Delivered(d)
    BY ZenonT(60) DEF DownInv
  <2> QED BY ZenonT(60), <2>1, <2>2, <2>3, ElsewhereDelivered DEF appVars, downVars
<1>2. ASSUME NEW c \in Conns, Handler(c) PROVE Delivered(d)'
  BY ZenonT(60), <1>2, HandlerDelivers, HandlerElsewhere
<1>3. CASE UNCHANGED vars
  <2>1. UNCHANGED <<pc, app, replied, dead, destEOF, pending, down>>
    BY ZenonT(60), <1>3 DEF vars, appVars, downVars
  <2> QED BY ZenonT(60), <2>1 DEF DownInv, Delivered
<1> QED
  BY ZenonT(60), <1>1, <1>2, <1>3, EnvironmentDelivers, CopyDelivers DEF Next

\* Of a stream in use, only Relay's return closes it, and a handler that fails
\* before it has replied.
LEMMA ClosedBy ==
  ASSUME Types, [Next]_vars, NEW c \in Conns, target[c] = "counted", target'[c] = "closed"
  PROVE  \/ pc[c] \in {"reply", "writing", "deferred"}
         \/ pc[c] = "relay" /\ down[c] = "done"
<1>1. target' # target
  BY ZenonT(60)
<1>2. PICK d \in Conns : Handler(d)
  BY ZenonT(60), <1>1
  DEF Next, BeginShutdown, Shutdown, CloseListener, DrainTick, DrainExpires, ManagerClose,
      SessionLost, Environment, AppSend, AppEnds, DestSend, DestEnds, Accept, CopyUp, CopyDown,
      streamVars, vars
<1>3. ASSUME ~(Dial(d) \/ Count(d) \/ HandlerFails(d) \/ RelayReturns(d) \/ DeferredClose(d))
      PROVE  FALSE
  BY ZenonT(60), <1>1, <1>2, <1>3
  DEF Handler, ReadRequest, RequestFails, Reply, WriteBody, BodyWritten, streamVars
<1>4. CASE Dial(d) \/ Count(d)
  <2>1. target'[c] = target[c] \/ target'[c] \in {"open", "counted"}
    BY ZenonT(60), <1>4 DEF Dial, Count, Types, StreamT
  <2> QED BY ZenonT(60), <2>1
<1>5. CASE HandlerFails(d) \/ RelayReturns(d) \/ DeferredClose(d)
  <2>1. target' = [target EXCEPT ![d] = "closed"]
    BY ZenonT(60), <1>5 DEF HandlerFails, giveUp, RelayReturns, DeferredClose, CloseTarget
  <2>2. c = d
    BY ZenonT(60), <2>1 DEF Types, StreamT
  <2> QED BY ZenonT(60), <1>5, <2>2 DEF HandlerFails, RelayReturns, DeferredClose, bothDone
<1> QED BY ZenonT(60), <1>3, <1>4, <1>5

\* A connection that was answered and still reads loses its stream only when the
\* destination has ended and all it sent was passed on, or when the session is
\* gone: proxy.Relay waits for both copies, for any number of connections.
THEOREM HalfClosedAreServed == Spec => ResponseSurvivesHalfClose
<1> DEFINE Kept ==
      \A c \in Conns :
        target[c] = "counted" /\ target'[c] = "closed" /\ c \in replied /\ app[c] # "away"
          => c \in dead \/ (c \in destEOF /\ pending[c] = 0)
<1>1. Init => DownInv
  BY DEF Init, DownInv, Delivered
<1>2. Types /\ DownInv /\ [Next]_vars => [Kept]_vars
  <2> SUFFICES ASSUME Types, DownInv, [Next]_vars, NEW c \in Conns,
                      target[c] = "counted", target'[c] = "closed", c \in replied,
                      app[c] # "away"
               PROVE  c \in dead \/ (c \in destEOF /\ pending[c] = 0)
    BY ZenonT(60)
  <2>1. Delivered(c)
    BY ZenonT(60) DEF DownInv
  <2>2. down[c] = "done"
    BY ZenonT(60), <2>1, ClosedBy DEF Delivered
  <2> QED BY ZenonT(60), <2>1, <2>2 DEF Delivered
<1>3. Types /\ [Next]_vars => Types'
  BY NextTypes
<1>4. Types /\ DownInv /\ [Next]_vars => DownInv'
  BY NextDelivers
<1>5. Spec => [][Kept]_vars
  <2> HIDE DEF Kept
  <2> QED BY <1>1, <1>2, <1>3, <1>4, InitTypes, PTL DEF Spec
<1> QED
  BY <1>5 DEF ResponseSurvivesHalfClose
=============================================================================
