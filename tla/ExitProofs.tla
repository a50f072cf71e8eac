----------------------------- MODULE ExitProofs -----------------------------
(***************************************************************************)
(* The exits of S, for any number of connections, exits and clients: the   *)
(* invariants of ExitDirectory and what its clients come to know of the    *)
(* registry, then Registry.Select as ExitSelect models it.                 *)
(***************************************************************************)
EXTENDS MCExitDirectory, ExitSelect, FiniteSetTheorems, TLAPS

\* A snapshot of the registry is a finite set of IDs.
LEMMA SnapshotFinite == Snapshot \in SUBSET Ids /\ Cardinality(Snapshot) \in Nat
<1>1. Snapshot \subseteq Ids
  BY DEF Snapshot
<1>2. IsFiniteSet(Snapshot)
  BY <1>1, DirectoryAssumption, FS_Subset
<1> QED
  BY <1>1, <1>2, FS_CardinalityType

\* Setting a broadcast's record keeps its type.
LEMMA SetCastType ==
  ASSUME NEW f \in [Casters \cup Clients -> Cast], NEW b \in Casters \cup Clients,
         NEW where \in {"idle", "snapped", "writing"}, NEW snap \in SUBSET Ids,
         NEW rest \in SUBSET Clients
  PROVE  [f EXCEPT ![b] = [at |-> where, snap |-> snap, todo |-> rest]]
           \in [Casters \cup Clients -> Cast]
<1>1. [at |-> where, snap |-> snap, todo |-> rest] \in Cast
  BY DEF Cast
<1> QED
  BY <1>1

\* Every variable keeps its type through every step of handleExit, handleClient,
\* catalogLoop and the broadcasts.
THEOREM TypeCorrect == Spec => []TypeOK
<1>1. Init => TypeOK
  BY DEF Init, TypeOK, Steps, Ids, Idle, Cast
<1>2. TypeOK /\ [Next]_vars => TypeOK'
  <2> SUFFICES ASSUME TypeOK, [Next]_vars PROVE TypeOK'
    OBVIOUS
  <2> USE DEF TypeOK, Steps, Goto
  <2>1. ASSUME NEW k \in Conns, Connect(k) PROVE TypeOK'
    BY <2>1 DEF Connect
  <2>2. ASSUME NEW k \in Conns, SessionEnds(k) PROVE TypeOK'
    BY <2>2 DEF SessionEnds
  <2>3. ASSUME NEW k \in Conns, DeliverRegistration(k) \/ Heartbeat(k) PROVE TypeOK'
    BY ZenonT(60), <2>3 DEF DeliverRegistration, Heartbeat, Ids
  <2>4. ASSUME NEW k \in Conns, Handler(k) PROVE TypeOK'
    <3>1. CASE AwaitRegistration(k) BY <3>1 DEF AwaitRegistration
    <3>2. CASE Registered(k) BY <3>2 DEF Registered
    <3>3. CASE RegistrationFails(k) BY <3>3 DEF RegistrationFails, registrationOver
    <3>4. CASE Swap(k) BY <3>4 DEF Swap, closeOld
    <3>5. CASE Add(k) BY <3>5 DEF Add, Ids
    <3>6. CASE Broadcast(k)
      BY ZenonT(60), <3>6, SnapshotFinite, SetCastType DEF Broadcast, CastSnapshot, SetCast, Casters
    <3>7. CASE Serve(k) BY <3>7 DEF Serve, Cast, Idle, Casters
    <3>8. CASE Unswap(k) BY <3>8 DEF Unswap, deleteOwn
    <3>9. CASE Remove(k) BY <3>9 DEF Remove, removeID, Ids
    <3>10. CASE Return(k) BY <3>10 DEF Return, Cast, Idle, Casters
    <3> QED
      BY <2>4, <3>1, <3>2, <3>3, <3>4, <3>5, <3>6, <3>7, <3>8, <3>9, <3>10
      DEF Handler
  <2>5. ASSUME NEW i \in Ids, Age(i) PROVE TypeOK'
    BY <2>5 DEF Age
  <2>6. ASSUME NEW c \in Clients, Join(c) \/ Push(c) \/ Leave(c) PROVE TypeOK'
    <3>1. CASE Join(c) \/ Leave(c) BY <3>1 DEF Join, Leave
    <3>2. CASE Push(c) /\ cpc[c] = "joined"
      <4>1. cast' \in [Casters \cup Clients -> Cast]
        <5>1. [cast EXCEPT ![c] = [at |-> "snapped", snap |-> Snapshot, todo |-> {}]]
                \in [Casters \cup Clients -> Cast]
          BY ZenonT(60), SnapshotFinite, SetCastType
        <5> QED BY ZenonT(60), <3>2, <5>1 DEF Push, CastSnapshot, SetCast
      <4> QED BY ZenonT(60), <3>2, <4>1 DEF Push
    <3>3. CASE Push(c) /\ cpc[c] = "pushing"
      <4>1. cast[c].snap \in SUBSET Ids /\ Idle \in Cast
        BY DEF Cast, Idle
      <4> QED BY <3>3, <4>1 DEF Push
    <3> QED BY <2>6, <3>1, <3>2, <3>3 DEF Push
  <2>7. ASSUME NEW b \in Casters, CastSessions(b) \/ CastWrite(b) PROVE TypeOK'
    <3>1. cast[b].snap \in SUBSET Ids /\ cast[b].todo \in SUBSET Clients
      BY DEF Cast
    <3>2. CASE CastSessions(b) BY ZenonT(60), <3>1, <3>2, SetCastType DEF CastSessions, SetCast
    <3>3. CASE CastWrite(b)
      <4>1. PICK c \in cast[b].todo :
              /\ view' = [view EXCEPT ![c] = cast[b].snap]
              /\ SetCast(b, "writing", cast[b].snap, cast[b].todo \ {c})
        BY ZenonT(60), <3>3 DEF CastWrite
      <4>2. cast[b].todo \ {c} \in SUBSET Clients
        BY <3>1
      <4>3. cast' \in [Casters \cup Clients -> Cast]
        BY ZenonT(60), <3>1, <4>1, <4>2, SetCastType DEF SetCast
      <4> QED BY ZenonT(60), <3>1, <3>3, <4>1, <4>3 DEF CastWrite
    <3> QED BY <2>7, <3>2, <3>3
  <2>8. CASE LoopBefore \/ LoopExpire \/ LoopCompare \/ LoopCastDone
    <3>1. CASE LoopBefore BY <3>1, SnapshotFinite DEF LoopBefore
    <3>2. CASE LoopExpire BY <3>2 DEF LoopExpire
    <3>3. CASE LoopCompare
      <4>1. cast' \in [Casters \cup Clients -> Cast]
        <5>1. [cast EXCEPT ![Loop] = [at |-> "snapped", snap |-> Snapshot, todo |-> {}]]
                \in [Casters \cup Clients -> Cast]
          BY ZenonT(60), SnapshotFinite, SetCastType DEF Casters
        <5> QED BY ZenonT(60), <3>3, <5>1 DEF LoopCompare, CastSnapshot, SetCast
      <4> QED BY <3>3, <4>1 DEF LoopCompare
    <3>4. CASE LoopCastDone BY <3>4 DEF LoopCastDone, Cast, Idle, Casters
    <3> QED BY <2>8, <3>1, <3>2, <3>3, <3>4
  <2>9. CASE UNCHANGED vars
    BY <2>9 DEF vars
  <2> QED
    BY <2>1, <2>2, <2>3, <2>4, <2>5, <2>6, <2>7, <2>8, <2>9 DEF Next
<1> QED
  BY <1>1, <1>2, PTL DEF Spec
-----------------------------------------------------------------------------
(* The three routing invariants are inductive together: NoDanglingRoute    *)
(* ties an entry of exitConns to the ID its session registered, which is   *)
(* what makes replacing or deleting one entry harmless to the others.      *)

Routing == NoDanglingRoute /\ OneLiveExitPerID /\ NoGhostExit

\* The steps that touch neither exitConns nor exits and move no handler into or
\* out of the steps between Swap and Remove.
LEMMA QuietStep ==
  ASSUME TypeOK, Routing, UNCHANGED <<owner, exitConns, exits>>,
         \A k \in Conns : alive'[k] /\ pc[k] # "none" => alive[k],
         \A k \in Conns :
           \/ pc'[k] = pc[k]
           \/ /\ pc[k] \notin {"swapped", "listed", "serving", "unswapped"}
              /\ pc'[k] \notin {"swapped", "listed", "serving", "unswapped"}
           \/ pc[k] = "listed" /\ pc'[k] = "serving"
  PROVE  Routing'
<1> USE DEF TypeOK, Routing
<1>1. NoDanglingRoute'
  BY DirectoryAssumption DEF NoDanglingRoute
<1>2. OneLiveExitPerID'
  BY DEF OneLiveExitPerID
<1>3. NoGhostExit'
  BY DEF NoGhostExit, Ids
<1> QED
  BY <1>1, <1>2, <1>3

\* Whatever the order in which handleExit's goroutines run: exitConns never
\* holds a session that was given up, at most one session per ID is live and it
\* is the one routed to, and every listed remote exit has its handler.
THEOREM RoutingSafe == Spec => [](NoDanglingRoute /\ OneLiveExitPerID /\ NoGhostExit)
<1>1. Init => Routing
  BY DEF Init, Routing, NoDanglingRoute, OneLiveExitPerID, NoGhostExit, Ids
<1>2. TypeOK /\ Routing /\ [Next]_vars => Routing'
  <2> SUFFICES ASSUME TypeOK, Routing, [Next]_vars PROVE Routing'
    OBVIOUS
  <2>1. ASSUME NEW k \in Conns,
               \/ Connect(k) \/ SessionEnds(k) \/ DeliverRegistration(k)
               \/ AwaitRegistration(k) \/ Registered(k) \/ RegistrationFails(k)
               \/ Broadcast(k) \/ Serve(k) \/ Return(k)
        PROVE  Routing'
    BY <2>1, QuietStep
    DEF TypeOK, Goto, Connect, SessionEnds, DeliverRegistration, AwaitRegistration,
        Registered, RegistrationFails, registrationOver, Broadcast, Serve, Return
  <2>2. ASSUME NEW k \in Conns, Swap(k) PROVE Routing'
    <3> USE <2>2, DirectoryAssumption DEF TypeOK, Swap, Goto, closeOld, Routing
    <3>1. NoDanglingRoute'
      BY DEF NoDanglingRoute
    <3>2. OneLiveExitPerID'
      BY ZenonT(60) DEF OneLiveExitPerID
    <3>3. NoGhostExit'
      BY DEF NoGhostExit, Ids
    <3> QED
      BY <3>1, <3>2, <3>3
  <2>3. ASSUME NEW k \in Conns, Add(k) PROVE Routing'
    <3> USE <2>3, DirectoryAssumption DEF TypeOK, Add, Goto, Routing
    <3>1. NoDanglingRoute'
      BY DEF NoDanglingRoute
    <3>2. OneLiveExitPerID'
      BY DEF OneLiveExitPerID
    <3>3. NoGhostExit'
      BY DEF NoGhostExit, Ids
    <3> QED
      BY <3>1, <3>2, <3>3
  <2>4. ASSUME NEW k \in Conns, Unswap(k) PROVE Routing'
    <3> USE <2>4, DirectoryAssumption DEF TypeOK, Unswap, Goto, deleteOwn, Routing
    <3>1. NoDanglingRoute'
      BY DEF NoDanglingRoute
    <3>2. OneLiveExitPerID'
      BY DEF OneLiveExitPerID
    <3>3. NoGhostExit'
      BY DEF NoGhostExit, Ids
    <3> QED
      BY <3>1, <3>2, <3>3
  <2>5. ASSUME NEW k \in Conns, Remove(k) PROVE Routing'
    <3> USE <2>5, DirectoryAssumption DEF TypeOK, Remove, Goto, removeID, Routing
    <3>1. NoDanglingRoute'
      BY DEF NoDanglingRoute
    <3>2. OneLiveExitPerID'
      BY DEF OneLiveExitPerID
    <3>3. NoGhostExit'
      BY DEF NoGhostExit, Ids
    <3> QED
      BY <3>1, <3>2, <3>3
  <2>6. ASSUME UNCHANGED <<pc, owner, alive, exitConns>>,
               \A i \in Ids : exits'[i] # "none" => exits[i] # "none"
        PROVE  Routing'
    <3> USE <2>6 DEF TypeOK, Routing
    <3>1. NoDanglingRoute' /\ OneLiveExitPerID'
      BY DEF NoDanglingRoute, OneLiveExitPerID
    <3>2. NoGhostExit'
      BY DEF NoGhostExit, Ids
    <3> QED
      BY <3>1, <3>2
  <2>7. ASSUME NEW k \in Conns, Heartbeat(k) PROVE Routing'
    BY <2>6, <2>7 DEF Heartbeat, TypeOK, Ids
  <2>8. ASSUME NEW i \in Ids, Age(i) PROVE Routing'
    BY <2>6, <2>8 DEF Age, TypeOK
  <2>9. ASSUME NEW c \in Clients, Join(c) \/ Push(c) \/ Leave(c) PROVE Routing'
    BY <2>6, <2>9 DEF Join, Push, Leave
  <2>10. ASSUME NEW b \in Casters, CastSessions(b) \/ CastWrite(b) PROVE Routing'
    BY <2>6, <2>10 DEF CastSessions, CastWrite
  <2>11. CASE LoopBefore \/ LoopExpire \/ LoopCompare \/ LoopCastDone
    BY <2>6, <2>11 DEF LoopBefore, LoopExpire, LoopCompare, LoopCastDone, TypeOK
  <2>12. CASE UNCHANGED vars
    BY <2>6, <2>12 DEF vars
  <2> QED
    BY <2>1, <2>2, <2>3, <2>4, <2>5, <2>7, <2>8, <2>9, <2>10, <2>11, <2>12
    DEF Next, Handler
<1> QED
  BY <1>1, <1>2, TypeCorrect, PTL DEF Spec, Routing

\* forwardOpen never finds in exitConns a session that its handler has given up.
THEOREM RoutesAreServed == Spec => []NoDanglingRoute
  BY RoutingSafe, PTL

\* Of the sessions that replaced another under one ID, one at most is alive, and
\* it is the one that handleExit left in exitConns.
THEOREM OneSessionPerID == Spec => []OneLiveExitPerID
  BY RoutingSafe, PTL

\* As long as no remote exit registers under the ID of the local exit, the
\* local exit stays listed: Expire spares it, and Remove is called for others.
THEOREM DirectStays == ASSUME Direct \notin ExitIds PROVE Spec => []DirectAlwaysListed
<1> DEFINE Persists == exits[Direct] = "persistent"
<1>1. Init => Persists
  BY ZenonT(60) DEF Init, Ids
<1>2. TypeOK /\ Persists /\ [Next]_vars => Persists'
  <2> SUFFICES ASSUME TypeOK, Persists, [Next]_vars PROVE Persists'
    OBVIOUS
  <2> USE DEF TypeOK
  <2>1. ASSUME NEW k \in Conns,
               Add(k) \/ Remove(k) \/ Heartbeat(k)
        PROVE  Persists'
    BY <2>1 DEF Add, Remove, removeID, Heartbeat, Ids
  <2>2. ASSUME NEW i \in Ids, Age(i) PROVE Persists'
    BY <2>2 DEF Age
  <2>3. CASE LoopExpire
    BY <2>3 DEF LoopExpire, expired, Ids
  <2>4. CASE UNCHANGED exits
    BY <2>4
  <2> QED
    BY ZenonT(60), <2>1, <2>2, <2>3, <2>4
    DEF Next, Handler, Connect, SessionEnds, DeliverRegistration, AwaitRegistration,
        Registered, RegistrationFails, registrationOver, Swap, Broadcast, Serve, Unswap, Return,
        Join, Push, Leave, CastSessions, CastWrite, LoopBefore, LoopCompare,
        LoopCastDone, vars
<1>3. Persists => DirectAlwaysListed
  BY DEF DirectAlwaysListed
<1> QED
  BY <1>1, <1>2, <1>3, TypeCorrect, PTL DEF Spec

-----------------------------------------------------------------------------
(* The catalogs of the clients, with the history variable of               *)
(* MCExitDirectory.  As long as no two goroutines overlapped, a client     *)
(* holds the current registry unless one of three things is still to come: *)
(* a handler that changed the registry has its broadcast before it, the    *)
(* catalogLoop has an expiry to report, or a broadcast of the current      *)
(* registry has not reached the client.                                    *)

Everyone == Casters \cup Clients

\* A handler has added or removed its exit and not yet read the registry.
Pending == \E k \in Conns : pc[k] \in {"listed", "unlisted"} /\ cast[k].at = "idle"

\* Where in its handler a goroutine may be writing catalogs.
CastPlaces ==
  /\ \A k \in Conns : cast[k].at # "idle" => pc[k] \in {"listed", "unlisted"}
  /\ \A c \in Clients : cast[c].at # "idle" <=> cpc[c] = "pushing"
  /\ loop # "idle" => cast[Loop].at = "idle"

OneBusy == \A b, d \in Everyone : Busy(b) /\ Busy(d) => b = d

\* What a goroutine is about to write is the registry.
Current ==
  \A b \in Everyone : cast[b].at # "idle" => cast[b].snap = Snapshot \/ Pending

\* The length catalogLoop compares with is the registry's.
Counted == loop = "before" => before = Cardinality(Snapshot) \/ Pending

WillWrite(c) ==
  \E b \in Casters :
    /\ cast[b].snap = Snapshot
    /\ cast[b].at = "snapped" \/ (cast[b].at = "writing" /\ c \in cast[b].todo)

Informed ==
  \A c \in Clients :
    cpc[c] = "served" =>
      \/ view[c] = Snapshot \/ Pending \/ WillWrite(c)
      \/ loop = "expired" /\ before # Cardinality(Snapshot)

Converging == OneBusy /\ Current /\ Counted /\ Informed

\* Only the record of one goroutine is set.
LEMMA CastUpdate ==
  ASSUME TypeOK, NEW b \in Everyone, NEW r, cast' = [cast EXCEPT ![b] = r]
  PROVE  cast'[b] = r /\ \A d \in Everyone : d # b => cast'[d] = cast[d]
BY ZenonT(60) DEF TypeOK, Everyone

\* The goroutines are distinct.
LEMMA Distinct ==
  /\ \A k \in Conns : k \in Everyone /\ k \in Casters /\ k \notin Clients /\ k # Loop
  /\ \A c \in Clients : c \in Everyone /\ c # Loop
  /\ \A b \in Casters : b \in Everyone /\ b \notin Clients /\ (b \in Conns \/ b = Loop)
  /\ Loop \in Casters /\ Loop \in Everyone /\ Loop \notin Clients
BY DirectoryAssumption DEF Everyone, Casters

\* The handlers of broadcastCatalog, pushCatalog and catalogLoop write catalogs
\* only where their code does.
LEMMA PlacesStep ==
  ASSUME TypeOK, CastPlaces, [Next]_vars
  PROVE  CastPlaces'
<1> USE DEF CastPlaces
<1>1. ASSUME UNCHANGED <<cast, cpc, loop>>,
             \A k \in Conns : pc[k] \in {"listed", "unlisted"} =>
                                pc'[k] \in {"listed", "unlisted"}
      PROVE  CastPlaces'
  BY ZenonT(60), <1>1
<1>2. ASSUME NEW k \in Conns, NEW from, NEW to, Goto(k, from, to),
             from \notin {"listed", "unlisted"}
      PROVE  \A l \in Conns : pc[l] \in {"listed", "unlisted"} => pc'[l] = pc[l]
  BY ZenonT(60), <1>2 DEF Goto, TypeOK
<1>3. ASSUME NEW k \in Conns,
             \/ Connect(k) \/ SessionEnds(k) \/ DeliverRegistration(k) \/ Heartbeat(k)
             \/ AwaitRegistration(k) \/ Registered(k) \/ Swap(k) \/ Add(k)
             \/ Unswap(k) \/ Remove(k)
      PROVE  CastPlaces'
  BY ZenonT(60), <1>1, <1>2, <1>3
  DEF Connect, SessionEnds, DeliverRegistration, Heartbeat, AwaitRegistration,
      Registered, Swap, Add, Unswap, Remove
<1>4. ASSUME NEW k \in Conns, RegistrationFails(k) PROVE CastPlaces'
  <2>1. \A l \in Conns : pc[l] \in {"listed", "unlisted"} => pc'[l] = pc[l]
    BY ZenonT(60), <1>4 DEF RegistrationFails, registrationOver, TypeOK
  <2> QED BY ZenonT(60), <1>1, <1>4, <2>1 DEF RegistrationFails
<1>5. ASSUME NEW k \in Conns, Broadcast(k) PROVE CastPlaces'
  <2>1. \A d \in Everyone : d # k => cast'[d] = cast[d]
    BY <1>5, Distinct, CastUpdate DEF Broadcast, CastSnapshot, SetCast
  <2> QED BY ZenonT(60), <1>5, <2>1, Distinct DEF Broadcast
<1>6. ASSUME NEW k \in Conns, Serve(k) \/ Return(k) PROVE CastPlaces'
  <2>1. cast'[k] = Idle /\ \A d \in Everyone : d # k => cast'[d] = cast[d]
    BY <1>6, Distinct, CastUpdate DEF Serve, Return
  <2>2. \A l \in Conns : l # k => pc'[l] = pc[l]
    BY ZenonT(60), <1>6 DEF Serve, Return, Goto, TypeOK
  <2>3. cast'[k].at = "idle"
    BY <2>1 DEF Idle
  <2> QED BY ZenonT(60), <1>6, <2>1, <2>2, <2>3, Distinct DEF Serve, Return
<1>7. ASSUME NEW i \in Ids, Age(i) PROVE CastPlaces'
  BY ZenonT(60), <1>1, <1>7 DEF Age
<1>8. ASSUME NEW c \in Clients, Join(c) \/ Leave(c) PROVE CastPlaces'
  <2>1. \A d \in Clients : cpc'[d] = "pushing" <=> cpc[d] = "pushing"
    BY <1>8 DEF Join, Leave, TypeOK
  <2> QED BY ZenonT(60), <1>8, <2>1 DEF Join, Leave
<1>9. ASSUME NEW c \in Clients, Push(c) PROVE CastPlaces'
  <2>1. \A d \in Everyone : d # c => cast'[d] = cast[d]
    BY <1>9, Distinct, CastUpdate DEF Push, CastSnapshot, SetCast
  <2>2. cast'[c].at # "idle" <=> cpc'[c] = "pushing"
    <3>1. CASE cpc[c] = "joined"
      BY <1>9, <3>1, Distinct, CastUpdate DEF Push, CastSnapshot, SetCast, TypeOK
    <3>2. CASE cpc[c] = "pushing"
      BY <1>9, <3>2, Distinct, CastUpdate DEF Push, Idle, TypeOK
    <3> QED BY ZenonT(60), <1>9, <3>1, <3>2 DEF Push
  <2>3. \A d \in Clients : d # c => cpc'[d] = cpc[d]
    BY ZenonT(60), <1>9 DEF Push, TypeOK
  <2>4. UNCHANGED <<pc, loop>>
    BY ZenonT(60), <1>9 DEF Push
  <2> QED BY ZenonT(60), <2>1, <2>2, <2>3, <2>4, Distinct
<1>10. ASSUME NEW b \in Casters, CastSessions(b) \/ CastWrite(b) PROVE CastPlaces'
  <2>1. cast[b].at # "idle" /\ \A d \in Everyone : d # b => cast'[d] = cast[d]
    BY <1>10, Distinct, CastUpdate DEF CastSessions, CastWrite, SetCast
  <2>2. UNCHANGED <<pc, cpc, loop>>
    BY ZenonT(60), <1>10 DEF CastSessions, CastWrite
  <2> QED BY ZenonT(60), <2>1, <2>2, Distinct
<1>11. CASE LoopBefore \/ LoopExpire
  BY ZenonT(60), <1>11 DEF LoopBefore, LoopExpire
<1>12. CASE LoopCompare
  <2>1. \A d \in Everyone : d # Loop => cast'[d] = cast[d]
    BY <1>12, Distinct, CastUpdate DEF LoopCompare, CastSnapshot, SetCast
  <2> QED BY ZenonT(60), <1>12, <2>1, Distinct DEF LoopCompare
<1>13. CASE LoopCastDone
  <2>1. cast'[Loop] = Idle /\ \A d \in Everyone : d # Loop => cast'[d] = cast[d]
    BY ZenonT(60), <1>13, Distinct, CastUpdate DEF LoopCastDone
  <2>2. cast'[Loop].at = "idle"
    BY <2>1 DEF Idle
  <2> QED BY ZenonT(60), <1>13, <2>1, <2>2, Distinct DEF LoopCastDone
<1>14. CASE UNCHANGED vars
  BY ZenonT(60), <1>1, <1>14 DEF vars
<1> QED
  BY ZenonT(60), <1>3, <1>4, <1>5, <1>6, <1>7, <1>8, <1>9, <1>10, <1>11, <1>12, <1>13, <1>14
  DEF Next, Handler

\* A goroutine that takes its snapshot without an overlap is alone.
LEMMA Alone ==
  ASSUME ~Overlap, NEW b \in Everyone, TakesSnapshot(b)
  PROVE  \A d \in Everyone : Busy(d) => d = b
BY ZenonT(60) DEF Overlap, Everyone

\* A step that neither reads nor writes the catalog and owes no less.
LEMMA AsideStep ==
  ASSUME Converging, UNCHANGED <<view, cast, loop, before>>, Snapshot' = Snapshot,
         Pending => Pending',
         \A c \in Clients : cpc'[c] = "served" => cpc[c] = "served"
  PROVE  Converging'
<1>1. OneBusy'
  BY ZenonT(60) DEF Converging, OneBusy, Busy
<1>2. Current' /\ Counted'
  BY ZenonT(60) DEF Converging, Current, Counted
<1>3. Informed'
  BY ZenonT(60) DEF Converging, Informed, WillWrite
<1> QED BY ZenonT(60), <1>1, <1>2, <1>3 DEF Converging

\* Add or Remove: the handler owes a broadcast.
LEMMA ChangeStep ==
  ASSUME Converging, UNCHANGED <<cast, loop>>, Pending'
  PROVE  Converging'
<1>1. OneBusy'
  BY ZenonT(60) DEF Converging, OneBusy, Busy
<1> QED BY ZenonT(60), <1>1 DEF Converging, Current, Counted, Informed

\* The first step of broadcastCatalog, pushCatalog or, when the length changed,
\* of what catalogLoop does next.
LEMMA SnapshotStep ==
  ASSUME TypeOK, CastPlaces, Converging, ~Overlap, NEW b \in Everyone,
         cast[b].at = "idle", CastSnapshot(b), UNCHANGED <<exits, view, pc>>,
         b = Loop => loop' = "idle", b # Loop => loop' = loop,
         \A c \in Clients : cpc'[c] = "served" => cpc[c] = "served"
  PROVE  Converging'
<1>1. /\ cast'[b] = [at |-> "snapped", snap |-> Snapshot, todo |-> {}]
      /\ \A d \in Everyone : d # b => cast'[d] = cast[d]
  BY ZenonT(60), CastUpdate DEF CastSnapshot, SetCast
<1>2. cast'[b].at = "snapped" /\ cast'[b].snap = Snapshot
  BY <1>1
<1>3. Snapshot' = Snapshot
  BY ZenonT(60) DEF Snapshot
<1>4. \A d \in Everyone : Busy(d) => d = b
  BY ZenonT(60), <1>2, Alone DEF TakesSnapshot
<1>5. \A d \in Everyone : d # b => cast[d].at = "idle"
  BY ZenonT(60), <1>4 DEF Busy
<1>6. loop' = "idle" /\ (b # Loop => loop = "idle")
  BY ZenonT(60), <1>4, Distinct DEF Busy
<1>7. OneBusy'
  BY ZenonT(60), <1>1, <1>5, <1>6 DEF OneBusy, Busy
<1>8. Current' /\ Counted'
  BY ZenonT(60), <1>1, <1>2, <1>3, <1>5, <1>6 DEF Current, Counted
<1>9. Informed'
  <2>1. CASE b \in Casters
    BY ZenonT(60), <2>1, <1>2, <1>3 DEF Informed, WillWrite
  <2>2. CASE b \notin Casters
    <3>1. \A c \in Clients : ~WillWrite(c)
      BY <1>5, <2>2, Distinct DEF WillWrite
    <3>2. \A c \in Clients : cpc[c] = "served" => view[c] = Snapshot \/ Pending
      BY ZenonT(60), <1>6, <2>2, <3>1, Distinct DEF Converging, Informed
    <3>3. Pending => Pending'
      BY ZenonT(60), <1>1, <2>2, Distinct DEF Pending
    <3> QED BY ZenonT(60), <1>3, <3>2, <3>3 DEF Informed
  <2> QED BY <2>1, <2>2
<1> QED BY ZenonT(60), <1>7, <1>8, <1>9 DEF Converging

\* The end of a broadcast, whose writes are all done.
LEMMA DoneStep ==
  ASSUME TypeOK, Converging, NEW b \in Casters, CastDone(b),
         cast' = [cast EXCEPT ![b] = Idle],
         UNCHANGED <<exits, cpc, view, loop, before>>,
         \A k \in Conns : k # b => pc'[k] = pc[k]
  PROVE  Converging'
<1>1. cast'[b] = Idle /\ \A d \in Everyone : d # b => cast'[d] = cast[d]
  BY ZenonT(60), Distinct, CastUpdate
<1>2. cast'[b].at = "idle" /\ cast[b].at = "writing" /\ cast[b].todo = {}
  BY <1>1 DEF Idle, CastDone
<1>3. Snapshot' = Snapshot
  BY ZenonT(60) DEF Snapshot
<1>4. Pending => Pending'
  BY ZenonT(60), <1>1, <1>2, Distinct DEF Pending
<1>5. OneBusy'
  BY ZenonT(60), <1>1, <1>2 DEF Converging, OneBusy, Busy
<1>6. Current' /\ Counted'
  BY ZenonT(60), <1>1, <1>2, <1>3, <1>4 DEF Converging, Current, Counted
<1>7. \A c \in Clients : WillWrite(c) => WillWrite(c)'
  BY ZenonT(60), <1>1, <1>2, <1>3, Distinct DEF WillWrite
<1>8. Informed'
  BY ZenonT(60), <1>3, <1>4, <1>7 DEF Converging, Informed
<1> QED BY ZenonT(60), <1>5, <1>6, <1>8 DEF Converging

\* The second step of pushCatalog.
LEMMA PushedStep ==
  ASSUME TypeOK, CastPlaces, Converging, NEW c \in Clients, Push(c), cpc[c] = "pushing"
  PROVE  Converging'
<1>1. /\ UNCHANGED <<exits, pc, loop, before>>
      /\ cpc' = [cpc EXCEPT ![c] = "served"]
      /\ view' = [view EXCEPT ![c] = cast[c].snap]
      /\ cast' = [cast EXCEPT ![c] = Idle]
  BY ZenonT(60) DEF Push
<1>2. cast'[c] = Idle /\ \A d \in Everyone : d # c => cast'[d] = cast[d]
  BY ZenonT(60), <1>1, Distinct, CastUpdate
<1>3. cast'[c].at = "idle" /\ cast[c].at # "idle"
  BY <1>2 DEF Idle, CastPlaces
<1>4. Snapshot' = Snapshot
  BY ZenonT(60), <1>1 DEF Snapshot
<1>5. Pending => Pending'
  BY ZenonT(60), <1>1, <1>2, Distinct DEF Pending
<1>6. OneBusy'
  BY ZenonT(60), <1>1, <1>2, <1>3 DEF Converging, OneBusy, Busy
<1>7. Current' /\ Counted'
  BY ZenonT(60), <1>1, <1>2, <1>3, <1>4, <1>5 DEF Converging, Current, Counted
<1>8. \A d \in Clients : WillWrite(d) => WillWrite(d)'
  BY ZenonT(60), <1>1, <1>2, <1>4, Distinct DEF WillWrite
<1>9. \A d \in Clients : d # c => cpc'[d] = cpc[d] /\ view'[d] = view[d]
  BY ZenonT(60), <1>1 DEF TypeOK
<1>10. view'[c] = cast[c].snap
  BY ZenonT(60), <1>1 DEF TypeOK
<1>11. view'[c] = Snapshot' \/ Pending'
  BY ZenonT(60), <1>3, <1>4, <1>5, <1>10, Distinct DEF Converging, Current
<1>12. Informed'
  BY ZenonT(60), <1>1, <1>4, <1>5, <1>8, <1>9, <1>11 DEF Converging, Informed
<1> QED BY ZenonT(60), <1>6, <1>7, <1>12 DEF Converging

\* broadcastCatalog lists the clients, then writes to them one by one.
LEMMA CastStep ==
  ASSUME TypeOK, Converging, NEW b \in Casters, CastSessions(b) \/ CastWrite(b)
  PROVE  Converging'
<1>1. /\ UNCHANGED <<exits, pc, cpc, loop, before>>
      /\ cast[b].at # "idle"
  BY DEF CastSessions, CastWrite
<1>2. /\ cast'[b].at = "writing" /\ cast'[b].snap = cast[b].snap
      /\ \A d \in Everyone : d # b => cast'[d] = cast[d]
  <2>1. CASE CastSessions(b)
    BY <2>1, Distinct, CastUpdate DEF CastSessions, SetCast
  <2>2. CASE CastWrite(b)
    BY <2>2, Distinct, CastUpdate DEF CastWrite, SetCast
  <2> QED BY <2>1, <2>2
<1>3. Snapshot' = Snapshot
  BY ZenonT(60), <1>1 DEF Snapshot
<1>4. Pending => Pending'
  BY ZenonT(60), <1>1, <1>2, Distinct DEF Pending
<1>5. OneBusy'
  BY ZenonT(60), <1>1, <1>2 DEF Converging, OneBusy, Busy
<1>6. Current' /\ Counted'
  BY ZenonT(60), <1>1, <1>2, <1>3, <1>4 DEF Converging, Current, Counted
<1>7. ASSUME NEW c \in Clients, cpc[c] = "served"
      PROVE  \/ view'[c] = Snapshot' \/ Pending' \/ WillWrite(c)'
             \/ loop = "expired" /\ before # Cardinality(Snapshot)
  <2>1. CASE CastSessions(b)
    <3>1. c \in cast'[b].todo /\ view' = view
      BY <1>7, <2>1, Distinct, CastUpdate DEF CastSessions, SetCast
    <3>2. WillWrite(c) => WillWrite(c)'
      BY ZenonT(60), <1>2, <1>3, <3>1, Distinct DEF WillWrite
    <3> QED BY ZenonT(60), <1>3, <1>4, <1>7, <3>1, <3>2 DEF Converging, Informed
  <2>2. CASE CastWrite(b)
    <3>1. PICK d \in cast[b].todo :
            /\ view' = [view EXCEPT ![d] = cast[b].snap]
            /\ SetCast(b, "writing", cast[b].snap, cast[b].todo \ {d})
      BY ZenonT(60), <2>2 DEF CastWrite
    <3>2. CASE c = d
      <4>1. view'[c] = cast[b].snap
        BY ZenonT(60), <3>1, <3>2 DEF TypeOK
      <4> QED BY ZenonT(60), <1>1, <1>3, <1>4, <4>1, Distinct DEF Converging, Current
    <3>3. CASE c # d
      <4>1. view'[c] = view[c]
        BY ZenonT(60), <3>1, <3>3 DEF TypeOK
      <4> DEFINE written == [at |-> "writing", snap |-> cast[b].snap,
                             todo |-> cast[b].todo \ {d}]
      <4>2. cast'[b] = written
        BY ZenonT(60), <3>1, Distinct, CastUpdate DEF SetCast
      <4>3. cast'[b].todo = cast[b].todo \ {d} /\ cast[b].at = "writing"
        BY <2>2, <4>2 DEF CastWrite
      <4>4. c \in cast[b].todo => c \in cast'[b].todo
        BY ZenonT(60), <3>3, <4>3
      <4>5. WillWrite(c) => WillWrite(c)'
        BY ZenonT(60), <1>2, <1>3, <4>3, <4>4, Distinct DEF WillWrite
      <4> QED BY ZenonT(60), <1>3, <1>4, <1>7, <4>1, <4>5 DEF Converging, Informed
    <3> QED BY <3>2, <3>3
  <2> QED BY <2>1, <2>2
<1>8. Informed'
  BY ZenonT(60), <1>1, <1>3, <1>7 DEF Informed
<1> QED BY ZenonT(60), <1>5, <1>6, <1>8 DEF Converging

\* catalogLoop reads the length of the registry.
LEMMA BeforeStep ==
  ASSUME Converging, ~Overlap, LoopBefore
  PROVE  Converging'
<1>1. \A d \in Everyone : Busy(d) => d = Loop
  BY ZenonT(60), Distinct, Alone DEF TakesSnapshot, LoopBefore
<1>2. \A d \in Everyone : cast[d].at = "idle"
  BY ZenonT(60), <1>1 DEF Busy, LoopBefore
<1>3. Snapshot' = Snapshot /\ (Pending => Pending')
  BY ZenonT(60) DEF Snapshot, Pending, LoopBefore
<1>4. OneBusy'
  BY ZenonT(60), <1>2 DEF OneBusy, Busy, LoopBefore
<1>5. Current' /\ Counted'
  BY ZenonT(60), <1>2, <1>3 DEF Current, Counted, LoopBefore
<1>6. \A c \in Clients : cpc[c] = "served" => view[c] = Snapshot \/ Pending
  BY ZenonT(60), <1>2, Distinct DEF Converging, Informed, WillWrite, LoopBefore
<1>7. Informed'
  BY ZenonT(60), <1>3, <1>6 DEF Informed, LoopBefore
<1> QED BY ZenonT(60), <1>4, <1>5, <1>7 DEF Converging

\* Expire makes the registry shorter whenever it changes it, so that comparing
\* lengths is enough.
LEMMA ExpireStep ==
  ASSUME TypeOK, CastPlaces, Converging, LoopExpire
  PROVE  Converging'
<1>1. /\ loop = "before" /\ loop' = "expired"
      /\ exits' = [i \in Ids |-> IF expired(i) THEN "none" ELSE exits[i]]
      /\ UNCHANGED <<pc, cpc, view, cast, before>>
  BY ZenonT(60) DEF LoopExpire
<1>2. \A d \in Everyone : cast[d].at = "idle"
  BY ZenonT(60), <1>1, Distinct DEF Converging, OneBusy, Busy, CastPlaces
<1>3. Pending => Pending'
  BY ZenonT(60), <1>1 DEF Pending
<1>4. Snapshot' \subseteq Snapshot
  BY <1>1 DEF Snapshot, TypeOK
<1>5. Snapshot' # Snapshot => Cardinality(Snapshot) # Cardinality(Snapshot')
  <2>1. IsFiniteSet(Snapshot)
    BY DirectoryAssumption, FS_Subset, SnapshotFinite
  <2> QED BY <1>4, <2>1, FS_Subset
<1>6. OneBusy'
  BY ZenonT(60), <1>1 DEF Converging, OneBusy, Busy
<1>7. Current' /\ Counted'
  BY ZenonT(60), <1>1, <1>2 DEF Current, Counted
<1>8. \A c \in Clients : cpc[c] = "served" => view[c] = Snapshot \/ Pending
  BY ZenonT(60), <1>1, <1>2, Distinct DEF Converging, Informed, WillWrite
<1>9. before = Cardinality(Snapshot) \/ Pending
  BY ZenonT(60), <1>1 DEF Converging, Counted
<1>10. ASSUME NEW c \in Clients, cpc'[c] = "served"
       PROVE  view'[c] = Snapshot' \/ Pending' \/ before' # Cardinality(Snapshot')
  BY ZenonT(60), <1>1, <1>3, <1>5, <1>8, <1>9, <1>10
<1>11. Informed'
  BY ZenonT(60), <1>1, <1>10 DEF Informed
<1> QED BY ZenonT(60), <1>6, <1>7, <1>11 DEF Converging

\* When no two goroutines overlapped, every step keeps what the clients are owed.
LEMMA ConvergingStep ==
  ASSUME TypeOK, CastPlaces, Converging, [Next]_vars, ~Overlap
  PROVE  Converging'
<1>1. ASSUME NEW k \in Conns,
             \/ Connect(k) \/ SessionEnds(k) \/ DeliverRegistration(k)
             \/ AwaitRegistration(k) \/ Registered(k) \/ Swap(k) \/ Unswap(k)
             \/ RegistrationFails(k)
      PROVE  Converging'
  <2>1. UNCHANGED <<exits, cpc, view, cast, loop, before>>
    BY ZenonT(60), <1>1
    DEF Connect, SessionEnds, DeliverRegistration, AwaitRegistration, Registered,
        Swap, Unswap, RegistrationFails
  <2>2. \A l \in Conns : pc[l] \in {"listed", "unlisted"} => pc'[l] = pc[l]
    BY ZenonT(60), <1>1
    DEF Connect, SessionEnds, DeliverRegistration, AwaitRegistration, Registered,
        Swap, Unswap, RegistrationFails, registrationOver, Goto, TypeOK
  <2>3. Pending => Pending'
    BY ZenonT(60), <2>1, <2>2 DEF Pending
  <2>4. Snapshot' = Snapshot
    BY ZenonT(60), <2>1 DEF Snapshot
  <2> QED BY ZenonT(60), <2>1, <2>3, <2>4, AsideStep
<1>2. ASSUME NEW k \in Conns, Add(k) \/ Remove(k) PROVE Converging'
  <2>1. /\ UNCHANGED <<cast, loop>>
        /\ pc[k] \in {"swapped", "unswapped"} /\ pc'[k] \in {"listed", "unlisted"}
    BY ZenonT(60), <1>2 DEF Add, Remove, Goto, TypeOK
  <2>2. Pending'
    BY ZenonT(60), <2>1 DEF Pending, CastPlaces
  <2> QED BY ZenonT(60), <2>1, <2>2, ChangeStep
<1>3. ASSUME NEW k \in Conns, Broadcast(k) PROVE Converging'
  <2>1. /\ cast[k].at = "idle" /\ CastSnapshot(k)
        /\ UNCHANGED <<pc, exits, cpc, view, loop>>
    BY ZenonT(60), <1>3 DEF Broadcast
  <2>2. k \in Everyone /\ k # Loop
    BY Distinct
  <2> QED BY ZenonT(60), <2>1, <2>2, SnapshotStep
<1>4. ASSUME NEW k \in Conns, Serve(k) \/ Return(k) PROVE Converging'
  <2>1. /\ CastDone(k) /\ cast' = [cast EXCEPT ![k] = Idle]
        /\ UNCHANGED <<exits, cpc, view, loop, before>>
    BY ZenonT(60), <1>4 DEF Serve, Return
  <2>2. \A l \in Conns : l # k => pc'[l] = pc[l]
    BY ZenonT(60), <1>4 DEF Serve, Return, Goto, TypeOK
  <2> QED BY ZenonT(60), <2>1, <2>2, Distinct, DoneStep
<1>5. ASSUME UNCHANGED <<pc, cpc, view, cast, loop, before>>, Snapshot' = Snapshot
      PROVE  Converging'
  <2>1. Pending => Pending'
    BY ZenonT(60), <1>5 DEF Pending
  <2> QED BY ZenonT(60), <1>5, <2>1, AsideStep
<1>6. ASSUME NEW k \in Conns, Heartbeat(k) PROVE Converging'
  <2>1. Snapshot' = Snapshot
    BY <1>6 DEF Heartbeat, Snapshot, TypeOK
  <2> QED BY ZenonT(60), <1>5, <1>6, <2>1 DEF Heartbeat
<1>7. ASSUME NEW i \in Ids, Age(i) PROVE Converging'
  <2>1. Snapshot' = Snapshot
    BY <1>7 DEF Age, Snapshot, TypeOK
  <2> QED BY ZenonT(60), <1>5, <1>7, <2>1 DEF Age
<1>8. ASSUME NEW c \in Clients, Join(c) \/ Leave(c) PROVE Converging'
  <2>1. /\ UNCHANGED <<pc, exits, view, cast, loop, before>>
        /\ \A d \in Clients : cpc'[d] = "served" => cpc[d] = "served"
    BY <1>8 DEF Join, Leave, TypeOK
  <2>2. Snapshot' = Snapshot /\ (Pending => Pending')
    BY ZenonT(60), <2>1 DEF Snapshot, Pending
  <2> QED BY ZenonT(60), <2>1, <2>2, AsideStep
<1>9. ASSUME NEW c \in Clients, Push(c), cpc[c] = "joined" PROVE Converging'
  <2>1. /\ CastSnapshot(c) /\ UNCHANGED <<pc, exits, view, loop>>
        /\ cpc' = [cpc EXCEPT ![c] = "pushing"]
    BY ZenonT(60), <1>9 DEF Push
  <2>2. \A d \in Clients : cpc'[d] = "served" => cpc[d] = "served"
    BY <2>1 DEF TypeOK
  <2>3. cast[c].at = "idle"
    BY <1>9 DEF CastPlaces
  <2>4. c \in Everyone /\ c # Loop
    BY Distinct
  <2> QED BY ZenonT(60), <2>1, <2>2, <2>3, <2>4, SnapshotStep
<1>10. CASE LoopCompare
  <2>1. /\ loop = "expired" /\ loop' = "idle" /\ cast[Loop].at = "idle"
        /\ UNCHANGED <<pc, exits, cpc, view>>
    BY ZenonT(60), <1>10 DEF LoopCompare, CastPlaces
  <2>2. CASE lengthChanged
    <3>1. CastSnapshot(Loop)
      BY ZenonT(60), <1>10, <2>2 DEF LoopCompare
    <3> QED BY ZenonT(60), <2>1, <3>1, Distinct, SnapshotStep
  <2>3. CASE ~lengthChanged
    <3>1. cast' = cast /\ before = Cardinality(Snapshot)
      BY ZenonT(60), <1>10, <2>3 DEF LoopCompare, lengthChanged
    <3>2. Snapshot' = Snapshot /\ (Pending => Pending')
      BY ZenonT(60), <2>1, <3>1 DEF Snapshot, Pending
    <3>3. OneBusy' /\ Current' /\ Counted'
      BY ZenonT(60), <2>1, <3>1, <3>2 DEF Converging, OneBusy, Current, Counted, Busy
    <3>4. Informed'
      BY ZenonT(60), <2>1, <3>1, <3>2 DEF Converging, Informed, WillWrite
    <3> QED BY ZenonT(60), <3>3, <3>4 DEF Converging
  <2> QED BY <2>2, <2>3
<1>11. CASE LoopCastDone
  BY ZenonT(60), <1>11, Distinct, DoneStep DEF LoopCastDone
<1>12. CASE UNCHANGED vars
  <2>1. Snapshot' = Snapshot
    BY ZenonT(60), <1>12 DEF Snapshot, vars
  <2> QED BY ZenonT(60), <1>5, <1>12, <2>1 DEF vars
<1>13. ASSUME NEW c \in Clients, Push(c) PROVE cpc[c] = "joined" \/ cpc[c] = "pushing"
  BY ZenonT(60), <1>13 DEF Push
<1> QED
  BY ZenonT(60), <1>1, <1>2, <1>3, <1>4, <1>6, <1>7, <1>8, <1>9, <1>10, <1>11, <1>12, <1>13,
     PushedStep, CastStep, BeforeStep, ExpireStep
  DEF Next, Handler

\* When handleExit, pushCatalog and catalogLoop have all come to rest, every
\* client holds the registry as its catalog, unless two of them once overlapped
\* between reading the registry and writing the catalog: for any number of exits
\* and clients.
THEOREM CatalogReachesClients == SpecHistory => []CatalogConverges
<1> DEFINE HInv == CastPlaces /\ (~overlapped => Converging)
<1>1. InitHistory => HInv
  <2> SUFFICES ASSUME InitHistory PROVE CastPlaces /\ Converging
    OBVIOUS
  <2>1. /\ \A b \in Everyone : cast[b].at = "idle"
        /\ loop = "idle" /\ \A c \in Clients : cpc[c] = "none"
    BY DEF InitHistory, Init, Everyone, Idle
  <2>2. CastPlaces
    BY <2>1, Distinct DEF CastPlaces
  <2>3. OneBusy /\ Current
    BY ZenonT(60), <2>1 DEF OneBusy, Current, Busy
  <2>4. Counted /\ Informed
    BY <2>1 DEF Counted, Informed
  <2> QED BY <2>2, <2>3, <2>4 DEF Converging
<1>2. TypeOK /\ HInv /\ [NextHistory]_<<vars, overlapped>> => HInv'
  <2> SUFFICES ASSUME TypeOK, HInv, [NextHistory]_<<vars, overlapped>> PROVE HInv'
    OBVIOUS
  <2>1. [Next]_vars
    BY ZenonT(60) DEF NextHistory
  <2>2. CastPlaces'
    BY ZenonT(60), <2>1, PlacesStep
  <2>3. CASE NextHistory
    <3>1. ~overlapped' => ~overlapped /\ ~Overlap
      BY ZenonT(60), <2>3 DEF NextHistory
    <3> QED BY ZenonT(60), <2>1, <2>2, <3>1, ConvergingStep
  <2>4. CASE UNCHANGED <<vars, overlapped>>
    <3>1. ~Overlap
      BY <2>4, Distinct DEF vars, Overlap, TakesSnapshot
    <3> QED BY ZenonT(60), <2>1, <2>2, <2>4, <3>1, ConvergingStep
  <2> QED BY <2>3, <2>4
<1>3. HInv => CatalogConverges
  <2> SUFFICES ASSUME HInv, Quiet, ~overlapped,
                      NEW c \in Clients, cpc[c] = "served"
               PROVE  view[c] = Snapshot
    BY ZenonT(60) DEF CatalogConverges
  <2>1. ~Pending
    BY ZenonT(60) DEF Quiet, Pending
  <2>2. ~WillWrite(c)
    BY ZenonT(60) DEF Quiet, WillWrite
  <2> QED BY ZenonT(60), <2>1, <2>2 DEF Quiet, Converging, Informed
<1>4. SpecHistory => Spec
  <2>1. InitHistory => Init
    BY DEF InitHistory
  <2>2. [NextHistory]_<<vars, overlapped>> => [Next]_vars
    BY DEF NextHistory
  <2> QED BY <2>1, <2>2, PTL DEF SpecHistory, Spec
<1> QED
  BY <1>1, <1>2, <1>3, <1>4, TypeCorrect, PTL DEF SpecHistory

-----------------------------------------------------------------------------
(* Registry.Select, for every registry, every load and every order in      *)
(* which the map is iterated: the specification ExitSelect, whose IDs are  *)
(* numbers.                                                                *)

\* Every field keeps its type; in particular no registration and no heartbeat
\* makes a capacity zero or negative.
THEOREM SelectTypeCorrect == SelectSpec => []SelectTypeOK
<1> USE SelectAssumption
<1>1. SelectInit => SelectTypeOK
  BY DEF SelectInit, SelectTypeOK, Modes
<1>2. SelectTypeOK /\ [SelectNext]_selectVars => SelectTypeOK'
  <2> SUFFICES ASSUME SelectTypeOK, [SelectNext]_selectVars PROVE SelectTypeOK'
    OBVIOUS
  <2> USE DEF SelectTypeOK, Modes, locals, entries
  <2>1. ASSUME NEW i \in Numbers, NEW c \in Capacities, RegistryAdd(i, c) PROVE SelectTypeOK'
    BY <2>1 DEF RegistryAdd, advertised
  <2>2. ASSUME NEW i \in Numbers, NEW a \in Loads, NEW c \in Capacities, RegistryHeartbeat(i, a, c)
        PROVE  SelectTypeOK'
    <3>1. newCapacity(i, c) \in Nat \ {0}
      BY DEF newCapacity
    <3>2. healthFor(a, newCapacity(i, c)) \in {"healthy", "degraded", "at-capacity"}
      BY DEF healthFor
    <3> QED
      BY <2>2, <3>1, <3>2 DEF RegistryHeartbeat
  <2>3. ASSUME NEW i \in Numbers, RegistryRemove(i) PROVE SelectTypeOK'
    BY <2>3 DEF RegistryRemove
  <2>4. ASSUME NEW i \in Numbers, Visit(i) PROVE SelectTypeOK'
    BY <2>4 DEF Visit, Score
  <2>5. ASSUME NEW r \in Numbers \cup {AnyExit}, NEW f \in Modes, Select(r, f) PROVE SelectTypeOK'
    <3>1. selected' \in Numbers \cup {NoExit} /\ todo' \in SUBSET Numbers
      BY ZenonT(60), <2>5 DEF Select, Eligible
    <3>2. at' \in {"idle", "loop", "done"} /\ score' \in Int
      BY <2>5 DEF Select
    <3> QED
      BY ZenonT(60), <2>5, <3>1, <3>2 DEF Select
  <2>6. CASE SelectReturn
    BY <2>6 DEF SelectReturn
  <2>7. CASE Unlock
    BY <2>7 DEF Unlock
  <2>8. CASE UNCHANGED selectVars
    BY <2>8 DEF selectVars
  <2> HIDE DEF SelectTypeOK, Modes, locals, entries
  <2> QED
    BY <2>1, <2>2, <2>3, <2>4, <2>5, <2>6, <2>7, <2>8 DEF SelectNext
<1> QED
  BY <1>1, <1>2, PTL DEF SelectSpec

-----------------------------------------------------------------------------
(* The invariant of the loop: what is selected is preferred to every entry *)
(* visited so far.                                                         *)

Visited == listed \ todo

LoopInv ==
  at = "loop" =>
    /\ request = AnyExit /\ todo \subseteq listed
    /\ selected = NoExit => \A j \in Visited : ~Usable(j)
    /\ selected # NoExit =>
         /\ selected \in Visited /\ Usable(selected) /\ score = Score(selected)
         /\ \A j \in Visited : Usable(j) => Preferred(selected, j)

\* Between iterations Preferred is a total order.
LEMMA PreferredOrder ==
  ASSUME SelectTypeOK, NEW i \in Numbers, NEW j \in Numbers
  PROVE  /\ Score(i) \in Int
         /\ Preferred(i, i)
         /\ Preferred(i, j) \/ Preferred(j, i)
         /\ \A k \in Numbers : Preferred(i, j) /\ Preferred(j, k) => Preferred(i, k)
<1> USE SelectAssumption
<1>1. \A k \in Numbers : Score(k) \in Int /\ k \in Int
  BY DEF SelectTypeOK, Score
<1> QED
  BY <1>1 DEF Preferred

\* One iteration of the loop keeps its invariant, whichever entry it visits.
LEMMA VisitKeepsLoopInv ==
  ASSUME SelectTypeOK, LoopInv, NEW i \in Numbers, Visit(i)
  PROVE  LoopInv'
<1> USE SelectAssumption
<1>1. /\ at = "loop" /\ at' = "loop" /\ request' = AnyExit /\ i \in todo /\ i \in listed
      /\ todo' \subseteq listed' /\ Visited' = Visited \cup {i}
  BY ZenonT(60) DEF Visit, LoopInv, Visited, entries
<1>2. /\ \A j \in Numbers : Usable(j)' = Usable(j) /\ Score(j)' = Score(j)
      /\ \A j, k \in Numbers : Preferred(j, k)' = Preferred(j, k)
  BY DEF Visit, entries, Usable, Score, Preferred
<1>3. Visited \subseteq Numbers
  BY DEF Visited, SelectTypeOK
<1>4. \A k \in Numbers : Score(k) \in Int /\ k \in Int
  BY DEF SelectTypeOK, Score
<1>5. CASE Usable(i) /\ better(i)
  <2>1. selected' = i /\ score' = Score(i)
    BY <1>5 DEF Visit
  <2>2. \A j \in Visited : Usable(j) => Preferred(i, j)
    <3>1. CASE selected = NoExit
      BY ZenonT(60), <1>1, <3>1 DEF LoopInv
    <3>2. CASE selected # NoExit
      <4>1. selected \in Numbers /\ score = Score(selected)
        BY ZenonT(60), <1>1, <1>3, <3>2 DEF LoopInv
      <4>2. Preferred(i, selected)
        BY <1>4, <1>5, <3>2, <4>1 DEF better, Preferred
      <4>3. \A j \in Visited : Usable(j) => Preferred(selected, j)
        BY ZenonT(60), <1>1, <3>2 DEF LoopInv
      <4> QED
        BY <1>3, <4>1, <4>2, <4>3, PreferredOrder
    <3> QED
      BY <3>1, <3>2
  <2>3. Preferred(i, i)
    BY PreferredOrder
  <2> QED
    BY ZenonT(60), <1>1, <1>2, <1>3, <1>5, <2>1, <2>2, <2>3 DEF LoopInv
<1>6. CASE ~(Usable(i) /\ better(i))
  <2>1. selected' = selected /\ score' = score
    BY <1>6 DEF Visit
  <2>2. CASE selected = NoExit
    <3>1. ~Usable(i)
      BY <1>6, <2>2 DEF better
    <3> QED
      BY <1>1, <1>2, <1>3, <2>1, <2>2, <3>1 DEF LoopInv
  <2>3. CASE selected # NoExit
    <3>1. selected \in Numbers
      BY ZenonT(60), <1>1, <1>3, <2>3 DEF LoopInv
    <3>2. Usable(i) => Preferred(selected, i)
      BY <1>1, <1>4, <1>6, <2>3, <3>1 DEF LoopInv, better, Preferred
    <3> QED
      BY ZenonT(60), <1>1, <1>2, <1>3, <2>1, <2>3, <3>1, <3>2 DEF LoopInv
  <2> QED
    BY <2>2, <2>3
<1> QED
  BY <1>5, <1>6

\* Select answers every request correctly, for every registry and every order
\* of iteration.
THEOREM SelectIsCorrect == SelectSpec => []SelectCorrect
<1> USE SelectAssumption
<1> DEFINE IInv == LoopInv /\ SelectCorrect
<1>1. SelectInit => IInv
  BY DEF SelectInit, LoopInv, SelectCorrect
<1>2. SelectTypeOK /\ IInv /\ [SelectNext]_selectVars => IInv'
  <2> SUFFICES ASSUME SelectTypeOK, IInv, [SelectNext]_selectVars PROVE IInv'
    OBVIOUS
  <2> USE DEF locals, entries
  <2>1. ASSUME NEW i \in Numbers, NEW c \in Capacities, RegistryAdd(i, c) PROVE IInv'
    BY ZenonT(60), <2>1 DEF RegistryAdd, LoopInv, SelectCorrect
  <2>2. ASSUME NEW i \in Numbers, NEW a \in Loads, NEW c \in Capacities, RegistryHeartbeat(i, a, c)
        PROVE  IInv'
    BY ZenonT(60), <2>2 DEF RegistryHeartbeat, LoopInv, SelectCorrect
  <2>3. ASSUME NEW i \in Numbers, RegistryRemove(i) PROVE IInv'
    BY <2>3 DEF RegistryRemove, LoopInv, SelectCorrect
  <2>4. ASSUME NEW i \in Numbers, Visit(i) PROVE IInv'
    <3>1. LoopInv'
      BY <2>4, VisitKeepsLoopInv
    <3>2. at' # "done"
      BY <2>4 DEF Visit
    <3> QED
      BY <3>1, <3>2 DEF SelectCorrect
  <2>5. ASSUME NEW r \in Numbers \cup {AnyExit}, NEW f \in Modes, Select(r, f) PROVE IInv'
    <3>1. \A i \in Numbers : Usable(i)' = Usable(i)
      BY ZenonT(60), <2>5 DEF Select, Usable
    <3>2. CASE r = AnyExit
      <4>1. at' = "loop" /\ request' = AnyExit /\ todo' = listed' /\ selected' = NoExit
        BY ZenonT(60), <2>5, <3>2 DEF Select
      <4> QED
        BY <4>1 DEF LoopInv, Visited, SelectCorrect
    <3>3. CASE r # AnyExit
      <4>1. at' = "done" /\ request' = r /\ fallback' = f /\ Eligible' = Eligible
        BY ZenonT(60), <2>5, <3>1, <3>3 DEF Select, Eligible, SelectTypeOK
      <4>2. \/ selected' = r /\ r \in Eligible
            \/ r \notin Eligible /\ f = "strict" /\ selected' = NoExit
            \/ r \notin Eligible /\ f = "fallback" /\ selected' \in Eligible
            \/ r \notin Eligible /\ f = "fallback" /\ selected' = NoExit /\ Eligible = {}
        BY <2>5, <3>3 DEF Select, Eligible
      <4> QED
        BY ZenonT(60), <3>3, <4>1, <4>2 DEF LoopInv, SelectCorrect
    <3> QED
      BY ZenonT(60), <3>2, <3>3
  <2>6. CASE SelectReturn
    <3>1. /\ at = "loop" /\ at' = "done" /\ request' = AnyExit /\ selected' = selected
          /\ Visited = listed /\ Eligible' = Eligible
          /\ \A i, j \in Numbers : Preferred(i, j)' = Preferred(i, j)
      BY <2>6 DEF SelectReturn, LoopInv, Visited, Eligible, Usable, Preferred, Score
    <3>2. CASE selected = NoExit
      BY ZenonT(60), <3>1, <3>2 DEF LoopInv, SelectCorrect, Eligible
    <3>3. CASE selected # NoExit
      <4>1. selected \in Eligible /\ \A j \in Eligible : Preferred(selected, j)
        BY <3>1, <3>3 DEF LoopInv, Eligible
      <4>2. Eligible \subseteq Numbers
        BY ZenonT(60) DEF Eligible, SelectTypeOK
      <4> QED
        BY ZenonT(60), <3>1, <4>1, <4>2 DEF LoopInv, SelectCorrect
    <3> QED
      BY <3>2, <3>3
  <2>7. CASE Unlock
    BY <2>7 DEF Unlock, LoopInv, SelectCorrect
  <2>8. CASE UNCHANGED selectVars
    <3>1. /\ Visited' = Visited /\ Eligible' = Eligible
          /\ \A j \in Numbers : Usable(j)' = Usable(j) /\ Score(j)' = Score(j)
          /\ \A i, j \in Numbers : Preferred(i, j)' = Preferred(i, j)
      BY <2>8 DEF selectVars, Visited, Eligible, Usable, Preferred, Score
    <3>2. Visited \subseteq Numbers /\ Eligible \subseteq Numbers
      BY ZenonT(60) DEF Visited, Eligible, SelectTypeOK
    <3> QED
      BY ZenonT(60), <2>8, <3>1, <3>2 DEF selectVars, LoopInv, SelectCorrect
  <2> QED
    BY <2>1, <2>2, <2>3, <2>4, <2>5, <2>6, <2>7, <2>8 DEF SelectNext
<1>3. SelectSpec => []SelectTypeOK
  BY SelectTypeCorrect
<1> QED
  BY <1>1, <1>2, <1>3, PTL DEF SelectSpec

\* An exit listed as healthy has a tenth of its capacity free, whatever
\* registrations and heartbeats came before.
THEOREM HeadroomKept == SelectSpec => []HealthyHasHeadroom
<1> USE SelectAssumption
<1>1. SelectInit => HealthyHasHeadroom
  BY DEF SelectInit, HealthyHasHeadroom
<1>2. SelectTypeOK /\ HealthyHasHeadroom /\ [SelectNext]_selectVars => HealthyHasHeadroom'
  <2> SUFFICES ASSUME SelectTypeOK, HealthyHasHeadroom, [SelectNext]_selectVars PROVE HealthyHasHeadroom'
    OBVIOUS
  <2> USE DEF SelectTypeOK, HealthyHasHeadroom
  <2>1. ASSUME NEW i \in Numbers, NEW c \in Capacities, RegistryAdd(i, c) PROVE HealthyHasHeadroom'
    BY <2>1 DEF RegistryAdd, advertised
  <2>2. ASSUME NEW i \in Numbers, NEW a \in Loads, NEW c \in Capacities, RegistryHeartbeat(i, a, c)
        PROVE  HealthyHasHeadroom'
    BY <2>2 DEF RegistryHeartbeat, healthFor, newCapacity
  <2>3. CASE UNCHANGED <<health, active, capacity>> /\ listed' \subseteq listed
    BY <2>3
  <2> QED
    BY <2>1, <2>2, <2>3
    DEF SelectNext, RegistryRemove, Visit, Select, SelectReturn, Unlock, selectVars, entries, locals
<1>3. SelectSpec => []SelectTypeOK
  BY SelectTypeCorrect
<1> QED
  BY <1>1, <1>2, <1>3, PTL DEF SelectSpec
=============================================================================
