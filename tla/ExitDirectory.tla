--------------------------- MODULE ExitDirectory ---------------------------
(***************************************************************************)
(* internal/node, the control plane of S: the handler goroutine of every   *)
(* exit connection (handleExit), the map exitConns, the registry, the      *)
(* catalogLoop that expires silent exits, and the catalogs that clients    *)
(* are sent.  A registry entry is reduced to whether its last heartbeat is *)
(* recent; load and selection are the subject of ExitSelect.               *)
(***************************************************************************)
EXTENDS Naturals, FiniteSets

CONSTANTS Conns,      \* exit connections, each with its handler goroutine
          ExitIds,    \* IDs that exits register under
          Direct,     \* the ID of the persistent local exit
          Clients,    \* client sessions
          None,       \* no connection
          Loop,       \* the catalogLoop goroutine
          MayAge      \* whether heartbeats may come too late

Ids == ExitIds \cup {Direct}
Casters == Conns \cup {Loop}

ASSUME DirectoryAssumption ==
  /\ None \notin Conns
  /\ Loop \notin Conns
  /\ Clients \cap Casters = {}
  /\ IsFiniteSet(Ids)
  /\ MayAge \in BOOLEAN

VARIABLES
  pc,         \* where the handler of a connection is in handleExit
  owner,      \* the ID the connection registers
  alive,      \* its session is not done
  exitConns,  \* Server.exitConns
  exits,      \* Registry.exits: "none", "fresh", "stale" or "persistent"
  cpc,        \* where the handler of a client session is in handleClient
  view,       \* the last catalog written to the client
  cast,       \* catalog writes in progress, by goroutine
  loop, before   \* catalogLoop, and the length of its first snapshot

vars == <<pc, owner, alive, exitConns, exits, cpc, view, cast, loop, before>>

\* The steps of handleExit, in order.
Steps == {"none", "started", "awaiting", "delivered", "registered", "swapped",
          "listed", "serving", "unswapped", "unlisted", "gone"}

\* A goroutine inside broadcastCatalog or pushCatalog: its snapshot of the
\* registry, and the clients it has yet to write it to.
Idle == [at |-> "idle", snap |-> {}, todo |-> {}]
Cast == [at : {"idle", "snapped", "writing"}, snap : SUBSET Ids,
         todo : SUBSET Clients]

TypeOK ==
  /\ pc \in [Conns -> Steps]
  /\ owner \in [Conns -> ExitIds]
  /\ alive \in [Conns -> BOOLEAN]
  /\ exitConns \in [ExitIds -> Conns \cup {None}]
  /\ exits \in [Ids -> {"none", "fresh", "stale", "persistent"}]
  /\ cpc \in [Clients -> {"none", "joined", "pushing", "served", "left"}]
  /\ view \in [Clients -> SUBSET Ids]
  /\ cast \in [Casters \cup Clients -> Cast]
  /\ loop \in {"idle", "before", "expired"}
  /\ before \in Nat

Init ==
  /\ pc = [k \in Conns |-> "none"]
  /\ owner \in [Conns -> ExitIds]
  /\ alive = [k \in Conns |-> FALSE]
  /\ exitConns = [i \in ExitIds |-> None]
  /\ exits = [i \in Ids |-> IF i = Direct THEN "persistent" ELSE "none"]
  /\ cpc = [c \in Clients |-> "none"]
  /\ view = [c \in Clients |-> {}]
  /\ cast = [b \in Casters \cup Clients |-> Idle]
  /\ loop = "idle" /\ before = 0

Goto(k, from, to) == pc[k] = from /\ pc' = [pc EXCEPT ![k] = to]

\* The IDs Registry.Snapshot returns.
Snapshot == {i \in Ids : exits[i] # "none"}

-----------------------------------------------------------------------------
(* broadcastCatalog: the snapshot, then the list of clients, then one      *)
(* write per client, with no lock held from one to the next.               *)

SetCast(b, at, snap, todo) ==
  cast' = [cast EXCEPT ![b] = [at |-> at, snap |-> snap, todo |-> todo]]

CastSnapshot(b) == SetCast(b, "snapped", Snapshot, {})

CastSessions(b) ==
  /\ cast[b].at = "snapped"
  /\ SetCast(b, "writing", cast[b].snap,
             {c \in Clients : cpc[c] \notin {"none", "left"}})
  /\ UNCHANGED <<pc, owner, alive, exitConns, exits, cpc, view, loop, before>>

CastWrite(b) ==
  /\ cast[b].at = "writing"
  /\ \E c \in cast[b].todo :
       /\ view' = [view EXCEPT ![c] = cast[b].snap]
       /\ SetCast(b, "writing", cast[b].snap, cast[b].todo \ {c})
  /\ UNCHANGED <<pc, owner, alive, exitConns, exits, cpc, loop, before>>

\* The broadcast has returned (or was never started).
CastDone(b) == cast[b].at = "writing" /\ cast[b].todo = {}

-----------------------------------------------------------------------------
(* handleExit                                                              *)

\* Session.Start: from here on its readLoop runs.
Connect(k) ==
  /\ Goto(k, "none", "started")
  /\ alive' = [alive EXCEPT ![k] = TRUE]
  /\ UNCHANGED <<owner, exitConns, exits, cpc, view, cast, loop, before>>

\* The session ends: the exit goes away, the network fails, or the exit's
\* Register frame is read before waitForRegistration installed a handler.
SessionEnds(k) ==
  /\ alive[k]
  /\ alive' = [alive EXCEPT ![k] = FALSE]
  /\ UNCHANGED <<pc, owner, exitConns, exits, cpc, view, cast, loop, before>>

\* waitForRegistration installs its handler ...
AwaitRegistration(k) ==
  /\ Goto(k, "started", "awaiting")
  /\ UNCHANGED <<owner, alive, exitConns, exits, cpc, view, cast, loop, before>>

\* ... which, run by the session's readLoop, passes the Register frame on.
DeliverRegistration(k) ==
  /\ alive[k]
  /\ Goto(k, "awaiting", "delivered")
  /\ UNCHANGED <<owner, alive, exitConns, exits, cpc, view, cast, loop, before>>

\* The select takes the registration, even if the session is done by now;
\* handleExit then installs the handler for heartbeats.
Registered(k) ==
  /\ Goto(k, "delivered", "registered")
  /\ UNCHANGED <<owner, alive, exitConns, exits, cpc, view, cast, loop, before>>

\* The select takes another case (the timer fires, the frame does not decode,
\* the session is done) or no ID is known: Session.Close, and the handler returns.
onlyWhileAlive(k) == alive[k] /\ pc[k] \in {"awaiting", "delivered"}
registrationOver(k) == pc[k] \in {"awaiting", "delivered"}

RegistrationFails(k) ==
  /\ registrationOver(k)
  /\ pc' = [pc EXCEPT ![k] = "gone"]
  /\ alive' = [alive EXCEPT ![k] = FALSE]
  /\ UNCHANGED <<owner, exitConns, exits, cpc, view, cast, loop, before>>

\* Under Server.mu: the older session of the ID is closed and replaced.
keepOld(old) == alive
closeOld(old) == [k \in Conns |-> alive[k] /\ k # old]

Swap(k) ==
  /\ Goto(k, "registered", "swapped")
  /\ alive' = closeOld(exitConns[owner[k]])
  /\ exitConns' = [exitConns EXCEPT ![owner[k]] = k]
  /\ UNCHANGED <<owner, exits, cpc, view, cast, loop, before>>

\* Registry.Add, then the snapshot of broadcastCatalog.
Add(k) ==
  /\ Goto(k, "swapped", "listed")
  /\ exits' = [exits EXCEPT ![owner[k]] = "fresh"]
  /\ UNCHANGED <<owner, alive, exitConns, cpc, view, cast, loop, before>>

\* The handler enters broadcastCatalog, after Add or after Remove.
Broadcast(k) ==
  /\ pc[k] \in {"listed", "unlisted"} /\ cast[k].at = "idle"
  /\ CastSnapshot(k)
  /\ UNCHANGED <<pc, owner, alive, exitConns, exits, cpc, view, loop, before>>

Serve(k) ==
  /\ CastDone(k)
  /\ Goto(k, "listed", "serving")
  /\ cast' = [cast EXCEPT ![k] = Idle]
  /\ UNCHANGED <<owner, alive, exitConns, exits, cpc, view, loop, before>>

\* <-sess.Done(); the map entry is deleted if it is still this connection's.
deleteNothing(k) == exitConns
deleteOwn(k) ==
  IF exitConns[owner[k]] = k THEN [exitConns EXCEPT ![owner[k]] = None] ELSE exitConns

Unswap(k) ==
  /\ ~alive[k]
  /\ Goto(k, "serving", "unswapped")
  /\ exitConns' = deleteOwn(k)
  /\ UNCHANGED <<owner, alive, exits, cpc, view, cast, loop, before>>

\* Registry.Remove, whoever added the entry.
removeNothing(k) == exits
removeID(k) == [exits EXCEPT ![owner[k]] = "none"]

Remove(k) ==
  /\ Goto(k, "unswapped", "unlisted")
  /\ exits' = removeID(k)
  /\ UNCHANGED <<owner, alive, exitConns, cpc, view, cast, loop, before>>

Return(k) ==
  /\ CastDone(k)
  /\ Goto(k, "unlisted", "gone")
  /\ cast' = [cast EXCEPT ![k] = Idle]
  /\ UNCHANGED <<owner, alive, exitConns, exits, cpc, view, loop, before>>

\* Registry.Heartbeat, from readLoop: an unknown ID is ignored.  The entry of a
\* clobbered persistent ID is an ordinary one.
Heartbeat(k) ==
  /\ alive[k] /\ pc[k] \in {"registered", "swapped", "listed", "serving"}
  /\ exits[owner[k]] = "stale"
  /\ exits' = [exits EXCEPT ![owner[k]] = "fresh"]
  /\ UNCHANGED <<pc, owner, alive, exitConns, cpc, view, cast, loop, before>>

\* More than staleFor passes since the last heartbeat of an ID.
Age(i) ==
  /\ MayAge /\ exits[i] = "fresh"
  /\ exits' = [exits EXCEPT ![i] = "stale"]
  /\ UNCHANGED <<pc, owner, alive, exitConns, cpc, view, cast, loop, before>>

-----------------------------------------------------------------------------
(* handleClient                                                            *)

Join(c) ==
  /\ cpc[c] = "none"
  /\ cpc' = [cpc EXCEPT ![c] = "joined"]
  /\ UNCHANGED <<pc, owner, alive, exitConns, exits, view, cast, loop, before>>

\* pushCatalog: the snapshot and the write are two steps.
Push(c) ==
  /\ \/ /\ cpc[c] = "joined"
        /\ cpc' = [cpc EXCEPT ![c] = "pushing"]
        /\ CastSnapshot(c)
        /\ UNCHANGED view
     \/ /\ cpc[c] = "pushing"
        /\ cpc' = [cpc EXCEPT ![c] = "served"]
        /\ view' = [view EXCEPT ![c] = cast[c].snap]
        /\ cast' = [cast EXCEPT ![c] = Idle]
  /\ UNCHANGED <<pc, owner, alive, exitConns, exits, loop, before>>

\* <-sess.Done(): out of clientConns.
Leave(c) ==
  /\ cpc[c] = "served"
  /\ cpc' = [cpc EXCEPT ![c] = "left"]
  /\ UNCHANGED <<pc, owner, alive, exitConns, exits, view, cast, loop, before>>

-----------------------------------------------------------------------------
(* catalogLoop: Snapshot, Expire and the Snapshot inside Expire each take  *)
(* the lock of the registry anew.                                          *)

LoopBefore ==
  /\ loop = "idle" /\ cast[Loop].at = "idle"
  /\ loop' = "before" /\ before' = Cardinality(Snapshot)
  /\ UNCHANGED <<pc, owner, alive, exitConns, exits, cpc, view, cast>>

\* Registry.Expire spares the persistent entries.
expireAll(i) == exits[i] \in {"stale", "persistent"}
expired(i) == exits[i] = "stale"

LoopExpire ==
  /\ loop = "before"
  /\ loop' = "expired"
  /\ exits' = [i \in Ids |-> IF expired(i) THEN "none" ELSE exits[i]]
  /\ UNCHANGED <<pc, owner, alive, exitConns, cpc, view, cast, before>>

\* Only a change of length is broadcast.
neverChanged == FALSE
lengthChanged == before # Cardinality(Snapshot)

LoopCompare ==
  /\ loop = "expired"
  /\ loop' = "idle" /\ before' = 0
  /\ IF lengthChanged THEN CastSnapshot(Loop) ELSE UNCHANGED cast
  /\ UNCHANGED <<pc, owner, alive, exitConns, exits, cpc, view>>

LoopCastDone ==
  /\ CastDone(Loop)
  /\ cast' = [cast EXCEPT ![Loop] = Idle]
  /\ UNCHANGED <<pc, owner, alive, exitConns, exits, cpc, view, loop, before>>

-----------------------------------------------------------------------------
Handler(k) ==
  \/ AwaitRegistration(k) \/ Registered(k) \/ RegistrationFails(k)
  \/ Swap(k) \/ Add(k) \/ Broadcast(k) \/ Serve(k) \/ Unswap(k) \/ Remove(k) \/ Return(k)

Next ==
  \/ \E k \in Conns : \/ Connect(k) \/ SessionEnds(k) \/ DeliverRegistration(k)
                     \/ Handler(k) \/ Heartbeat(k)
  \/ \E i \in Ids : Age(i)
  \/ \E c \in Clients : Join(c) \/ Push(c) \/ Leave(c)
  \/ \E b \in Casters : CastSessions(b) \/ CastWrite(b)
  \/ LoopBefore \/ LoopExpire \/ LoopCompare \/ LoopCastDone

Spec == Init /\ [][Next]_vars

(* The handler goroutines, the clients' and the loop keep running; nothing *)
(* is assumed of exits, of the network or of the time heartbeats take.     *)
Fairness ==
  /\ \A k \in Conns : WF_vars(Handler(k))
  /\ \A c \in Clients : WF_vars(Push(c))
  /\ \A b \in Casters : WF_vars(CastSessions(b)) /\ WF_vars(CastWrite(b))
  /\ WF_vars(LoopBefore \/ LoopExpire \/ LoopCompare \/ LoopCastDone)

FairSpec == Spec /\ Fairness

-----------------------------------------------------------------------------
(* Properties                                                              *)

\* forwardOpen never finds a session whose handler has given it up: what
\* exitConns holds for an ID registered that ID, and its handler still serves.
NoDanglingRoute ==
  \A i \in ExitIds :
    exitConns[i] # None =>
      /\ owner[exitConns[i]] = i
      /\ pc[exitConns[i]] \in {"swapped", "listed", "serving"}

\* However connections of one ID overlap, at most one of those that replaced
\* another is alive, and it is the one streams are forwarded to.
OneLiveExitPerID ==
  \A k \in Conns :
    alive[k] /\ pc[k] \in {"swapped", "listed", "serving"} =>
      exitConns[owner[k]] = k

\* A remote exit in the registry has a handler that added it and will remove
\* it: no sequence of overlapping connections leaves a ghost behind.
NoGhostExit ==
  \A i \in ExitIds \ {Direct} :
    exits[i] # "none" =>
      \E k \in Conns : owner[k] = i /\ pc[k] \in {"listed", "serving", "unswapped"}

\* The local exit is always in the registry.
DirectAlwaysListed == exits[Direct] # "none"

\* A connected exit is in the registry: when the only handler still at work for
\* an ID serves a live session, the ID can be selected.
ServingIsListed ==
  \A k \in Conns :
    /\ pc[k] = "serving" /\ alive[k]
    /\ \A l \in Conns \ {k} : owner[l] = owner[k] => pc[l] \in {"none", "gone"}
    => exits[owner[k]] # "none"

\* No goroutine is about to change or to send the catalog.
Quiet ==
  /\ \A k \in Conns : pc[k] \in {"none", "gone"} \/ (pc[k] = "serving" /\ alive[k])
  /\ \A b \in Casters : cast[b].at = "idle"
  /\ loop = "idle"

\* The handler of an exit that has gone away finishes, so (by NoGhostExit and
\* NoDanglingRoute) the ID stops being listed and routed to.
DeadExitIsCleanedUp ==
  \A k \in Conns : (pc[k] # "none" /\ ~alive[k]) ~> pc[k] = "gone"
=============================================================================
