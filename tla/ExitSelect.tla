---------------------------- MODULE ExitSelect ----------------------------
(***************************************************************************)
(* internal/node/registry.go: the load each entry reports, and Select,     *)
(* whose loop over a Go map visits the entries in an order of its own on   *)
(* every call.  An ID is an integer: Go compares the strings, and only     *)
(* their order matters.                                                    *)
(***************************************************************************)
EXTENDS Integers

CONSTANTS Numbers,          \* exit IDs, ordered
          LocalExit,        \* the local exit's ID
          Capacities,       \* what registrations and heartbeats may carry
          Loads,            \* the active streams a heartbeat may report
          ConnectionLimit,  \* config.Node.ConnectionLimit
          AnyExit, NoExit   \* the request for any exit; no exit

ASSUME SelectAssumption ==
  /\ Numbers \subseteq Int /\ LocalExit \in Numbers
  /\ Capacities \subseteq Int /\ Loads \subseteq Nat
  /\ ConnectionLimit \in Nat \ {0}
  /\ AnyExit \notin Numbers /\ NoExit \notin Numbers

VARIABLES
  listed,     \* the keys of Registry.exits
  health, active, capacity, latency,   \* the fields of ExitInfo, by ID
  at,         \* Select: "idle", or holding the read lock, "loop" or "done"
  request, fallback,   \* the arguments of Select
  todo,       \* entries its loop has yet to visit
  selected, score      \* its local variables

entries == <<listed, health, active, capacity, latency>>
locals == <<request, fallback, todo, selected, score>>
selectVars == <<entries, at, locals>>

\* Select's argument fallback, false and true.
Modes == {"strict", "fallback"}

SelectTypeOK ==
  /\ listed \in SUBSET Numbers
  /\ health \in [Numbers -> {"healthy", "degraded", "at-capacity"}]
  /\ active \in [Numbers -> Nat]
  /\ capacity \in [Numbers -> Nat \ {0}]
  /\ latency \in [Numbers -> {1, 10}]
  /\ at \in {"idle", "loop", "done"}
  /\ request \in Numbers \cup {AnyExit} /\ fallback \in Modes
  /\ todo \in SUBSET Numbers
  /\ selected \in Numbers \cup {NoExit} /\ score \in Int

\* NewServer adds the local exit.
SelectInit ==
  /\ listed = {LocalExit}
  /\ health = [i \in Numbers |-> "healthy"]
  /\ active = [i \in Numbers |-> 0]
  /\ capacity = [i \in Numbers |-> ConnectionLimit]
  /\ latency = [i \in Numbers |-> IF i = LocalExit THEN 1 ELSE 10]
  /\ at = "idle"
  /\ request = AnyExit /\ fallback = "strict"
  /\ todo = {} /\ selected = NoExit /\ score = -1

-----------------------------------------------------------------------------
(* The writers, under the registry's lock: not while Select reads.         *)

\* The capacity handleExit lists an exit with.
advertised(c) == IF c <= 0 THEN ConnectionLimit ELSE c

\* handleExit's call of Registry.Add.
RegistryAdd(i, c) ==
  /\ at = "idle"
  /\ listed' = listed \cup {i}
  /\ health' = [health EXCEPT ![i] = "healthy"]
  /\ active' = [active EXCEPT ![i] = 0]
  /\ capacity' = [capacity EXCEPT ![i] = advertised(c)]
  /\ latency' = [latency EXCEPT ![i] = 10]
  /\ UNCHANGED <<at, locals>>

healthFor(a, c) == IF c <= 0 \/ a >= c THEN "at-capacity"
                   ELSE IF a * 100 > c * 90 THEN "degraded" ELSE "healthy"

\* A capacity that is not positive leaves the entry's as it was.
newCapacity(i, c) == IF c > 0 THEN c ELSE capacity[i]

RegistryHeartbeat(i, a, c) ==
  /\ at = "idle" /\ i \in listed
  /\ active' = [active EXCEPT ![i] = a]
  /\ capacity' = [capacity EXCEPT ![i] = newCapacity(i, c)]
  /\ health' = [health EXCEPT ![i] = healthFor(a, newCapacity(i, c))]
  /\ UNCHANGED <<listed, latency, at, locals>>

\* Remove, or Expire of an entry.
RegistryRemove(i) ==
  /\ at = "idle" /\ i \in listed
  /\ listed' = listed \ {i}
  /\ UNCHANGED <<health, active, capacity, latency, at, locals>>

-----------------------------------------------------------------------------
(* Registry.Select                                                         *)

Usable(i) == health[i] = "healthy" /\ active[i] < capacity[i]
Eligible == {i \in listed : Usable(i)}
Score(i) == (capacity[i] - active[i]) * 1000 - latency[i]

\* An explicit request is answered at once, with fallback by the first usable
\* entry of the map (selectAny); a request for any exit enters the loop.
Select(r, f) ==
  /\ at = "idle"
  /\ request' = r /\ fallback' = f /\ score' = -1
  /\ \/ /\ r = AnyExit
        /\ at' = "loop" /\ todo' = listed /\ selected' = NoExit
     \/ /\ r # AnyExit /\ r \in listed /\ Usable(r)
        /\ at' = "done" /\ todo' = {} /\ selected' = r
     \/ /\ r # AnyExit /\ ~(r \in listed /\ Usable(r))
        /\ at' = "done" /\ todo' = {}
        /\ \/ f = "strict" /\ selected' = NoExit
           \/ f = "fallback" /\ selected' \in Eligible
           \/ f = "fallback" /\ selected' = NoExit /\ Eligible = {}
  /\ UNCHANGED entries

\* The condition under which the loop takes an entry for the best so far.
firstWins(i) == selected = NoExit \/ Score(i) > score
better(i) ==
  \/ selected = NoExit
  \/ Score(i) > score
  \/ Score(i) = score /\ i < selected

\* One iteration, on any entry not yet visited.
Visit(i) ==
  /\ at = "loop" /\ i \in todo
  /\ todo' = todo \ {i}
  /\ IF Usable(i) /\ better(i) THEN selected' = i /\ score' = Score(i)
                               ELSE UNCHANGED <<selected, score>>
  /\ UNCHANGED <<entries, at, request, fallback>>

SelectReturn ==
  /\ at = "loop" /\ todo = {}
  /\ at' = "done"
  /\ UNCHANGED <<entries, locals>>

\* Select unlocks and its caller has the result.
Unlock ==
  /\ at = "done"
  /\ at' = "idle" /\ request' = AnyExit /\ fallback' = "strict"
  /\ todo' = {} /\ selected' = NoExit /\ score' = -1
  /\ UNCHANGED entries

SelectNext ==
  \/ \E i \in Numbers, c \in Capacities : RegistryAdd(i, c)
  \/ \E i \in Numbers, a \in Loads, c \in Capacities : RegistryHeartbeat(i, a, c)
  \/ \E i \in Numbers : RegistryRemove(i) \/ Visit(i)
  \/ \E r \in Numbers \cup {AnyExit}, f \in Modes : Select(r, f)
  \/ SelectReturn \/ Unlock

SelectSpec == SelectInit /\ [][SelectNext]_selectVars

-----------------------------------------------------------------------------
(* Properties                                                              *)

\* Of two usable exits, the one README's "health, available capacity, and
\* latency" prefers; the smaller ID decides a tie.
Preferred(i, j) == Score(i) > Score(j) \/ (Score(i) = Score(j) /\ i <= j)

\* Whatever order the map yields its entries in, a request for any exit gets
\* the one exit preferred to all others, and none only if no exit is usable; an
\* explicit request gets that exit, or none, unless fallback allows another.
SelectCorrect ==
  at = "done" =>
    \/ /\ selected = NoExit
       /\ \/ Eligible = {}
          \/ request \notin Eligible \cup {AnyExit} /\ fallback = "strict"
    \/ /\ selected \in Eligible
       /\ request = AnyExit => \A j \in Eligible : Preferred(selected, j)
       /\ request # AnyExit /\ selected # request => fallback = "fallback" /\ request \notin Eligible

\* No sequence of registrations and heartbeats leaves an exit listed as healthy
\* that is loaded beyond nine tenths of its capacity.
HealthyHasHeadroom ==
  \A i \in listed : health[i] = "healthy" => active[i] * 100 <= capacity[i] * 90
=============================================================================
