-------------------------- MODULE MCExitDirectory --------------------------
(* Instances of ExitDirectory for TLC.                                     *)
EXTENDS ExitDirectory

(* A history variable: whether a goroutine ever read the registry for a    *)
(* catalog while another was between its own read and its last write.      *)

VARIABLE overlapped

\* A goroutine is between its snapshot and the end of its writes.
Busy(b) == cast[b].at # "idle" \/ (b = Loop /\ loop # "idle")

TakesSnapshot(b) ==
  \/ cast[b].at = "idle" /\ cast'[b].at = "snapped"
  \/ b = Loop /\ loop = "idle" /\ loop' = "before"

Overlap ==
  LET busy == {d \in Casters \cup Clients : Busy(d)}
  IN  busy # {} /\ \E b \in Casters \cup Clients : TakesSnapshot(b) /\ busy # {b}

InitHistory == Init /\ overlapped = FALSE
NextHistory == Next /\ overlapped' = (overlapped \/ Overlap)
SpecHistory == InitHistory /\ [][NextHistory]_<<vars, overlapped>>
FairSpecHistory == SpecHistory /\ Fairness

\* When no goroutine is about to change or to send the catalog, the catalog
\* every client holds is the registry's, provided no two goroutines of
\* broadcastCatalog, pushCatalog and catalogLoop ever overlapped: the order of
\* their writes is all that can leave a client with an old catalog.
CatalogConverges ==
  Quiet /\ ~overlapped => \A c \in Clients : cpc[c] = "served" => view[c] = Snapshot
=============================================================================
