---------------------------- MODULE KnownHosts -----------------------------
(***************************************************************************)
(* internal/transport/knownhosts.go, and ClientTLSConfig of conn.go: the   *)
(* fingerprint of S that a program keeps in memory and in a file, and how  *)
(* it decides on the certificate that S presents.  A fingerprint is the    *)
(* number of the certificate; there is one S, hence one entry.             *)
(***************************************************************************)
EXTENDS Naturals

CONSTANTS Programs   \* the programs C and E, each with its store

Unknown == 0         \* no entry

VARIABLES
  known,    \* KnownHosts.entries
  file,     \* the entry in known-hosts.json
  agreed    \* history: what the operator has said yes to, or had in the file

trustVars == <<known, file, agreed>>

TrustTypeOK ==
  /\ known \in [Programs -> Nat] /\ file \in [Programs -> Nat]
  /\ agreed \in [Programs -> SUBSET Nat]

TrustInit(stored) ==
  /\ known = stored /\ file = stored
  /\ agreed = [p \in Programs |-> {stored[p]} \ {Unknown}]

\* LoadKnownHosts, when the program starts.
Load(p) == known' = [known EXCEPT ![p] = file[p]] /\ UNCHANGED <<file, agreed>>

anyEntry(p, fp) == TRUE
sameOrNone(p, fp) == known[p] \in {Unknown, fp}

\* Save up to the change of the map: another entry is refused, and the operator
\* is asked, and says yes, only where there is none.
Remember(p, fp) ==
  /\ sameOrNone(p, fp)
  /\ known' = [known EXCEPT ![p] = fp]
  /\ agreed' = IF known[p] = Unknown THEN [agreed EXCEPT ![p] = @ \cup {fp}] ELSE agreed

Saves(p, fp) == Remember(p, fp) /\ file' = [file EXCEPT ![p] = fp]

\* The operator says no, or there is nobody to ask, or the entry is another.
Refuses(p, fp) == known[p] # fp /\ UNCHANGED trustVars

\* Writing the file fails, after the map has changed.
SaveFails(p, fp) == Remember(p, fp) /\ UNCHANGED file

\* VerifyConnection, with the fingerprint that was expected when dialing began:
\* it returns nil, or a TrustError.
Verified(p, expected, fp) ==
  \/ expected = fp /\ UNCHANGED trustVars
  \/ expected = Unknown /\ Saves(p, fp)

Rejected(p, expected, fp) ==
  \/ expected \notin {Unknown, fp} /\ UNCHANGED trustVars
  \/ expected = Unknown /\ Refuses(p, fp)
=============================================================================
