---------------------------- MODULE MCForwarding ----------------------------
(* Instances of Forwarding for TLC.                                        *)
EXTENDS Forwarding

CONSTANTS c1, c2, d1, d2, e1

\* Both dials are made by one client, or each by a client of its own.
OneClient == [d \in {d1, d2} |-> c1]
TwoClients == [d \in {d1, d2} |-> IF d = d1 THEN c1 ELSE c2]

\* The first dial asks for the remote exit, the second for any.
ExitAndAny == [d \in {d1, d2} |-> IF d = d1 THEN e1 ELSE AnyExit]
=============================================================================
