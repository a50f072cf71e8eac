---------------------------- MODULE MCLocalProxy ----------------------------
(* Instances of LocalProxy for TLC.                                        *)
EXTENDS LocalProxy

CONSTANTS a1, a2

Idle == [kinds |-> {}, eager |-> FALSE, up |-> 0, down |-> 0]
Silent(kinds) == [kinds |-> kinds, eager |-> FALSE, up |-> 0, down |-> 0]
Busy(eager) == [kinds |-> Kinds, eager |-> eager, up |-> 2, down |-> 1]

\* One connection with data in both directions, or two that are only opened,
\* half-closed and closed.
OneOrTwo ==
  {[c \in Conns |-> IF c = a1 THEN Busy(eager) ELSE Idle] : eager \in BOOLEAN}
    \cup {[c \in Conns |-> IF c = a1 THEN Silent({"connect"}) ELSE Silent({"socks"})]}
=============================================================================
