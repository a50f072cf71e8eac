----------------------------- MODULE MCConnect -----------------------------
(* Instances of Connect for TLC.                                           *)
EXTENDS Connect

\* All peers reach S from one address, except E.
HostsUsed == [p \in Peers |-> IF p \in Exits THEN "exit host" ELSE "client host"]

SlotsUsed == [p \in Peers |-> IF p \in Exits THEN 2 ELSE 1]

None == [f \in Faults |-> 0]

\* E and a client race for the only place.
Crowd == [active |-> {"e", "c"}, stored |-> 1, udp |-> {"passes"},
          left |-> [None EXCEPT !["start"] = 2, !["race"] = 1]]

\* E alone, over a network that breaks.
Lossy == [active |-> {"e"}, stored |-> 1, udp |-> {"passes"},
          left |-> [None EXCEPT !["start"] = 1, !["break"] = 1, !["race"] = 1, !["signal"] = 1]]

\* Clients with a right and a wrong passphrase share an address.
Guessing == [active |-> {"c", "x"}, stored |-> 1, udp |-> {"blocked"},
             left |-> [None EXCEPT !["start"] = 2, !["tick"] = 5]]

\* E alone: S gets a new certificate, files cannot be written, E is stopped.
NewCert == [active |-> {"e"}, stored |-> 0, udp |-> {"passes", "blocked"},
            left |-> [None EXCEPT !["start"] = 2, !["stop"] = 1, !["init"] = 1,
                                  !["write"] = 1]]
Mix == {Crowd, Lossy, Guessing, NewCert}
=============================================================================
