----------------------------- MODULE NodeFiles -----------------------------
(***************************************************************************)
(* What "--init" leaves in S's data directory, and what S needs to start:  *)
(* internal/initnode, config.GenerateCertificate and cmd/lnproxy-node.     *)
(* Every file is written to a temporary name and renamed, so that it is    *)
(* there as a whole or not at all; a number tells its generation, 0 none.  *)
(***************************************************************************)
EXTENDS Naturals

VARIABLE disk

NodeFilesTypeOK == disk \in [verifier : Nat, cert : Nat, key : Nat]
NodeFilesInit == disk = [verifier |-> 1, cert |-> 1, key |-> 1]

\* Verifier.Save, and GenerateCertificate, which writes the certificate first
\* and may fail or be killed before or after it.
SaveVerifier(d, new) == [d EXCEPT !.verifier = new]
GenerateCertificate(d, new) ==
  {d, [d EXCEPT !.cert = new], [d EXCEPT !.cert = new, !.key = new]}

\* Initialize refuses an existing verifier.
Initialize ==
  /\ disk.verifier = 0
  /\ LET new == disk.cert + 1
     IN  disk' \in GenerateCertificate(SaveVerifier(disk, new), new)

\* The operator removes the verifier, to initialize once more.
RemoveVerifier == disk' = [disk EXCEPT !.verifier = 0]

LoadVerifier == disk.verifier # 0

\* LoadVerifier and LoadX509KeyPair succeed: the pair must match.
Startable == LoadVerifier /\ disk.cert # 0 /\ disk.cert = disk.key
=============================================================================
