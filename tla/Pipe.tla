-------------------------------- MODULE Pipe --------------------------------
(***************************************************************************)
(* What a stream of a session promises its two users, without sessions,    *)
(* frames or buffers: two independent one-way pipes per request ID.  What  *)
(* is received is what was sent, in order; the end of file is reported     *)
(* after the last item, and nothing is sent behind it; a pipe may fail at  *)
(* any time, and then says so instead of reporting the end of file.        *)
(***************************************************************************)
EXTENDS Naturals, Sequences

CONSTANTS Ends, Ids, Other(_)

VARIABLES sent,     \* sent[e][x]: how many items end e sent on x
          got,      \* got[e][x]: the items end e received on x
          outcome   \* outcome[e][x]: how receiving ended at end e

pipeVars == <<sent, got, outcome>>

Init ==
  /\ sent = [e \in Ends |-> [x \in Ids |-> 0]]
  /\ got = [e \in Ends |-> [x \in Ids |-> <<>>]]
  /\ outcome = [e \in Ends |-> [x \in Ids |-> "open"]]

Send(e, x) ==
  /\ outcome[Other(e)][x] # "eof"
  /\ sent' = [sent EXCEPT ![e][x] = @ + 1]
  /\ UNCHANGED <<got, outcome>>

Receive(e, x) ==
  /\ outcome[e][x] = "open" /\ Len(got[e][x]) < sent[Other(e)][x]
  /\ got' = [got EXCEPT ![e][x] = Append(@, Len(@) + 1)]
  /\ UNCHANGED <<sent, outcome>>

EndOfFile(e, x) ==
  /\ outcome[e][x] = "open" /\ Len(got[e][x]) = sent[Other(e)][x]
  /\ outcome' = [outcome EXCEPT ![e][x] = "eof"]
  /\ UNCHANGED <<sent, got>>

Fail(e, x) ==
  /\ outcome[e][x] = "open"
  /\ outcome' = [outcome EXCEPT ![e][x] = "err"]
  /\ UNCHANGED <<sent, got>>

Next == \E e \in Ends, x \in Ids :
          Send(e, x) \/ Receive(e, x) \/ EndOfFile(e, x) \/ Fail(e, x)

Spec == Init /\ [][Next]_pipeVars
=============================================================================
