----------------------------- MODULE MCSession -----------------------------
(* Instances of Session for TLC.                                           *)
EXTENDS Session

\* Data frames, by the end that writes them, and control frames of either end.
Data01 == [e \in Ends |-> IF e = "opener" THEN 0 ELSE 1]
Data20 == [e \in Ends |-> IF e = "opener" THEN 2 ELSE 0]
Data10 == [e \in Ends |-> IF e = "opener" THEN 1 ELSE 0]
NoControl == [e \in Ends |-> 0]
OneControl == [e \in Ends |-> 1]

\* One stream, control frames, an owner that closes and a network that breaks.
Faults == [ids |-> {1}, data |-> Data01, control |-> OneControl, handlers |-> {"opener"},
           closers |-> {"acceptor"}, mayBreak |-> TRUE]

\* Two streams that fill their buffers and the dispatch queue.
TwoStreams == [ids |-> {1, 2}, data |-> Data20, control |-> NoControl, handlers |-> Ends,
               closers |-> {}, mayBreak |-> FALSE]

\* One stream that is written, closed and broken.
OneWay == [ids |-> {1}, data |-> Data10, control |-> NoControl, handlers |-> Ends,
           closers |-> {"acceptor"}, mayBreak |-> TRUE]

\* One stream with more data than its buffer holds, and an owner that closes.
Busy == [ids |-> {1}, data |-> Data20, control |-> NoControl, handlers |-> Ends,
         closers |-> {"acceptor"}, mayBreak |-> FALSE]

FaultsAndTwo == {Faults, TwoStreams}
OnlyOneWay == {OneWay}
OnlyBusy == {Busy}
=============================================================================
