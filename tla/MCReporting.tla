----------------------------- MODULE MCReporting -----------------------------
(* Reporting with the tests of its runs.                                     *)
EXTENDS Reporting

Base == [role |-> "client", sends |-> TRUE, streams |-> 1, omit |-> 0, duration |-> 0,
         interval |-> 0, blocks |-> 0, rcv |-> 2, rate |-> 0, burst |-> 0,
         limit |-> 0, window |-> 1, cap |-> 2]

\* An omitted part, intervals and a duration, sending and receiving.
Timed == {[Base EXCEPT !.sends = s, !.omit = o, !.duration = 2, !.interval = 1] :
            s \in BOOLEAN, o \in {0, 1}}

\* A number of blocks, with intervals that wake the loop, and received until nothing comes.
Limited == {[Base EXCEPT !.streams = 2, !.blocks = 2, !.interval = 4, !.cap = 4],
            [Base EXCEPT !.sends = FALSE, !.blocks = 2, !.cap = 3]}

\* A rate, for each block or for bursts.
Paced == {[Base EXCEPT !.duration = 2, !.rate = 1, !.burst = b, !.cap = 4] : b \in {0, 2}}

\* A server with a limit, over two intervals or on the sum of two streams.
Refused == {[Base EXCEPT !.role = "server", !.sends = FALSE, !.duration = 2, !.interval = 1,
                         !.limit = 1, !.window = 2, !.cap = 3],
            [Base EXCEPT !.role = "server", !.sends = FALSE, !.streams = 2, !.duration = 1,
                         !.interval = 1, !.limit = 1, !.cap = 1]}

MCTests == Timed \cup Limited \cup Paced \cup Refused
=============================================================================
