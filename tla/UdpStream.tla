------------------------------ MODULE UdpStream ------------------------------
(***************************************************************************)
(* The streams of a UDP test: the handshake that pairs a client's sockets  *)
(* with a server's, the sending and the receiving threads with their       *)
(* packet counters, and what the client reports in the end, over a network *)
(* that loses, reorders and duplicates datagrams.                          *)
(*                                                                         *)
(* Each thread's step ends where another thread may look at its counters.  *)
(* A datagram of data is its stream and sequence number; one that is lost  *)
(* is one that is never read.  The control connection appears as the order *)
(* it puts on the two sides' states (see IperfControl); the arithmetic of  *)
(* the jitter is left out.                                                 *)
(***************************************************************************)
EXTENDS Integers, FiniteSets, Sequences

CONSTANTS
  NumStreams,  \* the parallel streams of a test
  Tests,       \* the tests: whether the server sends, whether the results omit a first part,
               \* and a bound on the packets the senders count
  Multisend,   \* the sends of one call of iperf_send_mt
  ReplyLimit,  \* the datagrams a reverse client looks at for the server's reply
  MaxPackets,  \* bound: the highest of these
  MaxDups      \* bound: datagrams the network duplicates

ASSUME NumStreamsAssumption == NumStreams \in Nat \ {0}
ASSUME TestsAssumption == Tests \subseteq [reverse : BOOLEAN, omit : BOOLEAN, packets : 0..MaxPackets]
ASSUME LimitsAssumption ==
  Multisend \in Nat \ {0} /\ ReplyLimit \in Nat \ {0} /\ MaxPackets \in Nat /\ MaxDups \in Nat

Streams == 1..NumStreams
Sides == {"client", "server"}

Hello(i) == [kind |-> "hello", stream |-> i, seq |-> 0]
Reply(i) == [kind |-> "reply", stream |-> i, seq |-> 0]
Data(i, n) == [kind |-> "data", stream |-> i, seq |-> n]

VARIABLES
  params,    \* the test this is (test->reverse, test->omit)
  test,      \* per side: setting streams up, running, ended (TEST_END), failed
  cur,       \* the stream iperf_create_streams connects next, and
  waiting,   \* whether it has sent its message and waits for the reply
  tries,     \* datagrams looked at for the reply
  accepted,  \* the server's streams in the order it accepted them
  net,       \* datagrams sent and not yet read
  dups,      \* how many the network has duplicated
  omitting,  \* per side: test->omitting
  snd,       \* per stream: the sending thread and its counters
  rcv,       \* per stream: the receiving thread and its counters
  results,   \* per side: the results it has sent
  written,   \* history: packets per stream that were really sent
  got        \* history: the sequence numbers each stream has counted

setupVars == <<test, cur, waiting, tries, accepted>>
vars == <<params, setupVars, net, dups, omitting, snd, rcv, results, written, got>>

Sender == IF params.reverse THEN "server" ELSE "client"
Receiver == IF params.reverse THEN "client" ELSE "server"

NoResults == <<>>
NewSender == [pc |-> "check", left |-> 0, count |-> 0, omitted |-> 0]
NewReceiver ==
  [pc |-> "read", short |-> FALSE, seq |-> 0, bytes |-> 0,
   max |-> 0, errors |-> 0, ooo |-> 0, omitted |-> 0, omittedErrors |-> 0]

Init ==
  /\ params \in Tests
  /\ test = [s \in Sides |-> "setup"]
  /\ cur = 1
  /\ waiting = FALSE
  /\ tries = 0
  /\ accepted = <<>>
  /\ net = {}
  /\ dups = 0
  /\ omitting = [s \in Sides |-> params.omit]
  /\ snd = [i \in Streams |-> NewSender]
  /\ rcv = [i \in Streams |-> NewReceiver]
  /\ results = [s \in Sides |-> NoResults]
  /\ written = [i \in Streams |-> 0]
  /\ got = [i \in Streams |-> {}]
-----------------------------------------------------------------------------
\* A socket reads d; d may be one of two copies the network has made of it.
Take(d) ==
  /\ d \in net
  /\ \/ net' = net \ {d} /\ dups' = dups
     \/ dups < MaxDups /\ net' = net /\ dups' = dups + 1

-----------------------------------------------------------------------------
(* The handshake.                                                          *)

threadVars == <<params, omitting, snd, rcv, results, written, got>>

Becomes(s, st) == test' = [test EXCEPT ![s] = st]

\* iperf_udp_connect up to its wait.  Dialling and the check of the buffer sizes may fail.
Connect ==
  /\ test["client"] = "setup" /\ ~waiting /\ cur <= NumStreams
  /\ \/ /\ net' = net \cup {Hello(cur)}
        /\ waiting' = TRUE /\ tries' = 0
        /\ UNCHANGED test
     \/ Becomes("client", "failed") /\ UNCHANGED <<net, waiting, tries>>
  /\ UNCHANGED <<threadVars, cur, accepted, dups>>

\* How many datagrams the client looks at.  In a forward test only the reply can come.
Looks == IF params.reverse THEN ReplyLimit ELSE 1

\* The client reads a datagram on its new socket: the reply, or data of a server that
\* has started already.
ReadReply ==
  /\ test["client"] = "setup" /\ waiting
  /\ \E d \in net :
       /\ d.stream = cur /\ d.kind # "hello"
       /\ Take(d)
       /\ tries' = tries + 1
       /\ IF d.kind = "reply"
            THEN waiting' = FALSE /\ cur' = cur + 1 /\ UNCHANGED test
            ELSE /\ UNCHANGED <<waiting, cur>>
                 /\ IF tries' < Looks THEN UNCHANGED test ELSE Becomes("client", "failed")
  /\ UNCHANGED <<threadVars, accepted>>

OnlyInReverse == \* mutant
  /\ test["client"] = "setup" /\ waiting /\ params.reverse
  /\ Becomes("client", "failed")
  /\ UNCHANGED <<threadVars, cur, waiting, tries, accepted, net, dups>>

\* SO_RCVTIMEO expires.
ReplyTimesOut ==
  /\ test["client"] = "setup" /\ waiting
  /\ Becomes("client", "failed")
  /\ UNCHANGED <<threadVars, cur, waiting, tries, accepted, net, dups>>

\* A message that comes from the peer of a connected socket goes to that socket; only
\* one from an address not yet accepted reaches the listener.
AnyReaches(i) == TRUE \* mutant

ReachesListener(i) == i \notin {accepted[k] : k \in 1..Len(accepted)}

\* iperf_udp_accept: the listener becomes the stream's socket, a new listener is made,
\* and the client gets its reply.  Buffers, listener and reply may fail.
Accept ==
  /\ test["server"] = "setup" /\ Len(accepted) < NumStreams
  /\ \E i \in Streams :
       /\ ReachesListener(i)
       /\ \/ /\ Hello(i) \in net
             /\ \/ net' = (net \ {Hello(i)}) \cup {Reply(i)} /\ dups' = dups
                \/ dups < MaxDups /\ net' = net \cup {Reply(i)} /\ dups' = dups + 1
             /\ accepted' = Append(accepted, i)
             /\ UNCHANGED test
          \/ Take(Hello(i)) /\ Becomes("server", "failed") /\ UNCHANGED accepted
  /\ UNCHANGED <<threadVars, cur, waiting, tries>>

\* All streams accepted: the server announces the test and starts its threads.
ServerStarts ==
  /\ test["server"] = "setup" /\ Len(accepted) = NumStreams
  /\ Becomes("server", "running")
  /\ UNCHANGED <<threadVars, cur, waiting, tries, accepted, net, dups>>

\* The client reads TEST_RUNNING once it has connected its streams.
ClientStarts ==
  /\ test["client"] = "setup" /\ cur > NumStreams /\ test["server"] = "running"
  /\ Becomes("client", "running")
  /\ UNCHANGED <<threadVars, cur, waiting, tries, accepted, net, dups>>

\* A side reads on the control connection that the other has failed.  A client that
\* waits for a reply does not look at it.
PeerFails(s) ==
  /\ test[s] \in {"setup", "running"} /\ (s = "client" => ~waiting)
  /\ \E p \in Sides \ {s} : test[p] = "failed"
  /\ Becomes(s, "failed")
  /\ UNCHANGED <<threadVars, cur, waiting, tries, accepted, net, dups>>
-----------------------------------------------------------------------------
(* The sending thread of stream i: the loop of its worker over iperf_send_mt.  *)

receiverVars == <<params, setupVars, omitting, rcv, results, got>>

Threads(side) == test[side] \in {"running", "ended"}
SenderAt(i, pc) == Threads(Sender) /\ snd[i].pc = pc

\* The worker asks for test->done before a call, not between the sends of one.
SenderChecks(i) ==
  /\ SenderAt(i, "check") /\ test[Sender] = "running"
  /\ snd' = [snd EXCEPT ![i].pc = "send", ![i].left = Multisend]
  /\ UNCHANGED <<receiverVars, net, dups, written>>

BoundedSends == Cardinality({p \in Streams \X (1..MaxPackets) : p[2] <= snd[p[1]].count}) < params.packets

\* iperf_udp_send numbers the datagram before it is sent ...
SenderCounts(i) ==
  /\ SenderAt(i, "send") /\ BoundedSends
  /\ snd' = [snd EXCEPT ![i].pc = "counted", ![i].left = @ - 1, ![i].count = @ + 1]
  /\ UNCHANGED <<receiverVars, net, dups, written>>

\* ... and takes the number back when nothing was sent.
Uncount(n) == n - 1

AfterSend(i) == IF snd[i].left = 0 THEN "check" ELSE "send"

SenderWrites(i) ==
  /\ SenderAt(i, "counted")
  /\ net' = net \cup {Data(i, snd[i].count)}
  /\ written' = [written EXCEPT ![i] = @ + 1]
  /\ snd' = [snd EXCEPT ![i].pc = AfterSend(i)]
  /\ UNCHANGED <<receiverVars, dups>>

\* A soft error leaves iperf_send_mt and is tried again, a hard one ends the thread.
SenderWriteFails(i) ==
  /\ SenderAt(i, "counted")
  /\ \E pc \in {"check", "off"} :
       snd' = [snd EXCEPT ![i].pc = pc, ![i].count = Uncount(@)]
  /\ UNCHANGED <<receiverVars, net, dups, written>>
-----------------------------------------------------------------------------
(* The receiving thread of stream i: iperf_udp_recv.                       *)

senderVars == <<params, setupVars, omitting, snd, results, written>>

ReceiverAt(i, pc) == Threads(Receiver) /\ rcv[i].pc = pc

\* What Nrecv_no_select of the receiver's socket may find: data, and copies of the
\* handshake's datagram, too short to fill its buffer.
ForReceiver(i) ==
  {d \in net : d.stream = i /\ d.kind \in {"data", IF params.reverse THEN "reply" ELSE "hello"}}

\* It reads on until the buffer is full, so that the header found after a short datagram
\* is not that of the data.
Reads(i) ==
  /\ ReceiverAt(i, "read")
  /\ \E d \in ForReceiver(i) :
       /\ Take(d)
       /\ IF d.kind # "data"
            THEN rcv' = [rcv EXCEPT ![i].short = TRUE]
            ELSE \E n \in (IF rcv[i].short THEN 0..MaxPackets + 1 ELSE {d.seq}) :
                   rcv' = [rcv EXCEPT ![i] =
                     IF test[Receiver] = "running"
                       THEN [rcv[i] EXCEPT !.pc = "gap", !.short = FALSE, !.seq = n, !.bytes = @ + 1]
                       ELSE [rcv[i] EXCEPT !.short = FALSE]]
  /\ UNCHANGED <<senderVars, got>>

Forward(r) == r.seq >= r.max + 1

\* Numbers that were passed over are counted as lost; an older one is out of order ...
CountsGap(i) ==
  /\ ReceiverAt(i, "gap")
  /\ rcv' = [rcv EXCEPT ![i] =
       IF Forward(rcv[i])
         THEN [rcv[i] EXCEPT !.pc = "count", !.errors = @ + rcv[i].seq - 1 - rcv[i].max]
         ELSE [rcv[i] EXCEPT !.pc = "count", !.ooo = @ + 1]]
  /\ UNCHANGED <<senderVars, net, dups, got>>

\* ... and takes a loss back.
NotRepaired(errors) == errors \* mutant

AlwaysRepaired(errors) == errors - 1 \* mutant

Repaired(errors) == IF errors > 0 THEN errors - 1 ELSE errors

Counted(r) == IF Forward(r) THEN [r EXCEPT !.max = r.seq] ELSE [r EXCEPT !.errors = Repaired(@)]

CountsPacket(i) ==
  /\ ReceiverAt(i, "count")
  /\ rcv' = [rcv EXCEPT ![i] = [Counted(rcv[i]) EXCEPT !.pc = "read"]]
  /\ got' = [got EXCEPT ![i] = @ \cup {rcv[i].seq}]
  /\ UNCHANGED <<senderVars, net, dups>>
-----------------------------------------------------------------------------
(* The control threads once the test runs.                                 *)

networkVars == <<cur, waiting, tries, accepted, net, dups, written, got>>

\* omit_timer_proc and iperf_reset_stats, while the threads go on.
OmitEnds(side) ==
  /\ test[side] = "running" /\ omitting[side]
  /\ omitting' = [omitting EXCEPT ![side] = FALSE]
  /\ snd' = IF side = Sender THEN [i \in Streams |-> [snd[i] EXCEPT !.omitted = snd[i].count]]
                             ELSE snd
  /\ rcv' = IF side = Receiver
              THEN [i \in Streams |-> [rcv[i] EXCEPT !.omitted = rcv[i].max,
                                                  !.omittedErrors = rcv[i].errors, !.bytes = 0]]
              ELSE rcv
  /\ UNCHANGED <<networkVars, params, test, results>>

\* pthread_cancel, on Android by a signal: the thread ends wherever it is.
Cancelled(t) == [t EXCEPT !.pc = "off"]

\* The client's test is done.  It ends its sending threads, and tells the server.
ClientEnds ==
  /\ test["client"] = "running" /\ ~omitting["client"]
  /\ Becomes("client", "ended")
  /\ snd' = IF Sender = "client" THEN [i \in Streams |-> Cancelled(snd[i])] ELSE snd
  /\ UNCHANGED <<networkVars, params, omitting, rcv, results>>

ServerEnds ==
  /\ test["server"] = "running" /\ test["client"] = "ended"
  /\ Becomes("server", "ended")
  /\ UNCHANGED <<networkVars, params, omitting, snd, rcv, results>>

\* send_results: what a side has counted of each stream.
OwnCounts(side) ==
  [i \in Streams |->
     IF side = Sender
       THEN [packets |-> snd[i].count, omitted |-> snd[i].omitted, bytes |-> 0,
             errors |-> 0, omittedErrors |-> 0]
       ELSE [packets |-> rcv[i].max, omitted |-> rcv[i].omitted, bytes |-> rcv[i].bytes,
             errors |-> rcv[i].errors, omittedErrors |-> rcv[i].omittedErrors]]

\* iperf_exchange_results: the client sends first.
SendResults(side) ==
  /\ test["client"] = "ended" /\ test["server"] = "ended" /\ results[side] = NoResults
  /\ side = "server" => results["client"] # NoResults
  /\ results' = [results EXCEPT ![side] = OwnCounts(side)]
  /\ UNCHANGED <<networkVars, params, test, omitting, snd, rcv>>
-----------------------------------------------------------------------------
SenderStep(i) == SenderChecks(i) \/ SenderCounts(i) \/ SenderWrites(i) \/ SenderWriteFails(i)
ReceiverStep(i) == Reads(i) \/ CountsGap(i) \/ CountsPacket(i)

ControlStep ==
  \/ Connect \/ ReadReply \/ ReplyTimesOut \/ Accept \/ ServerStarts \/ ClientStarts
  \/ ClientEnds \/ ServerEnds
  \/ \E s \in Sides : PeerFails(s) \/ OmitEnds(s) \/ SendResults(s)

Next == ControlStep \/ \E i \in Streams : SenderStep(i) \/ ReceiverStep(i)

Spec == Init /\ [][Next]_vars

\* The control threads run on, and what they wait for comes or times out.  Nothing is
\* assumed of the network, nor of the threads of the streams.
FairSpec == Spec /\ WF_vars(ControlStep)
-----------------------------------------------------------------------------
(* What the client prints of a stream in the end.                          *)

\* get_results: the counters of the other side join the own ones, which may still move.
Known(side) == IF side = "client" THEN OwnCounts(side) ELSE results[side]

\* iperf_print_results: the sender's packets, or the receiver's if the sender has none,
\* without those the client itself has omitted; and the receiver's losses.
Report(i) ==
  LET sent == Known(Sender)[i]
      seen == Known(Receiver)[i]
  IN [packets |-> (IF sent.packets # 0 THEN sent.packets ELSE seen.packets)
                    - Known("client")[i].omitted,
      lost |-> seen.errors - seen.omittedErrors,
      received |-> seen.bytes]

Reported == \A s \in Sides : results[s] # NoResults
-----------------------------------------------------------------------------
Messages ==
  [kind : {"hello", "reply"}, stream : Streams, seq : {0}] \cup [kind : {"data"}, stream : Streams, seq : Nat]
SenderType ==
  [pc : {"check", "send", "counted", "off"}, left : 0..Multisend, count : Nat, omitted : Nat]
ReceiverType ==
  [pc : {"read", "gap", "count"}, short : BOOLEAN, seq : Nat, bytes : Nat, max : Nat, errors : Nat,
   ooo : Nat, omitted : Nat, omittedErrors : Nat]
CountsType == [packets : Nat, omitted : Nat, bytes : Nat, errors : Nat, omittedErrors : Nat]

\* Type correctness; in particular no counter of a stream is ever negative.
TypeOK ==
  /\ params \in Tests
  /\ test \in [Sides -> {"setup", "running", "ended", "failed"}]
  /\ cur \in 1..NumStreams + 1 /\ waiting \in BOOLEAN /\ tries \in 0..ReplyLimit
  /\ accepted \in Seq(Streams)
  /\ net \subseteq Messages
  /\ dups \in 0..MaxDups
  /\ omitting \in [Sides -> BOOLEAN]
  /\ snd \in [Streams -> SenderType]
  /\ rcv \in [Streams -> ReceiverType]
  /\ results \in [Sides -> {NoResults} \cup [Streams -> CountsType]]
  /\ written \in [Streams -> Nat]
  /\ got \in [Streams -> SUBSET Nat]

\* The server's sockets are paired with the client's one by one and in the client's order,
\* even when the network repeats a handshake message: the server is at most the one
\* socket ahead whose reply is on its way (iperf_udp_accept, iperf_udp_connect).
PairedStreams ==
  /\ accepted = [k \in 1..Len(accepted) |-> k]
  /\ cur - 1 <= Len(accepted) /\ Len(accepted) <= cur

\* A sequence number that was not sent is not used up: what a sender has counted is what
\* it has sent, and one more only while that packet is in its hands (or was, when the
\* client ended the thread).
SenderCountsWhatItSends ==
  \A i \in Streams :
    /\ snd[i].count \in {written[i], written[i] + 1}
    /\ snd[i].pc \in {"check", "send"} => snd[i].count = written[i]
    /\ snd[i].pc = "counted" => snd[i].count = written[i] + 1

\* The packets of stream i that are missing up to the highest number seen.
Missing(i) == rcv[i].max - Cardinality(got[i] \cap (1..rcv[i].max))

\* The receiver's one counter of losses follows the gaps and the late packets exactly as
\* long as nothing is duplicated, and a duplicate can only make it too low
\* (iperf_udp_recv: "packets can't be duplicated in the network").
LossIsExact ==
  \A i \in Streams : rcv[i].pc = "read" =>
    rcv[i].errors <= Missing(i) /\ (dups = 0 => rcv[i].errors = Missing(i))

\* The counters are those of the packets: none is negative, a sender counts what it has
\* sent, and a receiver what is missing.
CountersAreExact == TypeOK /\ SenderCountsWhatItSends /\ LossIsExact

\* What the client prints adds up although the two sides' counters are read at different
\* times and while threads still run: packets lost and received are among those sent,
\* but for the one packet a receiving thread has in its hands; and the omitted ones are,
\* but for one that a sending thread took back.  (The losses only without an omitted part:
\* the two sides end it at different packets.)
ReportAddsUp ==
  (Reported /\ dups = 0) =>
    \A i \in Streams :
      /\ Report(i).packets >= -1
      /\ ~params.omit => /\ Report(i).lost >= 0
                   /\ Report(i).lost + Report(i).received <= Report(i).packets + 1

\* Whatever the network loses, neither side is left in the handshake or in the test: each
\* comes to send its results, or fails.
TestEnds == \A s \in Sides : <>(test[s] = "failed" \/ results[s] # NoResults)
=============================================================================
