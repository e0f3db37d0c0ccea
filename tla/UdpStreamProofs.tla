--------------------------- MODULE UdpStreamProofs ---------------------------
(***************************************************************************)
(* Proofs about UdpStream for any number of streams, packets, sends and    *)
(* duplicates.                                                             *)
(***************************************************************************)
EXTENDS UdpStream, FiniteSetTheorems, TLAPS

(* The inductive invariant, in parts that are each inductive relative to   *)
(* the ones before.                                                        *)

\* A sending thread is inside a call of iperf_send_mt only with sends left.
SendsLeft == \A i \in Streams : snd[i].pc = "send" => snd[i].left > 0

\* A client looks for a reply only of a stream it has, and not too often.
LooksFor ==
  /\ waiting => cur <= NumStreams
  /\ waiting /\ test["client"] = "setup" => tries < Looks

Typed == TypeOK /\ SendsLeft /\ LooksFor

\* What datagrams of the handshake may be on their way.
Underway ==
  \A d \in net :
    /\ d.kind = "hello" => d.stream <= cur /\ (d.stream = cur => waiting)
    /\ d.kind = "reply" => d.stream <= Len(accepted)
    /\ dups = 0 => /\ d.kind = "hello" => d.stream > Len(accepted)
                   /\ d.kind = "reply" => d.stream >= cur

Handshake ==
  /\ PairedStreams
  /\ ~waiting => Len(accepted) = cur - 1
  /\ Threads("server") => Len(accepted) = NumStreams
  /\ Threads("client") => cur > NumStreams
  /\ Underway

\* What is sent is numbered from one on, and nothing else is counted or in a receiver's
\* hands, and that once, unless the network has duplicated something.
InHand(i) == rcv[i].pc # "read"

Numbered ==
  /\ \A d \in net : d.kind = "data" => d.seq \in 1..written[d.stream]
  /\ \A i \in Streams : got[i] \subseteq 0..rcv[i].max

Once(i) ==
  /\ ~rcv[i].short
  /\ rcv[i].max <= written[i] /\ got[i] \subseteq 1..rcv[i].max
  /\ \A d \in net : d.kind = "data" /\ d.stream = i => d.seq \notin got[i]
  /\ InHand(i) => rcv[i].seq \in 1..written[i] /\ rcv[i].seq \notin got[i] /\ Data(i, rcv[i].seq) \notin net

Packets == Numbered /\ (dups = 0 => \A i \in Streams : Once(i))

\* The losses a receiver has counted ahead of the packet in its hands.
Ahead(r) == IF r.pc = "count" /\ Forward(r) THEN r.seq - 1 - r.max ELSE 0

Losses ==
  \A i \in Streams :
    /\ rcv[i].errors <= Missing(i) + Ahead(rcv[i])
    /\ dups = 0 => rcv[i].errors = Missing(i) + Ahead(rcv[i])

\* The counters the report is made of.
Omissions ==
  /\ \A i \in Streams : snd[i].omitted <= written[i] + 1 /\ rcv[i].omitted <= rcv[i].max
  /\ ~params.omit =>
       /\ \A s \in Sides : ~omitting[s]
       /\ \A i \in Streams : snd[i].omitted = 0 /\ rcv[i].omitted = 0 /\ rcv[i].omittedErrors = 0

Received ==
  dups = 0 /\ ~params.omit =>
    \A i \in Streams : rcv[i].bytes = Cardinality(got[i]) + (IF InHand(i) THEN 1 ELSE 0)

\* The results of the server stay in step with the counters of the client, because the
\* client's part of the test has ended.
ResultsFit ==
  /\ ~params.reverse /\ test["client"] = "ended" => \A i \in Streams : snd[i].pc = "off"
  /\ results["server"] # NoResults =>
       /\ test["client"] = "ended"
       /\ dups = 0 => \A i \in Streams :
            LET r == results["server"][i]
            IN IF params.reverse
                 THEN /\ r.packets \in Nat /\ rcv[i].max <= r.packets
                      /\ InHand(i) => rcv[i].seq <= r.packets
                 ELSE /\ r.packets \in Nat /\ r.omittedErrors \in Nat /\ r.errors \in Nat /\ r.bytes \in Nat
                      /\ ~params.omit => r.omittedErrors = 0 /\ r.errors + r.bytes <= snd[i].count + 1

IInv == Typed /\ SenderCountsWhatItSends /\ Handshake /\ Packets /\ Losses /\ Omissions /\ Received /\ ResultsFit
-----------------------------------------------------------------------------
(* Types, and the sending threads.                                         *)

\* The sending threads' part of the type, and what they have counted.
SenderPart ==
  /\ snd \in [Streams -> SenderType] /\ written \in [Streams -> Nat]
  /\ SendsLeft /\ SenderCountsWhatItSends

LEMMA SenderUpdate ==
  ASSUME NEW s \in SenderType, NEW pc \in {"check", "send", "counted", "off"},
         NEW left \in 0..Multisend, NEW count \in Nat
  PROVE  /\ [s EXCEPT !.pc = pc, !.left = left] \in SenderType
         /\ [s EXCEPT !.pc = pc, !.count = count] \in SenderType
         /\ [s EXCEPT !.pc = pc, !.left = left, !.count = count] \in SenderType
<1>1. \A t \in SenderType : [t EXCEPT !.left = left] \in SenderType
  BY DEF SenderType
<1>2. \A t \in SenderType : [t EXCEPT !.count = count] \in SenderType
  BY DEF SenderType
<1>3. [s EXCEPT !.pc = pc] \in SenderType
  BY DEF SenderType
<1> QED BY <1>1, <1>2, <1>3, Zenon

LEMMA SenderStepKeeps ==
  ASSUME SenderPart, NEW i \in Streams, SenderStep(i)
  PROVE  SenderPart'
<1> USE DEF SenderPart, SenderAt
<1>t. snd[i] \in SenderType
  OBVIOUS
<1>1. CASE SenderChecks(i)
  <2> DEFINE r == [snd[i] EXCEPT !.pc = "send", !.left = Multisend]
  <2>1. snd[i].pc = "check"
    BY <1>1 DEF SenderChecks
  <2>2. r \in SenderType /\ r.left > 0 /\ r.count = snd[i].count /\ r.pc = "send"
    <3>1. snd[i].count \in Nat /\ Multisend \in 0..Multisend /\ Multisend > 0
      BY <1>t, LimitsAssumption DEF SenderType
    <3>2. r \in SenderType
      BY <1>t, <3>1, SenderUpdate
    <3> QED BY <1>t, <3>1, <3>2 DEF SenderType
  <2>3. snd' = [snd EXCEPT ![i] = r] /\ written' = written
    BY <1>1 DEF SenderChecks
  <2> HIDE DEF r
  <2>5. \A k \in Streams : snd'[k] = IF k = i THEN r ELSE snd[k]
    BY <2>3
  <2>6. snd' \in [Streams -> SenderType]
    BY <2>2, <2>3
  <2>7. SendsLeft'
    BY <2>5, <2>2 DEF SendsLeft
  <2>8. SenderCountsWhatItSends'
    BY <2>1, <2>2, <2>3, <2>5 DEF SenderCountsWhatItSends
  <2> QED BY <2>3, <2>6, <2>7, <2>8
<1>2. CASE SenderCounts(i)
  <2> DEFINE r == [snd[i] EXCEPT !.pc = "counted", !.left = @ - 1, !.count = @ + 1]
  <2>1. snd[i].pc = "send" /\ snd[i].left > 0
    BY <1>2 DEF SenderCounts, SendsLeft
  <2>2. r \in SenderType /\ r.pc = "counted" /\ r.count = snd[i].count + 1
    <3>1. snd[i].count + 1 \in Nat /\ snd[i].left - 1 \in 0..Multisend
      BY <1>t, <2>1, LimitsAssumption DEF SenderType
    <3>2. r \in SenderType
      BY <1>t, <3>1, SenderUpdate
    <3> QED BY <1>t, <3>2 DEF SenderType
  <2>3. snd' = [snd EXCEPT ![i] = r] /\ written' = written
    BY <1>2 DEF SenderCounts
  <2> HIDE DEF r
  <2>5. \A k \in Streams : snd'[k] = IF k = i THEN r ELSE snd[k]
    BY <2>3
  <2>6. snd' \in [Streams -> SenderType]
    BY <2>2, <2>3
  <2>7. SendsLeft'
    BY <2>5, <2>2 DEF SendsLeft
  <2>8. SenderCountsWhatItSends'
    BY <2>1, <2>2, <2>3, <2>5 DEF SenderCountsWhatItSends
  <2> QED BY <2>3, <2>6, <2>7, <2>8
<1>3. CASE SenderWrites(i)
  <2> DEFINE r == [snd[i] EXCEPT !.pc = AfterSend(i)]
  <2>1. snd[i].pc = "counted"
    BY <1>3 DEF SenderWrites
  <2>2. /\ r \in SenderType /\ r.count = snd[i].count /\ r.pc \in {"check", "send"}
        /\ r.pc = "send" => r.left > 0
    BY <1>t, LimitsAssumption DEF SenderType, AfterSend
  <2>3. snd' = [snd EXCEPT ![i] = r] /\ written' = [written EXCEPT ![i] = @ + 1]
    BY <1>3 DEF SenderWrites
  <2> HIDE DEF r
  <2>5. \A k \in Streams : snd'[k] = IF k = i THEN r ELSE snd[k]
    BY <2>3
  <2>6. snd' \in [Streams -> SenderType] /\ written' \in [Streams -> Nat]
    BY <2>2, <2>3
  <2>7. SendsLeft'
    BY <2>5, <2>2 DEF SendsLeft
  <2>8. SenderCountsWhatItSends'
    BY <2>1, <2>2, <2>3, <2>5 DEF SenderCountsWhatItSends
  <2> QED BY <2>6, <2>7, <2>8
<1>4. CASE SenderWriteFails(i)
  <2>1. PICK pc \in {"check", "off"} :
          snd' = [snd EXCEPT ![i].pc = pc, ![i].count = Uncount(@)]
    BY <1>4 DEF SenderWriteFails
  <2> DEFINE r == [snd[i] EXCEPT !.pc = pc, !.count = Uncount(@)]
  <2>2. snd[i].pc = "counted" /\ snd[i].count = written[i] + 1
    BY <1>4 DEF SenderWriteFails, SenderCountsWhatItSends
  <2>3. r \in SenderType /\ r.count = written[i] /\ r.pc = pc
    <3>1. Uncount(snd[i].count) = written[i] /\ written[i] \in Nat
      BY <1>t, <2>2 DEF SenderType, Uncount
    <3>2. 0 \in 0..Multisend
      BY LimitsAssumption
    <3>3. r \in SenderType
      BY <1>t, <3>1, <3>2, SenderUpdate, Zenon
    <3> QED BY <1>t, <3>1, <3>3 DEF SenderType
  <2>4. snd' = [snd EXCEPT ![i] = r] /\ written' = written
    BY <1>4, <2>1 DEF SenderWriteFails
  <2> HIDE DEF r
  <2>5. \A k \in Streams : snd'[k] = IF k = i THEN r ELSE snd[k]
    BY <2>4
  <2>6. snd' \in [Streams -> SenderType]
    BY <2>3, <2>4
  <2>7. SendsLeft'
    BY <2>5, <2>3 DEF SendsLeft
  <2>8. SenderCountsWhatItSends'
    BY <2>3, <2>4, <2>5 DEF SenderCountsWhatItSends
  <2> QED BY <2>4, <2>6, <2>7, <2>8
<1> QED BY <1>1, <1>2, <1>3, <1>4 DEF SenderStep

\* What the other threads do to the sending threads' counters: they end the omitted part,
\* and they end the threads.
LEMMA OthersLeaveSenders ==
  ASSUME SenderPart, [Next]_vars, ~\E i \in Streams : SenderStep(i)
  PROVE  /\ SenderPart' /\ written' = written
         /\ \/ snd' = snd
            \/ \E s \in Sides : OmitEnds(s)
            \/ ClientEnds
<1> USE DEF SenderPart
<1>1. written' = written /\ (snd' = snd \/ (\E s \in Sides : OmitEnds(s)) \/ ClientEnds)
  BY DEF Next, ControlStep, ReceiverStep, Connect, ReadReply, ReplyTimesOut, Accept, ServerStarts,
     ClientStarts, PeerFails, ServerEnds, SendResults, Reads, CountsGap, CountsPacket, vars,
     threadVars, senderVars, networkVars, OmitEnds, ClientEnds
<1>2. CASE snd' = snd
  BY <1>1, <1>2 DEF SendsLeft, SenderCountsWhatItSends
<1>3. CASE \E s \in Sides : OmitEnds(s)
  <2>1. CASE snd' = snd
    BY <1>2, <2>1
  <2>2. CASE snd' = [i \in Streams |-> [snd[i] EXCEPT !.omitted = snd[i].count]]
    <3>1. \A i \in Streams : /\ snd'[i] \in SenderType /\ snd'[i].pc = snd[i].pc
                             /\ snd'[i].left = snd[i].left /\ snd'[i].count = snd[i].count
      BY <2>2 DEF SenderType
    <3> QED BY <1>1, <2>2, <3>1 DEF SendsLeft, SenderCountsWhatItSends
  <2> QED BY <1>3, <2>1, <2>2 DEF OmitEnds
<1>4. CASE ClientEnds
  <2>1. CASE snd' = snd
    BY <1>2, <2>1
  <2>2. CASE snd' = [i \in Streams |-> Cancelled(snd[i])]
    <3>1. \A i \in Streams : snd'[i] \in SenderType /\ snd'[i].pc = "off" /\ snd'[i].count = snd[i].count
      BY <2>2 DEF SenderType, Cancelled
    <3> QED BY <1>1, <2>2, <3>1 DEF SendsLeft, SenderCountsWhatItSends
  <2> QED BY <1>4, <2>1, <2>2 DEF ClientEnds
<1> QED BY <1>1, <1>2, <1>3, <1>4
-----------------------------------------------------------------------------
(* The receiving threads, field by field.                                  *)

ReceiverPart == rcv \in [Streams -> ReceiverType] /\ net \subseteq Messages

\* What every step of a receiving thread leaves alone.
Keeps(r, s) ==
  s.ooo \in Nat /\ s.omitted = r.omitted /\ s.omittedErrors = r.omittedErrors

LEMMA ReadsFields ==
  ASSUME ReceiverPart, NEW i \in Streams, Reads(i)
  PROVE  /\ rcv' \in [Streams -> ReceiverType]
         /\ \A k \in Streams : k # i => rcv'[k] = rcv[k]
         /\ rcv[i].pc = "read" /\ rcv'[i].max = rcv[i].max /\ rcv'[i].errors = rcv[i].errors
         /\ Keeps(rcv[i], rcv'[i])
         /\ \E d \in ForReceiver(i) :
              /\ Take(d)
              /\ \/ d.kind # "data" /\ rcv'[i].short /\ rcv'[i].pc = "read" /\ rcv'[i].bytes = rcv[i].bytes
                 \/ /\ d.kind = "data" /\ test[Receiver] = "running" /\ ~rcv'[i].short
                    /\ rcv'[i].pc = "gap" /\ rcv'[i].bytes = rcv[i].bytes + 1
                    /\ ~rcv[i].short => rcv'[i].seq = d.seq
                 \/ d.kind = "data" /\ ~rcv'[i].short /\ rcv'[i].pc = "read" /\ rcv'[i].bytes = rcv[i].bytes
<1> USE DEF ReceiverPart
<1>1. rcv[i] \in ReceiverType
  OBVIOUS
<1>2. rcv[i].pc = "read"
  BY DEF Reads, ReceiverAt
<1>3. PICK d \in ForReceiver(i) :
        /\ Take(d)
        /\ IF d.kind # "data"
             THEN rcv' = [rcv EXCEPT ![i].short = TRUE]
             ELSE \E n \in (IF rcv[i].short THEN 0..MaxPackets + 1 ELSE {d.seq}) :
                    rcv' = [rcv EXCEPT ![i] =
                      IF test[Receiver] = "running"
                        THEN [rcv[i] EXCEPT !.pc = "gap", !.short = FALSE, !.seq = n, !.bytes = @ + 1]
                        ELSE [rcv[i] EXCEPT !.short = FALSE]]
  BY DEF Reads
<1>4. \A b \in BOOLEAN : [rcv[i] EXCEPT !.short = b] \in ReceiverType
  BY <1>1 DEF ReceiverType
<1>5. CASE d.kind # "data"
  <2>1. rcv' = [rcv EXCEPT ![i] = [rcv[i] EXCEPT !.short = TRUE]]
    BY <1>3, <1>5
  <2>2. /\ rcv'[i] = [rcv[i] EXCEPT !.short = TRUE] /\ rcv' \in [Streams -> ReceiverType]
        /\ \A k \in Streams : k # i => rcv'[k] = rcv[k]
    BY <2>1, <1>4
  <2>3. rcv'[i].short /\ rcv'[i].pc = rcv[i].pc /\ rcv'[i].bytes = rcv[i].bytes
        /\ rcv'[i].max = rcv[i].max /\ rcv'[i].errors = rcv[i].errors /\ Keeps(rcv[i], rcv'[i])
    BY <2>2, <1>1 DEF ReceiverType, Keeps
  <2> QED BY <1>2, <1>3, <1>5, <2>2, <2>3
<1>6. CASE d.kind = "data"
  <2>1. PICK n \in (IF rcv[i].short THEN 0..MaxPackets + 1 ELSE {d.seq}) :
          rcv' = [rcv EXCEPT ![i] =
            IF test[Receiver] = "running"
              THEN [rcv[i] EXCEPT !.pc = "gap", !.short = FALSE, !.seq = n, !.bytes = @ + 1]
              ELSE [rcv[i] EXCEPT !.short = FALSE]]
    BY <1>3, <1>6
  <2>2. n \in Nat /\ (~rcv[i].short => n = d.seq)
    <3>1. d.seq \in Nat
      BY DEF ForReceiver, Messages
    <3> QED BY <2>1, <3>1, <1>1, LimitsAssumption DEF ReceiverType
  <2>3. CASE test[Receiver] = "running"
    <3> DEFINE r1 == [rcv[i] EXCEPT !.pc = "gap"]
               r2 == [r1 EXCEPT !.short = FALSE]
               r3 == [r2 EXCEPT !.seq = n]
               r4 == [r3 EXCEPT !.bytes = rcv[i].bytes + 1]
    <3> DEFINE r == [rcv[i] EXCEPT !.pc = "gap", !.short = FALSE, !.seq = n, !.bytes = @ + 1]
    <3>r. rcv' = [rcv EXCEPT ![i] = r]
      BY <2>1, <2>3
    <3>f. r = r4
      BY Zenon
    <3> HIDE DEF r
    <3>1. rcv' = [rcv EXCEPT ![i] = r4]
      BY <3>r, <3>f
    <3>2. r1 \in ReceiverType /\ r1.pc = "gap" /\ r1.bytes = rcv[i].bytes /\ r1.max = rcv[i].max
          /\ r1.errors = rcv[i].errors /\ Keeps(rcv[i], r1)
      BY <1>1 DEF ReceiverType, Keeps
    <3> HIDE DEF r1
    <3>3. r2 \in ReceiverType /\ ~r2.short /\ r2.pc = "gap" /\ r2.bytes = rcv[i].bytes
          /\ r2.max = rcv[i].max /\ r2.errors = rcv[i].errors /\ Keeps(rcv[i], r2)
      BY <3>2 DEF ReceiverType, Keeps
    <3> HIDE DEF r2
    <3>4. r3 \in ReceiverType /\ ~r3.short /\ r3.pc = "gap" /\ r3.bytes = rcv[i].bytes /\ r3.seq = n
          /\ r3.max = rcv[i].max /\ r3.errors = rcv[i].errors /\ Keeps(rcv[i], r3)
      BY <2>2, <3>3 DEF ReceiverType, Keeps
    <3> HIDE DEF r3
    <3>5. r4 \in ReceiverType /\ ~r4.short /\ r4.pc = "gap" /\ r4.bytes = rcv[i].bytes + 1 /\ r4.seq = n
          /\ r4.max = rcv[i].max /\ r4.errors = rcv[i].errors /\ Keeps(rcv[i], r4)
      BY <1>1, <3>4 DEF ReceiverType, Keeps
    <3> HIDE DEF r4
    <3>6. /\ rcv'[i] = r4 /\ rcv' \in [Streams -> ReceiverType]
          /\ \A k \in Streams : k # i => rcv'[k] = rcv[k]
      BY <3>1, <3>5
    <3> QED BY <1>2, <1>3, <1>6, <2>2, <2>3, <3>5, <3>6
  <2>4. CASE test[Receiver] # "running"
    <3>1. rcv' = [rcv EXCEPT ![i] = [rcv[i] EXCEPT !.short = FALSE]]
      BY <2>1, <2>4
    <3>2. /\ rcv'[i] = [rcv[i] EXCEPT !.short = FALSE] /\ rcv' \in [Streams -> ReceiverType]
          /\ \A k \in Streams : k # i => rcv'[k] = rcv[k]
      BY <3>1, <1>4
    <3>3. ~rcv'[i].short /\ rcv'[i].pc = rcv[i].pc /\ rcv'[i].bytes = rcv[i].bytes
          /\ rcv'[i].max = rcv[i].max /\ rcv'[i].errors = rcv[i].errors /\ Keeps(rcv[i], rcv'[i])
      BY <3>2, <1>1 DEF ReceiverType, Keeps
    <3> QED BY <1>2, <1>3, <1>6, <3>2, <3>3
  <2> QED BY <2>3, <2>4
<1> QED BY <1>5, <1>6

LEMMA CountsGapFields ==
  ASSUME ReceiverPart, NEW i \in Streams, CountsGap(i)
  PROVE  /\ rcv' \in [Streams -> ReceiverType]
         /\ \A k \in Streams : k # i => rcv'[k] = rcv[k]
         /\ rcv[i].pc = "gap" /\ rcv'[i].pc = "count"
         /\ rcv'[i].seq = rcv[i].seq /\ rcv'[i].max = rcv[i].max
         /\ rcv'[i].bytes = rcv[i].bytes /\ rcv'[i].short = rcv[i].short
         /\ rcv'[i].errors = rcv[i].errors + Ahead(rcv'[i])
         /\ Keeps(rcv[i], rcv'[i])
<1> USE DEF ReceiverPart
<1>1. rcv[i] \in ReceiverType
  OBVIOUS
<1>2. rcv[i].pc = "gap"
  BY DEF CountsGap, ReceiverAt
<1> DEFINE r1 == [rcv[i] EXCEPT !.pc = "count"]
<1>3. r1 \in ReceiverType /\ r1.pc = "count" /\ r1.seq = rcv[i].seq /\ r1.max = rcv[i].max
      /\ r1.bytes = rcv[i].bytes /\ r1.short = rcv[i].short /\ r1.errors = rcv[i].errors
      /\ r1.ooo = rcv[i].ooo /\ Keeps(rcv[i], r1)
  BY <1>1 DEF ReceiverType, Keeps
<1>4. CASE Forward(rcv[i])
  <2> DEFINE r2 == [r1 EXCEPT !.errors = rcv[i].errors + rcv[i].seq - 1 - rcv[i].max]
  <2> DEFINE r == [rcv[i] EXCEPT !.pc = "count", !.errors = @ + rcv[i].seq - 1 - rcv[i].max]
  <2>r. rcv' = [rcv EXCEPT ![i] = r]
    BY <1>4 DEF CountsGap
  <2>f. r = r2
    BY Zenon
  <2> HIDE DEF r
  <2>1. rcv' = [rcv EXCEPT ![i] = r2]
    BY <2>r, <2>f
  <2> HIDE DEF r1
  <2>2. rcv[i].errors + rcv[i].seq - 1 - rcv[i].max \in Nat
    BY <1>1, <1>4 DEF ReceiverType, Forward
  <2>3. r2 \in ReceiverType /\ r2.pc = "count" /\ r2.seq = rcv[i].seq /\ r2.max = rcv[i].max
        /\ r2.bytes = rcv[i].bytes /\ r2.short = rcv[i].short
        /\ r2.errors = rcv[i].errors + rcv[i].seq - 1 - rcv[i].max /\ Keeps(rcv[i], r2)
    BY <1>3, <2>2 DEF ReceiverType, Keeps
  <2>4. Ahead(r2) = rcv[i].seq - 1 - rcv[i].max
    BY <1>4, <2>3 DEF Ahead, Forward
  <2> HIDE DEF r2
  <2>5. /\ rcv'[i] = r2 /\ rcv' \in [Streams -> ReceiverType]
        /\ \A k \in Streams : k # i => rcv'[k] = rcv[k]
    BY <2>1, <2>3
  <2>6. rcv[i].errors \in Nat /\ rcv[i].seq \in Nat /\ rcv[i].max \in Nat
    BY <1>1 DEF ReceiverType
  <2> QED BY <1>2, <2>3, <2>4, <2>5, <2>6
<1>5. CASE ~Forward(rcv[i])
  <2> DEFINE r2 == [r1 EXCEPT !.ooo = rcv[i].ooo + 1]
  <2> DEFINE r == [rcv[i] EXCEPT !.pc = "count", !.ooo = @ + 1]
  <2>r. rcv' = [rcv EXCEPT ![i] = r]
    BY <1>5 DEF CountsGap
  <2>f. r = r2
    BY Zenon
  <2> HIDE DEF r
  <2>1. rcv' = [rcv EXCEPT ![i] = r2]
    BY <2>r, <2>f
  <2> HIDE DEF r1
  <2>3. r2 \in ReceiverType /\ r2.pc = "count" /\ r2.seq = rcv[i].seq /\ r2.max = rcv[i].max
        /\ r2.bytes = rcv[i].bytes /\ r2.short = rcv[i].short
        /\ r2.errors = rcv[i].errors /\ Keeps(rcv[i], r2)
    BY <1>1, <1>3 DEF ReceiverType, Keeps
  <2>4. Ahead(r2) = 0
    BY <1>5, <2>3 DEF Ahead, Forward
  <2> HIDE DEF r2
  <2>5. /\ rcv'[i] = r2 /\ rcv' \in [Streams -> ReceiverType]
        /\ \A k \in Streams : k # i => rcv'[k] = rcv[k]
    BY <2>1, <2>3
  <2>6. rcv[i].errors \in Nat
    BY <1>1 DEF ReceiverType
  <2> QED BY <1>2, <2>3, <2>4, <2>5, <2>6
<1> QED BY <1>4, <1>5

LEMMA CountsPacketFields ==
  ASSUME ReceiverPart, NEW i \in Streams, CountsPacket(i)
  PROVE  /\ rcv' \in [Streams -> ReceiverType]
         /\ \A k \in Streams : k # i => rcv'[k] = rcv[k]
         /\ rcv[i].pc = "count" /\ rcv'[i].pc = "read"
         /\ rcv'[i].max = IF Forward(rcv[i]) THEN rcv[i].seq ELSE rcv[i].max
         /\ rcv'[i].errors = IF Forward(rcv[i]) \/ rcv[i].errors = 0 THEN rcv[i].errors
                                                                    ELSE rcv[i].errors - 1
         /\ rcv'[i].bytes = rcv[i].bytes /\ rcv'[i].short = rcv[i].short
         /\ Keeps(rcv[i], rcv'[i])
<1> USE DEF ReceiverPart
<1>1. rcv[i] \in ReceiverType
  OBVIOUS
<1>2. rcv[i].pc = "count"
  BY DEF CountsPacket, ReceiverAt
<1> DEFINE r1 == Counted(rcv[i])
           r2 == [r1 EXCEPT !.pc = "read"]
<1>3. r1 \in ReceiverType
      /\ r1.max = (IF Forward(rcv[i]) THEN rcv[i].seq ELSE rcv[i].max)
      /\ r1.errors = (IF Forward(rcv[i]) \/ rcv[i].errors = 0 THEN rcv[i].errors ELSE rcv[i].errors - 1)
      /\ r1.bytes = rcv[i].bytes /\ r1.short = rcv[i].short /\ Keeps(rcv[i], r1)
  <2>1. CASE Forward(rcv[i])
    BY <1>1, <2>1 DEF Counted, ReceiverType, Keeps
  <2>2. CASE ~Forward(rcv[i])
    <3>1. Repaired(rcv[i].errors) \in Nat
      BY <1>1 DEF ReceiverType, Repaired
    <3>2. Counted(rcv[i]) = [rcv[i] EXCEPT !.errors = Repaired(rcv[i].errors)]
      BY <2>2 DEF Counted
    <3>3. r1 \in ReceiverType /\ r1.max = rcv[i].max /\ r1.bytes = rcv[i].bytes
          /\ r1.short = rcv[i].short /\ r1.errors = Repaired(rcv[i].errors) /\ Keeps(rcv[i], r1)
      BY <1>1, <3>1, <3>2 DEF ReceiverType, Keeps
    <3>4. rcv[i].errors \in Nat
      BY <1>1 DEF ReceiverType
    <3> QED BY <2>2, <3>3, <3>4 DEF Repaired
  <2> QED BY <2>1, <2>2
<1>4. rcv' = [rcv EXCEPT ![i] = r2]
  BY DEF CountsPacket
<1> HIDE DEF r1
<1>5. r2 \in ReceiverType /\ r2.pc = "read" /\ r2.max = r1.max /\ r2.errors = r1.errors
      /\ r2.bytes = r1.bytes /\ r2.short = r1.short /\ Keeps(rcv[i], r2)
  BY <1>3 DEF ReceiverType, Keeps
<1> HIDE DEF r2
<1>6. /\ rcv'[i] = r2 /\ rcv' \in [Streams -> ReceiverType]
      /\ \A k \in Streams : k # i => rcv'[k] = rcv[k]
  BY <1>4, <1>5
<1> QED BY <1>2, <1>3, <1>5, <1>6

\* What the other threads do to a receiver's counters: they end the omitted part.
LEMMA OthersLeaveReceivers ==
  ASSUME rcv \in [Streams -> ReceiverType], [Next]_vars, ~\E i \in Streams : ReceiverStep(i)
  PROVE  /\ rcv' \in [Streams -> ReceiverType] /\ got' = got
         /\ \A i \in Streams :
              /\ rcv'[i].pc = rcv[i].pc /\ rcv'[i].short = rcv[i].short /\ rcv'[i].seq = rcv[i].seq
              /\ rcv'[i].max = rcv[i].max /\ rcv'[i].errors = rcv[i].errors
         /\ rcv' = rcv \/ \E s \in Sides : OmitEnds(s)
<1>1. got' = got /\ (rcv' = rcv \/ \E s \in Sides : OmitEnds(s))
  BY DEF Next, ControlStep, SenderStep, Connect, ReadReply, ReplyTimesOut, Accept, ServerStarts,
     ClientStarts, PeerFails, ClientEnds, ServerEnds, SendResults, SenderChecks, SenderCounts,
     SenderWrites, SenderWriteFails, vars, threadVars, receiverVars, networkVars, OmitEnds
<1>2. CASE rcv' = rcv
  BY <1>1, <1>2
<1>3. CASE rcv' = [i \in Streams |-> [rcv[i] EXCEPT !.omitted = rcv[i].max,
                                          !.omittedErrors = rcv[i].errors, !.bytes = 0]]
  <2> SUFFICES ASSUME NEW i \in Streams
               PROVE  /\ rcv'[i] \in ReceiverType
                      /\ rcv'[i].pc = rcv[i].pc /\ rcv'[i].short = rcv[i].short /\ rcv'[i].seq = rcv[i].seq
                      /\ rcv'[i].max = rcv[i].max /\ rcv'[i].errors = rcv[i].errors
    BY <1>1, <1>3, Zenon
  <2> DEFINE r1 == [rcv[i] EXCEPT !.omitted = rcv[i].max]
             r2 == [r1 EXCEPT !.omittedErrors = rcv[i].errors]
             r3 == [r2 EXCEPT !.bytes = 0]
  <2>1. rcv'[i] = r3
    BY <1>3, Zenon
  <2>2. rcv[i] \in ReceiverType /\ rcv[i].max \in Nat /\ rcv[i].errors \in Nat
    BY DEF ReceiverType
  <2>3. r1 \in ReceiverType /\ r1.pc = rcv[i].pc /\ r1.short = rcv[i].short /\ r1.seq = rcv[i].seq
        /\ r1.max = rcv[i].max /\ r1.errors = rcv[i].errors
    BY <2>2 DEF ReceiverType
  <2> HIDE DEF r1
  <2>4. r2 \in ReceiverType /\ r2.pc = rcv[i].pc /\ r2.short = rcv[i].short /\ r2.seq = rcv[i].seq
        /\ r2.max = rcv[i].max /\ r2.errors = rcv[i].errors
    BY <2>2, <2>3 DEF ReceiverType
  <2> HIDE DEF r2
  <2>5. r3 \in ReceiverType /\ r3.pc = rcv[i].pc /\ r3.short = rcv[i].short /\ r3.seq = rcv[i].seq
        /\ r3.max = rcv[i].max /\ r3.errors = rcv[i].errors
    BY <2>4 DEF ReceiverType
  <2> QED BY <2>1, <2>5
<1> QED BY <1>1, <1>2, <1>3 DEF OmitEnds
-----------------------------------------------------------------------------
(* The network.                                                            *)

LEMMA TakeLeaves ==
  ASSUME NEW d, Take(d), dups \in 0..MaxDups
  PROVE  /\ d \in net /\ net' \subseteq net
         /\ dups' \in 0..MaxDups /\ (dups' = 0 => dups = 0 /\ net' = net \ {d})
BY LimitsAssumption DEF Take

\* Which steps put a datagram on the network, and that none takes back a duplication.
LEMMA NetworkStep ==
  ASSUME net \subseteq Messages, dups \in 0..MaxDups, cur \in 1..NumStreams + 1,
         snd \in [Streams -> SenderType], [Next]_vars
  PROVE  /\ net' \subseteq Messages /\ dups' \in 0..MaxDups /\ (dups' = 0 => dups = 0)
         /\ \A d \in net' : \/ d \in net
                            \/ Connect /\ d = Hello(cur) /\ waiting'
                            \/ Accept /\ \E i \in Streams : /\ d = Reply(i) /\ Hello(i) \in net
                                                           /\ ReachesListener(i)
                                                           /\ accepted' = Append(accepted, i)
                            \/ \E i \in Streams : SenderWrites(i) /\ d = Data(i, snd[i].count)
<1>h. \A i \in Streams : Hello(i) \in Messages /\ Reply(i) \in Messages
  BY DEF Hello, Reply, Messages
<1>1. CASE Connect
  <2>1. cur \in Streams
    BY <1>1, NumStreamsAssumption DEF Connect, Streams
  <2> QED BY <1>1, <1>h, <2>1 DEF Connect, threadVars
<1>2. CASE Accept
  <2>1. PICK i \in Streams :
          /\ ReachesListener(i)
          /\ \/ /\ Hello(i) \in net
                /\ \/ net' = (net \ {Hello(i)}) \cup {Reply(i)} /\ dups' = dups
                   \/ dups < MaxDups /\ net' = net \cup {Reply(i)} /\ dups' = dups + 1
                /\ accepted' = Append(accepted, i)
                /\ UNCHANGED test
             \/ Take(Hello(i)) /\ Becomes("server", "failed") /\ UNCHANGED accepted
    BY <1>2 DEF Accept
  <2>2. CASE Take(Hello(i))
    BY <2>2, TakeLeaves
  <2>3. CASE ~Take(Hello(i))
    <3>1. net' \subseteq net \cup {Reply(i)} /\ dups' \in 0..MaxDups /\ (dups' = 0 => dups = 0)
          /\ Hello(i) \in net /\ accepted' = Append(accepted, i)
      BY <2>1, <2>3, LimitsAssumption
    <3> QED BY <1>2, <1>h, <2>1, <3>1
  <2> QED BY <2>2, <2>3
<1>3. CASE ReadReply
  BY <1>3, TakeLeaves DEF ReadReply
<1>4. ASSUME NEW i \in Streams, Reads(i) PROVE net' \subseteq net /\ dups' \in 0..MaxDups /\ (dups' = 0 => dups = 0)
  BY <1>4, TakeLeaves DEF Reads
<1>5. ASSUME NEW i \in Streams, SenderWrites(i)
      PROVE  /\ net' = net \cup {Data(i, snd[i].count)} /\ Data(i, snd[i].count) \in Messages
             /\ dups' = dups
  <2>1. snd[i].count \in Nat
    BY DEF SenderType
  <2> QED BY <1>5, <2>1 DEF SenderWrites, receiverVars, Messages, Data
<1>6. CASE ~(Connect \/ Accept \/ ReadReply \/ (\E i \in Streams : Reads(i) \/ SenderWrites(i)))
  <2>1. UNCHANGED <<net, dups>>
    BY <1>6 DEF Next, ControlStep, SenderStep, ReceiverStep, ReplyTimesOut, ServerStarts,
       ClientStarts, PeerFails, OmitEnds, ClientEnds, ServerEnds, SendResults, SenderChecks,
       SenderCounts, SenderWriteFails, CountsGap, CountsPacket, vars, networkVars, receiverVars,
       senderVars
  <2> QED BY <2>1
<1> QED BY <1>1, <1>2, <1>3, <1>4, <1>5, <1>6
-----------------------------------------------------------------------------
(* Types of the rest.                                                      *)

\* Only these steps touch the variables of the setup; and the test stays the same one.
LEMMA SetupStays ==
  ASSUME [Next]_vars,
         ~(Connect \/ ReadReply \/ Accept), test' = test
  PROVE  UNCHANGED setupVars
BY DEF Next, ControlStep, SenderStep, ReceiverStep, ReplyTimesOut, ServerStarts, ClientStarts,
   PeerFails, OmitEnds, ClientEnds, ServerEnds, SendResults, SenderChecks, SenderCounts,
   SenderWrites, SenderWriteFails, Reads, CountsGap, CountsPacket, vars, setupVars, networkVars,
   receiverVars, senderVars

\* How a side's test can change.
LEMMA TestStep ==
  ASSUME test \in [Sides -> {"setup", "running", "ended", "failed"}], [Next]_vars
  PROVE  /\ test' \in [Sides -> {"setup", "running", "ended", "failed"}]
         /\ \A s \in Sides :
              \/ test'[s] = test[s]
              \/ test[s] \in {"setup", "running"} /\ test'[s] = "failed"
              \/ s = "server" /\ ServerStarts /\ test'[s] = "running"
              \/ s = "client" /\ ClientStarts /\ test'[s] = "running"
              \/ s = "client" /\ ClientEnds /\ test[s] = "running" /\ test'[s] = "ended"
              \/ s = "server" /\ ServerEnds /\ test[s] = "running" /\ test'[s] = "ended"
<1>1. CASE test' = test
  BY <1>1
<1>2. ASSUME NEW s \in Sides, NEW st \in {"setup", "running", "ended", "failed"}, Becomes(s, st)
      PROVE  /\ test' \in [Sides -> {"setup", "running", "ended", "failed"}]
             /\ test'[s] = st /\ \A p \in Sides : p # s => test'[p] = test[p]
  BY <1>2 DEF Becomes
<1>3. CASE Connect \/ ReadReply \/ ReplyTimesOut
  <2>1. test' = test \/ (Becomes("client", "failed") /\ test["client"] = "setup")
    BY <1>3 DEF Connect, ReadReply, ReplyTimesOut
  <2> QED BY <1>1, <1>2, <2>1 DEF Sides
<1>4. CASE Accept
  <2>1. test' = test \/ (Becomes("server", "failed") /\ test["server"] = "setup")
    BY <1>4 DEF Accept
  <2> QED BY <1>1, <1>2, <2>1 DEF Sides
<1>5. CASE ServerStarts
  BY <1>2, <1>5 DEF ServerStarts, Sides
<1>6. CASE ClientStarts
  BY <1>2, <1>6 DEF ClientStarts, Sides
<1>7. CASE ClientEnds
  BY <1>2, <1>7 DEF ClientEnds, Sides
<1>8. CASE ServerEnds
  BY <1>2, <1>8 DEF ServerEnds, Sides
<1>9. ASSUME NEW s \in Sides, PeerFails(s)
      PROVE  /\ test' \in [Sides -> {"setup", "running", "ended", "failed"}]
             /\ test[s] \in {"setup", "running"} /\ test'[s] = "failed"
             /\ \A p \in Sides : p # s => test'[p] = test[p]
  BY <1>2, <1>9 DEF PeerFails
<1>10. CASE ~(Connect \/ ReadReply \/ ReplyTimesOut \/ Accept \/ ServerStarts \/ ClientStarts
              \/ ClientEnds \/ ServerEnds \/ \E s \in Sides : PeerFails(s))
  <2>1. test' = test
    BY <1>10 DEF Next, ControlStep, SenderStep, ReceiverStep, OmitEnds, SendResults, SenderChecks,
       SenderCounts, SenderWrites, SenderWriteFails, Reads, CountsGap, CountsPacket, vars,
       setupVars, networkVars, receiverVars, senderVars
  <2> QED BY <1>1, <2>1
<1> QED BY <1>3, <1>4, <1>5, <1>6, <1>7, <1>8, <1>9, <1>10

SetupPart ==
  /\ test \in [Sides -> {"setup", "running", "ended", "failed"}]
  /\ cur \in 1..NumStreams + 1 /\ waiting \in BOOLEAN /\ tries \in 0..ReplyLimit
  /\ accepted \in Seq(Streams) /\ omitting \in [Sides -> BOOLEAN]
  /\ LooksFor

LEMMA LooksBound == Looks \in 1..ReplyLimit
BY LimitsAssumption DEF Looks

LEMMA SetupStep ==
  ASSUME SetupPart, [Next]_vars
  PROVE  SetupPart' /\ params' = params
<1> USE DEF SetupPart
<1>p. params' = params
  BY DEF Next, ControlStep, SenderStep, ReceiverStep, Connect, ReadReply, ReplyTimesOut, Accept,
     ServerStarts, ClientStarts, PeerFails, OmitEnds, ClientEnds, ServerEnds, SendResults,
     SenderChecks, SenderCounts, SenderWrites, SenderWriteFails, Reads, CountsGap, CountsPacket,
     vars, threadVars, receiverVars, senderVars
<1>l. Looks' = Looks
  BY <1>p DEF Looks
<1>t. test' \in [Sides -> {"setup", "running", "ended", "failed"}]
  BY TestStep
<1>o. omitting' \in [Sides -> BOOLEAN]
  BY DEF Next, ControlStep, SenderStep, ReceiverStep, Connect, ReadReply, ReplyTimesOut, Accept,
     ServerStarts, ClientStarts, PeerFails, OmitEnds, ClientEnds, ServerEnds, SendResults,
     SenderChecks, SenderCounts, SenderWrites, SenderWriteFails, Reads, CountsGap, CountsPacket,
     vars, threadVars, receiverVars, senderVars
<1>1. CASE Connect
  <2>1. cur' = cur /\ accepted' = accepted /\ cur <= NumStreams /\ test["client"] = "setup"
    BY <1>1 DEF Connect
  <2>2. \/ waiting' = TRUE /\ tries' = 0
        \/ waiting' = waiting /\ tries' = tries /\ test'["client"] = "failed"
    BY <1>1 DEF Connect, Becomes, Sides
  <2>3. LooksFor'
    BY <1>l, <2>1, <2>2, LooksBound DEF LooksFor
  <2>4. waiting' \in BOOLEAN
    BY <2>2, Zenon
  <2>5. tries' \in 0..ReplyLimit
    BY <2>2, LimitsAssumption
  <2> QED BY <1>p, <1>o, <1>t, <2>1, <2>3, <2>4, <2>5
<1>2. CASE ReadReply
  <2>1. accepted' = accepted /\ tries' = tries + 1 /\ test["client"] = "setup" /\ waiting
    BY <1>2 DEF ReadReply
  <2>2. \/ waiting' = FALSE /\ cur' = cur + 1
        \/ waiting' = waiting /\ cur' = cur /\ (tries' < Looks \/ test'["client"] = "failed")
    BY <1>2 DEF ReadReply, Becomes, Sides
  <2>3. tries < Looks /\ cur <= NumStreams
    BY <2>1 DEF LooksFor
  <2>4. LooksFor'
    BY <1>l, <2>1, <2>2, <2>3 DEF LooksFor
  <2>5. tries' \in 0..ReplyLimit /\ cur' \in 1..NumStreams + 1
    <3>1. tries' = tries + 1 /\ (cur' = cur \/ cur' = cur + 1)
      BY <2>1, <2>2
    <3>2. tries + 1 <= ReplyLimit /\ tries \in Nat /\ cur \in 1..NumStreams + 1
      BY <2>3, LooksBound, LimitsAssumption
    <3> HIDE DEF SetupPart
    <3> QED BY <2>3, <3>1, <3>2, NumStreamsAssumption, LimitsAssumption
  <2>6. waiting' \in BOOLEAN
    BY <2>2, Zenon
  <2> QED BY <1>p, <1>o, <1>t, <2>1, <2>4, <2>5, <2>6
<1>3. CASE Accept
  <2>1. cur' = cur /\ waiting' = waiting /\ tries' = tries /\ test'["client"] = test["client"]
    BY <1>3 DEF Accept, Becomes, Sides
  <2>2. accepted' \in Seq(Streams)
    BY <1>3 DEF Accept
  <2>3. LooksFor'
    BY <1>l, <2>1, <2>2 DEF LooksFor
  <2> QED BY <1>p, <1>o, <1>t, <2>1, <2>2, <2>3
<1>4. CASE ~(Connect \/ ReadReply \/ Accept)
  <2>1. cur' = cur /\ waiting' = waiting /\ tries' = tries /\ accepted' = accepted
    BY <1>4 DEF Next, ControlStep, SenderStep, ReceiverStep, ReplyTimesOut, ServerStarts,
       ClientStarts, PeerFails, OmitEnds, ClientEnds, ServerEnds, SendResults, SenderChecks,
       SenderCounts, SenderWrites, SenderWriteFails, Reads, CountsGap, CountsPacket, vars,
       setupVars, networkVars, receiverVars, senderVars
  <2>2. test'["client"] = "setup" => test["client"] = "setup"
    BY TestStep DEF Sides
  <2>3. LooksFor'
    BY <1>l, <2>1, <2>2 DEF LooksFor
  <2> QED BY <1>p, <1>o, <1>t, <2>1, <2>2, <2>3
<1> QED BY <1>1, <1>2, <1>3, <1>4

LEMMA OwnCountsType ==
  ASSUME snd \in [Streams -> SenderType], rcv \in [Streams -> ReceiverType], NEW side
  PROVE  OwnCounts(side) \in [Streams -> CountsType]
BY DEF OwnCounts, CountsType, SenderType, ReceiverType

\* Results only change when they are sent.
LEMMA ResultsStep ==
  ASSUME [Next]_vars
  PROVE  results' = results \/ \E s \in Sides : SendResults(s)
BY DEF Next, ControlStep, SenderStep, ReceiverStep, Connect, ReadReply, ReplyTimesOut, Accept,
   ServerStarts, ClientStarts, PeerFails, OmitEnds, ClientEnds, ServerEnds, SenderChecks,
   SenderCounts, SenderWrites, SenderWriteFails, Reads, CountsGap, CountsPacket, vars,
   threadVars, receiverVars, senderVars

LEMMA TypedInit == Init => Typed /\ SenderCountsWhatItSends
<1> SUFFICES ASSUME Init PROVE Typed /\ SenderCountsWhatItSends
  OBVIOUS
<1>1. params \in Tests /\ params.omit \in BOOLEAN
  BY TestsAssumption DEF Init
<1>2. NewSender \in SenderType /\ NewReceiver \in ReceiverType
  BY LimitsAssumption DEF NewSender, NewReceiver, SenderType, ReceiverType
<1>3. SendsLeft /\ SenderCountsWhatItSends
  BY DEF Init, SendsLeft, SenderCountsWhatItSends, NewSender
<1>4. LooksFor
  BY DEF Init, LooksFor
<1>5. cur \in 1..NumStreams + 1 /\ tries \in 0..ReplyLimit /\ dups \in 0..MaxDups
  BY NumStreamsAssumption, LimitsAssumption DEF Init
<1>6. snd \in [Streams -> SenderType] /\ rcv \in [Streams -> ReceiverType]
      /\ written \in [Streams -> Nat] /\ got \in [Streams -> SUBSET Nat]
  BY <1>2 DEF Init
<1>7. test \in [Sides -> {"setup", "running", "ended", "failed"}] /\ omitting \in [Sides -> BOOLEAN]
  BY <1>1 DEF Init
<1>8. waiting \in BOOLEAN /\ accepted \in Seq(Streams) /\ net \subseteq Messages
  <2>1. waiting = FALSE /\ accepted = <<>> /\ net = {}
    BY DEF Init
  <2>2. waiting \in BOOLEAN
    BY <2>1, Zenon
  <2>3. accepted \in Seq(Streams) /\ net \subseteq Messages
    BY <2>1
  <2> QED BY <2>2, <2>3
<1>9. results \in [Sides -> {NoResults} \cup [Streams -> CountsType]]
  BY DEF Init
<1> QED BY <1>1, <1>3, <1>4, <1>5, <1>6, <1>7, <1>8, <1>9 DEF Typed, TypeOK

LEMMA TypedStep ==
  Typed /\ SenderCountsWhatItSends /\ [Next]_vars => Typed' /\ SenderCountsWhatItSends'
<1> SUFFICES ASSUME Typed, SenderCountsWhatItSends, [Next]_vars
             PROVE  Typed' /\ SenderCountsWhatItSends'
  OBVIOUS
<1>1. SetupPart /\ SenderPart /\ ReceiverPart
  BY DEF Typed, TypeOK, SetupPart, SenderPart, ReceiverPart
<1>2. SetupPart' /\ params' = params
  BY <1>1, SetupStep
<1>3. SenderPart'
  BY <1>1, SenderStepKeeps, OthersLeaveSenders
<1>4. rcv' \in [Streams -> ReceiverType] /\ got' \in [Streams -> SUBSET Nat]
  <2>1. CASE ~\E i \in Streams : ReceiverStep(i)
    BY <1>1, <2>1, OthersLeaveReceivers DEF ReceiverPart, Typed, TypeOK
  <2>2. ASSUME NEW i \in Streams, ReceiverStep(i)
        PROVE  rcv' \in [Streams -> ReceiverType] /\ got' \in [Streams -> SUBSET Nat]
    <3>1. rcv' \in [Streams -> ReceiverType]
      BY <1>1, <2>2, ReadsFields, CountsGapFields, CountsPacketFields DEF ReceiverStep
    <3>2. rcv[i].seq \in Nat
      BY <1>1 DEF ReceiverPart, ReceiverType
    <3>3. got' = got \/ got' = [got EXCEPT ![i] = @ \cup {rcv[i].seq}]
      BY <2>2 DEF ReceiverStep, Reads, CountsGap, CountsPacket
    <3> QED BY <3>1, <3>2, <3>3 DEF Typed, TypeOK
  <2> QED BY <2>1, <2>2
<1>5. net' \subseteq Messages /\ dups' \in 0..MaxDups
  BY <1>1, NetworkStep DEF Typed, TypeOK
<1>6. results' \in [Sides -> {NoResults} \cup [Streams -> CountsType]]
  <2>1. results \in [Sides -> {NoResults} \cup [Streams -> CountsType]]
    BY DEF Typed, TypeOK
  <2>2. ASSUME NEW s \in Sides, SendResults(s)
        PROVE  results' = [results EXCEPT ![s] = OwnCounts(s)] /\ OwnCounts(s) \in [Streams -> CountsType]
    BY <1>1, <2>2, OwnCountsType DEF SendResults, SenderPart, ReceiverPart
  <2> QED BY <2>1, <2>2, ResultsStep
<1> QED BY <1>2, <1>3, <1>4, <1>5, <1>6 DEF Typed, TypeOK, SetupPart, SenderPart
-----------------------------------------------------------------------------
(* The handshake.                                                          *)

LEMMA HandshakeInit == Init => Handshake
<1> SUFFICES ASSUME Init PROVE Handshake
  OBVIOUS
<1>1. accepted = <<>> /\ Len(accepted) = 0 /\ cur = 1 /\ ~waiting /\ net = {}
  BY DEF Init
<1>2. ~Threads("server") /\ ~Threads("client")
  BY DEF Init, Threads, Sides
<1>3. PairedStreams
  BY <1>1 DEF PairedStreams
<1> QED BY <1>1, <1>2, <1>3 DEF Handshake, Underway

LEMMA HandshakeStep == Typed /\ Handshake /\ [Next]_vars => Handshake'
<1> SUFFICES ASSUME Typed, Handshake, [Next]_vars PROVE Handshake'
  OBVIOUS
<1>t. /\ cur \in 1..NumStreams + 1 /\ accepted \in Seq(Streams) /\ Len(accepted) \in Nat
      /\ net \subseteq Messages /\ dups \in 0..MaxDups /\ snd \in [Streams -> SenderType]
      /\ test \in [Sides -> {"setup", "running", "ended", "failed"}]
      /\ NumStreams \in Nat /\ MaxDups \in Nat
  BY NumStreamsAssumption, LimitsAssumption DEF Typed, TypeOK
<1>n. /\ dups' = 0 => dups = 0
      /\ \A d \in net' : \/ d \in net
                         \/ Connect /\ d = Hello(cur) /\ waiting'
                         \/ Accept /\ \E i \in Streams : /\ d = Reply(i) /\ Hello(i) \in net
                                                        /\ ReachesListener(i)
                                                        /\ accepted' = Append(accepted, i)
                         \/ \E i \in Streams : SenderWrites(i) /\ d = Data(i, snd[i].count)
  BY <1>t, NetworkStep
<1>p. accepted = [k \in 1..Len(accepted) |-> k] /\ cur - 1 <= Len(accepted) /\ Len(accepted) <= cur
  BY DEF Handshake, PairedStreams
<1>1. CASE Connect
  <2>1. cur' = cur /\ accepted' = accepted /\ dups' = dups /\ ~waiting
        /\ test["client"] = "setup" /\ cur <= NumStreams
    BY <1>1 DEF Connect
  <2>2. waiting' = TRUE \/ (net' = net /\ waiting' = waiting)
    BY <1>1 DEF Connect
  <2>3. Len(accepted) = cur - 1
    BY <2>1 DEF Handshake
  <2>4. Threads("client")' = FALSE /\ Threads("server")' = Threads("server")
    BY <1>1, <1>t DEF Connect, Becomes, Threads, Sides
  <2>5. Underway'
    <3> SUFFICES ASSUME NEW d \in net'
                 PROVE  /\ d.kind = "hello" => d.stream <= cur' /\ (d.stream = cur' => waiting')
                        /\ d.kind = "reply" => d.stream <= Len(accepted')
                        /\ dups' = 0 => /\ d.kind = "hello" => d.stream > Len(accepted')
                                        /\ d.kind = "reply" => d.stream >= cur'
      BY DEF Underway
    <3>1. d \in net \/ d = Hello(cur)
      BY <1>1, <1>t DEF Connect
    <3>2. CASE d \in net
      BY <2>1, <2>2, <3>2 DEF Handshake, Underway
    <3>3. CASE d = Hello(cur) /\ d \notin net
      <4>1. d.kind = "hello" /\ d.stream = cur
        BY <3>3 DEF Hello
      <4> QED BY <1>t, <2>1, <2>2, <2>3, <3>3, <4>1
    <3> QED BY <3>1, <3>2, <3>3
  <2> QED BY <2>1, <2>3, <2>4, <2>5 DEF Handshake, PairedStreams
<1>2. CASE ReadReply
  <2>1. accepted' = accepted /\ test["client"] = "setup" /\ waiting /\ test'["server"] = test["server"]
    BY <1>2, <1>t DEF ReadReply, Becomes, Sides
  <2>2. PICK d \in net :
          /\ d.stream = cur /\ d.kind # "hello" /\ Take(d)
          /\ IF d.kind = "reply"
               THEN waiting' = FALSE /\ cur' = cur + 1 /\ UNCHANGED test
               ELSE UNCHANGED <<waiting, cur>>
    BY <1>2 DEF ReadReply
  <2>3. net' \subseteq net /\ (dups' = 0 => dups = 0 /\ net' = net \ {d})
    BY <1>t, <2>2, TakeLeaves
  <2>4. Threads("client")' = FALSE /\ Threads("server")' = Threads("server")
    <3>1. test' = test \/ Becomes("client", "failed")
      BY <1>2 DEF ReadReply
    <3>2. test'["client"] \in {"setup", "failed"}
      BY <1>t, <2>1, <3>1 DEF Becomes, Sides
    <3> QED BY <2>1, <3>2 DEF Threads
  <2>5. CASE d.kind # "reply"
    <3>1. cur' = cur /\ waiting' = waiting
      BY <2>2, <2>5
    <3>2. Underway'
      BY <2>1, <2>3, <3>1 DEF Handshake, Underway
    <3> QED BY <2>1, <2>4, <3>1, <3>2 DEF Handshake, PairedStreams
  <2>6. CASE d.kind = "reply"
    <3>1. cur' = cur + 1 /\ waiting' = FALSE /\ Len(accepted) = cur
      <4>1. d.stream <= Len(accepted)
        BY <2>2, <2>6 DEF Handshake, Underway
      <4>2. cur' = cur + 1 /\ waiting' = FALSE /\ d.stream = cur
        BY <2>2, <2>6
      <4>3. d.stream = cur
        BY <2>2
      <4>4. Len(accepted) <= cur /\ cur <= Len(accepted)
        BY <1>p, <4>1, <4>3
      <4>5. Len(accepted) \in Int /\ cur \in Int
        BY <1>t
      <4>6. Len(accepted) = cur
        BY <4>4, <4>5
      <4> QED BY <4>2, <4>6
    <3>2. Underway'
      <4> SUFFICES ASSUME NEW e \in net'
                   PROVE  /\ e.kind = "hello" => e.stream <= cur' /\ (e.stream = cur' => waiting')
                          /\ e.kind = "reply" => e.stream <= Len(accepted')
                          /\ dups' = 0 => /\ e.kind = "hello" => e.stream > Len(accepted')
                                          /\ e.kind = "reply" => e.stream >= cur'
        BY DEF Underway
      <4>1. e \in net /\ e \in Messages /\ e.stream \in Nat
        BY <1>t, <2>3 DEF Messages, Streams
      <4>2. e.kind = "hello" => e.stream <= cur
        BY <4>1 DEF Handshake, Underway
      <4>3. e.kind = "reply" => e.stream <= Len(accepted)
        BY <4>1 DEF Handshake, Underway
      <4>4. dups' = 0 /\ e.kind = "hello" => e.stream > Len(accepted)
        BY <2>3, <4>1 DEF Handshake, Underway
      <4>5. dups' = 0 /\ e.kind = "reply" => e.stream >= cur
        BY <2>3, <4>1 DEF Handshake, Underway
      <4>6. dups' = 0 /\ e.kind = "reply" => e.stream # cur
        BY <1>t, <2>2, <2>3, <2>6, <4>1 DEF Messages
      <4> QED BY <1>t, <2>1, <2>2, <3>1, <4>1, <4>2, <4>3, <4>4, <4>5, <4>6
    <3> QED BY <1>p, <1>t, <2>1, <2>4, <3>1, <3>2 DEF Handshake, PairedStreams
  <2> QED BY <2>5, <2>6
<1>3. CASE Accept
  <2>1. cur' = cur /\ waiting' = waiting /\ test["server"] = "setup" /\ Len(accepted) < NumStreams
    BY <1>3 DEF Accept
  <2>2. Threads("client")' = Threads("client") /\ Threads("server")' = FALSE
    BY <1>3, <1>t DEF Accept, Becomes, Threads, Sides
  <2>3. PICK i \in Streams :
          /\ ReachesListener(i)
          /\ \/ /\ Hello(i) \in net
                /\ \/ net' = (net \ {Hello(i)}) \cup {Reply(i)} /\ dups' = dups
                   \/ dups < MaxDups /\ net' = net \cup {Reply(i)} /\ dups' = dups + 1
                /\ accepted' = Append(accepted, i)
             \/ Take(Hello(i)) /\ UNCHANGED accepted
    BY <1>3 DEF Accept
  <2>4. CASE accepted' = accepted /\ Take(Hello(i))
    <3>1. net' \subseteq net /\ (dups' = 0 => dups = 0)
      BY <1>t, <2>4, TakeLeaves
    <3>2. Underway'
      BY <2>1, <2>4, <3>1 DEF Handshake, Underway
    <3> QED BY <2>1, <2>2, <2>4, <3>2 DEF Handshake, PairedStreams
  <2>5. CASE ~(accepted' = accepted /\ Take(Hello(i)))
    <3>1. /\ Hello(i) \in net /\ accepted' = Append(accepted, i) /\ net' \subseteq net \cup {Reply(i)}
          /\ dups' = 0 => dups = 0 /\ net' = (net \ {Hello(i)}) \cup {Reply(i)}
      BY <1>t, <2>3, <2>5
    <3>2. i <= cur /\ (i = cur => waiting) /\ i \in Nat
      BY <3>1, <1>t DEF Handshake, Underway, Hello, Streams
    <3>3. ~(i \in 1..Len(accepted))
      <4>1. i \in 1..Len(accepted) => accepted[i] = i
        BY <1>p
      <4> QED BY <2>3, <4>1 DEF ReachesListener
    <3>4. i = cur /\ Len(accepted) = cur - 1 /\ i \in Nat \ {0} /\ waiting
      BY <1>p, <1>t, <3>2, <3>3 DEF Streams
    <3>5. Len(accepted') = cur /\ accepted' = [k \in 1..Len(accepted') |-> k]
      <4>1. Len(accepted') = Len(accepted) + 1 /\ accepted' \in Seq(Streams)
        BY <1>t, <3>1
      <4>2. \A k \in 1..Len(accepted) : accepted'[k] = accepted[k] /\ accepted[k] = k
        BY <1>p, <1>t, <3>1
      <4>3. accepted'[Len(accepted) + 1] = i
        BY <1>t, <3>1
      <4>4. Len(accepted') = cur
        BY <1>t, <3>4, <4>1
      <4>5. \A k \in 1..Len(accepted') : accepted'[k] = k
        BY <1>t, <3>4, <4>1, <4>2, <4>3
      <4>6. accepted' = [k \in 1..Len(accepted') |-> accepted'[k]]
        BY <4>1
      <4> QED BY <4>4, <4>5, <4>6
    <3>6. Underway'
      <4> SUFFICES ASSUME NEW e \in net'
                   PROVE  /\ e.kind = "hello" => e.stream <= cur' /\ (e.stream = cur' => waiting')
                          /\ e.kind = "reply" => e.stream <= Len(accepted')
                          /\ dups' = 0 => /\ e.kind = "hello" => e.stream > Len(accepted')
                                          /\ e.kind = "reply" => e.stream >= cur'
        BY DEF Underway
      <4>1. CASE e = Reply(i)
        <5>1. e.kind = "reply" /\ e.stream = i
          BY <4>1 DEF Reply
        <5> QED BY <1>t, <2>1, <3>4, <3>5, <5>1
      <4>2. CASE e # Reply(i)
        <5>1. e \in net /\ e \in Messages /\ e.stream \in Nat /\ (dups' = 0 => e # Hello(i) /\ dups = 0)
          BY <1>t, <3>1, <4>2 DEF Messages, Streams
        <5>2. e.kind = "hello" => e.stream <= cur
          BY <5>1 DEF Handshake, Underway
        <5>3. e.kind = "reply" => e.stream <= Len(accepted)
          BY <5>1 DEF Handshake, Underway
        <5>4. dups' = 0 /\ e.kind = "hello" => e.stream > Len(accepted) /\ e.stream # i
          BY <5>1 DEF Handshake, Underway, Hello, Messages
        <5>5. dups' = 0 /\ e.kind = "reply" => e.stream >= cur
          BY <5>1 DEF Handshake, Underway
        <5> QED BY <1>t, <2>1, <3>4, <3>5, <5>1, <5>2, <5>3, <5>4, <5>5
      <4> QED BY <4>1, <4>2
    <3> QED BY <1>t, <2>1, <2>2, <3>4, <3>5, <3>6 DEF Handshake, PairedStreams
  <2> QED BY <2>4, <2>5
<1>4. CASE ~(Connect \/ ReadReply \/ Accept)
  <2>1. cur' = cur /\ waiting' = waiting /\ accepted' = accepted
    BY <1>4 DEF Next, ControlStep, SenderStep, ReceiverStep, ReplyTimesOut, ServerStarts,
       ClientStarts, PeerFails, OmitEnds, ClientEnds, ServerEnds, SendResults, SenderChecks,
       SenderCounts, SenderWrites, SenderWriteFails, Reads, CountsGap, CountsPacket, vars,
       setupVars, networkVars, receiverVars, senderVars
  <2>2. Underway'
    <3> SUFFICES ASSUME NEW d \in net'
                 PROVE  /\ d.kind = "hello" => d.stream <= cur' /\ (d.stream = cur' => waiting')
                        /\ d.kind = "reply" => d.stream <= Len(accepted')
                        /\ dups' = 0 => /\ d.kind = "hello" => d.stream > Len(accepted')
                                        /\ d.kind = "reply" => d.stream >= cur'
      BY DEF Underway
    <3>1. CASE d \in net
      BY <1>n, <2>1, <3>1 DEF Handshake, Underway
    <3>2. CASE d \notin net
      BY <1>n, <1>4, <3>2 DEF Data
    <3> QED BY <3>1, <3>2
  <2>3. Threads("server")' => Len(accepted) = NumStreams
    <3>1. CASE ServerStarts
      BY <3>1 DEF ServerStarts
    <3>2. CASE ~ServerStarts
      BY <1>t, <3>2, TestStep DEF Threads, Sides, Handshake
    <3> QED BY <3>1, <3>2
  <2>4. Threads("client")' => cur > NumStreams
    <3>1. CASE ClientStarts
      BY <3>1 DEF ClientStarts
    <3>2. CASE ~ClientStarts
      BY <1>t, <3>2, TestStep DEF Threads, Sides, Handshake
    <3> QED BY <3>1, <3>2
  <2> QED BY <2>1, <2>2, <2>3, <2>4 DEF Handshake, PairedStreams
<1> QED BY <1>1, <1>2, <1>3, <1>4
-----------------------------------------------------------------------------
(* The packets.                                                            *)

LEMMA WrittenStep ==
  ASSUME Typed, SenderCountsWhatItSends, [Next]_vars
  PROVE  /\ written' \in [Streams -> Nat]
         /\ \A i \in Streams : written[i] <= written'[i]
         /\ \A i \in Streams : SenderWrites(i) =>
              /\ snd[i].count = written[i] + 1 /\ written'[i] = written[i] + 1
              /\ UNCHANGED <<rcv, got>>
         /\ ~(\E i \in Streams : SenderWrites(i)) => written' = written
<1>1. written \in [Streams -> Nat] /\ SenderPart
  BY DEF Typed, TypeOK, SenderPart
<1>2. ASSUME NEW i \in Streams, SenderWrites(i)
      PROVE  /\ snd[i].count = written[i] + 1 /\ written' = [written EXCEPT ![i] = @ + 1]
             /\ UNCHANGED <<rcv, got>>
  <2>1. snd[i].pc = "counted" /\ written' = [written EXCEPT ![i] = @ + 1] /\ UNCHANGED receiverVars
    BY <1>2 DEF SenderWrites, SenderAt
  <2>2. snd[i].count = written[i] + 1
    BY <2>1 DEF SenderCountsWhatItSends
  <2> QED BY <2>1, <2>2 DEF receiverVars
<1>3. CASE ~\E i \in Streams : SenderWrites(i)
  <2>1. written' = written
    BY <1>3 DEF Next, ControlStep, SenderStep, ReceiverStep, Connect, ReadReply, ReplyTimesOut, Accept,
       ServerStarts, ClientStarts, PeerFails, OmitEnds, ClientEnds, ServerEnds, SendResults,
       SenderChecks, SenderCounts, SenderWriteFails, Reads, CountsGap, CountsPacket, vars,
       threadVars, networkVars, senderVars
  <2> QED BY <1>1, <1>3, <2>1
<1>4. ASSUME NEW i \in Streams, SenderWrites(i)
      PROVE  /\ written' \in [Streams -> Nat] /\ written'[i] = written[i] + 1
             /\ \A k \in Streams : written[k] <= written'[k]
  BY <1>1, <1>2, <1>4
<1> QED BY <1>2, <1>3, <1>4

\* The datagrams of data on the network are the old ones and the one just written.
LEMMA DataUnderway ==
  ASSUME Typed, [Next]_vars, NEW d \in net', d.kind = "data"
  PROVE  d \in net \/ \E i \in Streams : SenderWrites(i) /\ d = Data(i, snd[i].count)
<1>1. Hello(cur).kind = "hello" /\ \A i \in Streams : Reply(i).kind = "reply"
  BY DEF Hello, Reply
<1> QED BY <1>1, NetworkStep DEF Typed, TypeOK

\* Without a duplication a receiver finds nothing of the handshake on its socket.
LEMMA OnlyData ==
  ASSUME Typed, Handshake, dups = 0, NEW i \in Streams, ReceiverAt(i, "read"), NEW d \in ForReceiver(i)
  PROVE  d.kind = "data" /\ d \in net /\ d.stream = i /\ d = Data(i, d.seq)
<1>1. d \in net /\ d \in Messages /\ d.stream = i /\ i \in 1..NumStreams
      /\ d.kind \in {"data", IF params.reverse THEN "reply" ELSE "hello"}
  BY DEF ForReceiver, Typed, TypeOK, Streams
<1>2. cur \in Int /\ Len(accepted) \in Int /\ NumStreams \in Int /\ params.reverse \in BOOLEAN
  BY NumStreamsAssumption, TestsAssumption DEF Typed, TypeOK
<1>3. d.kind = "hello" => d.stream > Len(accepted)
  BY <1>1 DEF Handshake, Underway
<1>4. d.kind = "reply" => d.stream >= cur
  BY <1>1 DEF Handshake, Underway
<1>5. d.kind = "data"
  <2>1. CASE params.reverse
    <3>1. cur > NumStreams
      BY <2>1 DEF ReceiverAt, Receiver, Handshake
    <3> QED BY <1>1, <1>2, <1>4, <2>1, <3>1
  <2>2. CASE ~params.reverse
    <3>1. Len(accepted) = NumStreams
      BY <2>2 DEF ReceiverAt, Receiver, Handshake
    <3> QED BY <1>1, <1>2, <1>3, <2>2, <3>1
  <2> QED BY <1>2, <2>1, <2>2
<1> QED BY <1>1, <1>5 DEF Messages, Data

LEMMA PacketsInit == Init => Packets
<1> SUFFICES ASSUME Init PROVE Packets
  OBVIOUS
<1>1. net = {} /\ \A i \in Streams : got[i] = {} /\ written[i] = 0 /\ rcv[i] = NewReceiver
  BY DEF Init
<1>2. NewReceiver.max = 0 /\ NewReceiver.short = FALSE /\ NewReceiver.pc = "read"
  BY DEF NewReceiver
<1>3. Numbered
  BY <1>1 DEF Numbered
<1>4. ASSUME NEW i \in Streams PROVE Once(i)
  BY <1>1, <1>2 DEF Once, InHand
<1> QED BY <1>3, <1>4 DEF Packets

LEMMA NumberedStep ==
  ASSUME Typed, SenderCountsWhatItSends, Numbered, [Next]_vars
  PROVE  Numbered'
<1>t. rcv \in [Streams -> ReceiverType] /\ got \in [Streams -> SUBSET Nat] /\ ReceiverPart
      /\ net \subseteq Messages /\ written \in [Streams -> Nat]
  BY DEF Typed, TypeOK, ReceiverPart
<1>1. ASSUME NEW d \in net', d.kind = "data" PROVE d.seq \in 1..written'[d.stream]
  <2>1. CASE d \in net
    <3>1. d.stream \in Streams /\ d.seq \in 1..written[d.stream]
      BY <1>t, <1>1, <2>1 DEF Numbered, Messages
    <3> QED BY <1>t, <3>1, WrittenStep
  <2>2. CASE \E i \in Streams : SenderWrites(i) /\ d = Data(i, snd[i].count)
    <3>1. PICK i \in Streams : SenderWrites(i) /\ d = Data(i, snd[i].count)
      BY <2>2
    <3>2. d.seq = snd[i].count /\ d.stream = i
      BY <3>1 DEF Data
    <3> QED BY <1>t, <3>1, <3>2, WrittenStep
  <2> QED BY <1>1, <2>1, <2>2, DataUnderway
<1>2. ASSUME NEW i \in Streams PROVE got'[i] \subseteq 0..rcv'[i].max
  <2>1. got[i] \subseteq 0..rcv[i].max /\ rcv[i].max \in Nat /\ rcv[i].seq \in Nat
    BY <1>t DEF Numbered, ReceiverType
  <2>2. CASE CountsPacket(i)
    <3>1. got'[i] = got[i] \cup {rcv[i].seq}
      BY <1>t, <2>2 DEF CountsPacket
    <3>2. rcv'[i].max = IF Forward(rcv[i]) THEN rcv[i].seq ELSE rcv[i].max
      BY <1>t, <2>2, CountsPacketFields
    <3> QED BY <2>1, <3>1, <3>2 DEF Forward
  <2>3. ASSUME NEW k \in Streams, ReceiverStep(k), ~CountsPacket(i)
        PROVE  got'[i] = got[i] /\ rcv'[i].max = rcv[i].max
    <3>1. CASE Reads(k)
      BY <1>t, <3>1, ReadsFields DEF Reads
    <3>2. CASE CountsGap(k)
      BY <1>t, <3>2, CountsGapFields DEF CountsGap
    <3>3. CASE CountsPacket(k)
      <4>1. k # i
        BY <2>3, <3>3
      <4>2. rcv'[i] = rcv[i]
        BY <1>t, <3>3, <4>1, CountsPacketFields
      <4> QED BY <1>t, <3>3, <4>1, <4>2 DEF CountsPacket
    <3> QED BY <2>3, <3>1, <3>2, <3>3 DEF ReceiverStep
  <2>4. CASE ~\E k \in Streams : ReceiverStep(k)
    BY <1>t, <2>1, <2>4, OthersLeaveReceivers
  <2> QED BY <2>1, <2>2, <2>3, <2>4
<1> QED BY <1>1, <1>2 DEF Numbered

LEMMA OnceStep ==
  ASSUME Typed, SenderCountsWhatItSends, Handshake, Packets, [Next]_vars, dups' = 0, NEW i \in Streams
  PROVE  Once(i)'
<1>t. rcv \in [Streams -> ReceiverType] /\ got \in [Streams -> SUBSET Nat] /\ ReceiverPart
      /\ net \subseteq Messages /\ written \in [Streams -> Nat] /\ dups \in 0..MaxDups
  BY DEF Typed, TypeOK, ReceiverPart
<1>d. dups = 0 /\ \A k \in Streams : Once(k)
  BY NetworkStep DEF Packets, Typed, TypeOK
<1>i. /\ rcv[i].max \in Nat /\ rcv[i].seq \in Nat /\ written[i] \in Nat /\ written'[i] \in Nat
      /\ written[i] <= written'[i] /\ Once(i)
  BY <1>t, <1>d, WrittenStep DEF ReceiverType
<1>n. ASSUME NEW d \in net', d.kind = "data", d.stream = i, d \notin net
      PROVE  SenderWrites(i) /\ d = Data(i, written[i] + 1)
  <2>1. PICK k \in Streams : SenderWrites(k) /\ d = Data(k, snd[k].count)
    BY <1>n, DataUnderway
  <2>2. k = i
    BY <1>n, <2>1 DEF Data
  <2> QED BY <2>1, <2>2, WrittenStep
\* When neither the receiver nor what it has counted changes.
<1>s. ASSUME UNCHANGED <<got[i], rcv[i].pc, rcv[i].short, rcv[i].seq, rcv[i].max>> PROVE Once(i)'
  <2>1. ~rcv'[i].short /\ rcv'[i].max <= written'[i] /\ got'[i] \subseteq 1..rcv'[i].max
    BY <1>i, <1>s DEF Once
  <2>2. ASSUME NEW d \in net', d.kind = "data", d.stream = i PROVE d.seq \notin got'[i]
    <3>1. CASE d \in net
      BY <1>s, <1>i, <2>2, <3>1 DEF Once
    <3>2. CASE d \notin net
      <4>1. d.seq = written[i] + 1
        BY <1>n, <2>2, <3>2 DEF Data
      <4>2. \A n \in got[i] : n <= written[i]
        BY <1>i DEF Once
      <4> QED BY <1>i, <1>s, <4>1, <4>2
    <3> QED BY <3>1, <3>2
  <2>3. ASSUME InHand(i)'
        PROVE  /\ rcv'[i].seq \in 1..written'[i] /\ rcv'[i].seq \notin got'[i]
               /\ Data(i, rcv'[i].seq) \notin net'
    <3>1. rcv[i].seq \in 1..written[i] /\ rcv[i].seq \notin got[i] /\ Data(i, rcv[i].seq) \notin net
      BY <1>i, <1>s, <2>3 DEF Once, InHand
    <3>2. Data(i, rcv[i].seq) \in net' => rcv[i].seq = written[i] + 1
      BY <1>n, <3>1 DEF Data
    <3> QED BY <1>i, <1>s, <3>1, <3>2
  <2> QED BY <2>1, <2>2, <2>3 DEF Once
<1>1. CASE Reads(i)
  <2>1. PICK d \in ForReceiver(i) :
          /\ Take(d)
          /\ \/ d.kind # "data" /\ rcv'[i].short /\ rcv'[i].pc = "read" /\ rcv'[i].bytes = rcv[i].bytes
             \/ /\ d.kind = "data" /\ test[Receiver] = "running" /\ ~rcv'[i].short
                /\ rcv'[i].pc = "gap" /\ rcv'[i].bytes = rcv[i].bytes + 1
                /\ ~rcv[i].short => rcv'[i].seq = d.seq
             \/ d.kind = "data" /\ ~rcv'[i].short /\ rcv'[i].pc = "read" /\ rcv'[i].bytes = rcv[i].bytes
    BY <1>t, <1>1, ReadsFields
  <2>2. ReceiverAt(i, "read") /\ got' = got /\ rcv'[i].max = rcv[i].max /\ ~rcv[i].short
        /\ written' = written
    BY <1>t, <1>i, <1>1, ReadsFields DEF Reads, Once, senderVars
  <2>3. d.kind = "data" /\ d \in net /\ d.stream = i /\ d = Data(i, d.seq)
    BY <1>d, <2>2, OnlyData
  <2>4. net' = net \ {d}
    BY <1>t, <2>1, TakeLeaves
  <2>5. d.seq \in 1..written[i] /\ d.seq \notin got[i]
    BY <1>i, <2>3 DEF Packets, Numbered, Once
  <2>6. ~rcv'[i].short /\ (rcv'[i].pc = "read" \/ rcv'[i].seq = d.seq)
    BY <2>1, <2>2, <2>3
  <2>7. InHand(i)' => rcv'[i].seq \in 1..written'[i] /\ rcv'[i].seq \notin got'[i]
                      /\ Data(i, rcv'[i].seq) \notin net'
    BY <2>2, <2>3, <2>4, <2>5, <2>6 DEF InHand
  <2>8. \A e \in net' : e.kind = "data" /\ e.stream = i => e.seq \notin got'[i]
    BY <1>i, <2>2, <2>4 DEF Once
  <2> QED BY <1>i, <2>2, <2>6, <2>7, <2>8 DEF Once
<1>2. CASE CountsGap(i)
  <2>1. InHand(i) /\ InHand(i)' /\ UNCHANGED <<got, net, written, rcv[i].short, rcv[i].seq, rcv[i].max>>
    BY <1>t, <1>2, CountsGapFields DEF CountsGap, senderVars, InHand
  <2> QED BY <1>i, <2>1 DEF Once
<1>3. CASE CountsPacket(i)
  <2>1. /\ rcv'[i].max = IF Forward(rcv[i]) THEN rcv[i].seq ELSE rcv[i].max
        /\ rcv[i].pc = "count" /\ rcv'[i].pc = "read" /\ rcv'[i].short = rcv[i].short
    BY <1>t, <1>3, CountsPacketFields
  <2>2. net' = net /\ written' = written /\ got'[i] = got[i] \cup {rcv[i].seq}
    BY <1>t, <1>3 DEF CountsPacket, senderVars
  <2>3. rcv[i].seq \in 1..written[i] /\ rcv[i].seq \notin got[i] /\ Data(i, rcv[i].seq) \notin net
    BY <1>i, <2>1 DEF Once, InHand
  <2>4. rcv'[i].max <= written'[i] /\ got'[i] \subseteq 1..rcv'[i].max
    BY <1>i, <2>1, <2>2, <2>3 DEF Once, Forward
  <2>5. ASSUME NEW d \in net', d.kind = "data", d.stream = i PROVE d.seq \notin got'[i]
    <3>1. d = Data(i, d.seq)
      BY <1>t, <2>2, <2>5 DEF Messages, Data
    <3>2. d.seq # rcv[i].seq /\ d.seq \notin got[i]
      BY <1>i, <2>2, <2>3, <2>5, <3>1 DEF Once
    <3> QED BY <2>2, <3>2
  <2>6. ~rcv'[i].short /\ ~InHand(i)'
    BY <1>i, <2>1 DEF Once, InHand
  <2> QED BY <2>4, <2>5, <2>6 DEF Once
<1>4. CASE ~ReceiverStep(i)
  <2>1. ASSUME NEW k \in Streams, ReceiverStep(k) PROVE UNCHANGED <<got[i], rcv[i]>>
    <3>1. k # i
      BY <1>4, <2>1
    <3>2. rcv'[i] = rcv[i]
      BY <1>t, <2>1, <3>1, ReadsFields, CountsGapFields, CountsPacketFields DEF ReceiverStep
    <3>3. got'[i] = got[i]
      BY <1>t, <2>1, <3>1 DEF ReceiverStep, Reads, CountsGap, CountsPacket
    <3> QED BY <3>2, <3>3
  <2>2. CASE ~\E k \in Streams : ReceiverStep(k)
    BY <1>t, <1>s, <2>2, OthersLeaveReceivers
  <2> QED BY <1>s, <2>1, <2>2
<1> QED BY <1>1, <1>2, <1>3, <1>4 DEF ReceiverStep

LEMMA PacketsStep ==
  Typed /\ SenderCountsWhatItSends /\ Handshake /\ Packets /\ [Next]_vars => Packets'
BY NumberedStep, OnceStep DEF Packets
-----------------------------------------------------------------------------
(* The losses.                                                             *)

\* The numbers up to max that are in a set of counted numbers.
Upto(seen, max) == seen \cap (1..max)

LEMMA UptoCounts ==
  ASSUME NEW seen, NEW max \in Nat
  PROVE  /\ IsFiniteSet(Upto(seen, max)) /\ Cardinality(Upto(seen, max)) \in 0..max
<1>1. IsFiniteSet(1..max) /\ Cardinality(1..max) = max
  <2>1. 1 \in Int /\ max \in Int
    OBVIOUS
  <2>2. IsFiniteSet(1..max) /\ Cardinality(1..max) = IF 1 > max THEN 0 ELSE max - 1 + 1
    BY <2>1, FS_Interval
  <2> QED BY <2>2
<1>2. Upto(seen, max) \in SUBSET (1..max)
  BY DEF Upto
<1>3. IsFiniteSet(Upto(seen, max)) /\ Cardinality(Upto(seen, max)) <= Cardinality(1..max)
  BY <1>1, <1>2, FS_Subset
<1>4. Cardinality(Upto(seen, max)) \in Nat
  BY <1>3, FS_CardinalityType
<1> QED BY <1>1, <1>3, <1>4

\* A number above all others: what lies between is missing.
LEMMA ForwardCounts ==
  ASSUME NEW max \in Nat, NEW seen \in SUBSET (0..max), NEW n \in Nat, n >= max + 1
  PROVE  Cardinality(Upto(seen \cup {n}, n)) = Cardinality(Upto(seen, max)) + 1
<1>1. Upto(seen \cup {n}, n) = Upto(seen, max) \cup {n} /\ n \notin Upto(seen, max)
  BY DEF Upto
<1> QED BY <1>1, UptoCounts, FS_AddElement

\* A late number is missing no longer, if it was.
LEMMA LateCounts ==
  ASSUME NEW max \in Nat, NEW seen, NEW n \in 0..max
  PROVE  Cardinality(Upto(seen \cup {n}, max)) =
           Cardinality(Upto(seen, max)) + (IF n = 0 \/ n \in seen THEN 0 ELSE 1)
<1>1. CASE n = 0 \/ n \in seen
  <2>1. Upto(seen \cup {n}, max) = Upto(seen, max)
    BY <1>1 DEF Upto
  <2>2. Cardinality(Upto(seen, max)) \in Nat
    BY UptoCounts
  <2> QED BY <1>1, <2>1, <2>2
<1>2. CASE ~(n = 0 \/ n \in seen)
  <2>1. Upto(seen \cup {n}, max) = Upto(seen, max) \cup {n} /\ n \notin Upto(seen, max)
    BY <1>2 DEF Upto
  <2> QED BY <1>2, <2>1, UptoCounts, FS_AddElement
<1> QED BY <1>1, <1>2

LossesOf(i) ==
  /\ rcv[i].errors <= Missing(i) + Ahead(rcv[i])
  /\ dups = 0 => rcv[i].errors = Missing(i) + Ahead(rcv[i])

LEMMA LossesInit == Init => Losses
<1> SUFFICES ASSUME Init, NEW i \in Streams PROVE LossesOf(i)
  BY DEF Losses, LossesOf
<1>1. rcv[i] = NewReceiver /\ got[i] = {}
  BY DEF Init
<1>2. rcv[i].max = 0 /\ rcv[i].errors = 0 /\ rcv[i].pc = "read"
  BY <1>1 DEF NewReceiver
<1>3. Cardinality(got[i] \cap (1..rcv[i].max)) = 0
  BY <1>1, <1>2, UptoCounts DEF Upto
<1> QED BY <1>2, <1>3 DEF LossesOf, Missing, Ahead

LEMMA LossesStep ==
  ASSUME Typed, SenderCountsWhatItSends, Handshake, Packets, Losses, [Next]_vars, NEW i \in Streams
  PROVE  LossesOf(i)'
<1>t. rcv \in [Streams -> ReceiverType] /\ got \in [Streams -> SUBSET Nat] /\ ReceiverPart
  BY DEF Typed, TypeOK, ReceiverPart
<1>d. dups' = 0 => dups = 0
  BY NetworkStep DEF Typed, TypeOK
<1>i. /\ rcv[i].max \in Nat /\ rcv[i].seq \in Nat /\ rcv[i].errors \in Nat
      /\ got[i] \in SUBSET (0..rcv[i].max)
  BY <1>t DEF ReceiverType, Packets, Numbered
<1> DEFINE n == Cardinality(Upto(got[i], rcv[i].max))
<1>c. n \in 0..rcv[i].max /\ Missing(i) = rcv[i].max - n
  BY <1>i, UptoCounts DEF Missing, Upto
<1>l. rcv[i].errors <= Missing(i) + Ahead(rcv[i]) /\ (dups = 0 => rcv[i].errors = Missing(i) + Ahead(rcv[i]))
  BY DEF Losses
<1>s. ASSUME UNCHANGED <<got[i], rcv[i].pc, rcv[i].seq, rcv[i].max, rcv[i].errors>> PROVE LossesOf(i)'
  <2>1. Missing(i)' = Missing(i) /\ Ahead(rcv'[i]) = Ahead(rcv[i])
    BY <1>s DEF Missing, Ahead, Forward
  <2> QED BY <1>d, <1>l, <1>s, <2>1 DEF LossesOf
<1> HIDE DEF n
<1>1. CASE Reads(i)
  <2>1. got' = got /\ rcv'[i].max = rcv[i].max /\ rcv'[i].errors = rcv[i].errors /\ rcv[i].pc = "read"
        /\ rcv'[i].pc \in {"read", "gap"}
    BY <1>t, <1>1, ReadsFields DEF Reads
  <2>2. Missing(i)' = Missing(i) /\ Ahead(rcv'[i]) = 0 /\ Ahead(rcv[i]) = 0
    BY <2>1 DEF Missing, Ahead
  <2> QED BY <1>d, <1>l, <2>1, <2>2 DEF LossesOf
<1>2. CASE CountsGap(i)
  <2>1. got' = got /\ rcv'[i].max = rcv[i].max /\ rcv'[i].errors = rcv[i].errors + Ahead(rcv'[i])
        /\ rcv[i].pc = "gap" /\ rcv'[i].seq = rcv[i].seq
    BY <1>t, <1>2, CountsGapFields DEF CountsGap
  <2>2. Missing(i)' = Missing(i) /\ Ahead(rcv[i]) = 0 /\ Ahead(rcv'[i]) \in Int
    BY <1>i, <2>1 DEF Missing, Ahead
  <2> QED BY <1>c, <1>d, <1>i, <1>l, <2>1, <2>2 DEF LossesOf
<1>3. CASE CountsPacket(i)
  <2>1. /\ rcv'[i].max = IF Forward(rcv[i]) THEN rcv[i].seq ELSE rcv[i].max
        /\ rcv'[i].errors = IF Forward(rcv[i]) \/ rcv[i].errors = 0 THEN rcv[i].errors
                                                                  ELSE rcv[i].errors - 1
        /\ rcv[i].pc = "count" /\ rcv'[i].pc = "read"
    BY <1>t, <1>3, CountsPacketFields
  <2>2. got'[i] = got[i] \cup {rcv[i].seq}
    BY <1>t, <1>3 DEF CountsPacket
  <2>3. Ahead(rcv'[i]) = 0 /\ Missing(i)' = rcv'[i].max - Cardinality(Upto(got'[i], rcv'[i].max))
    BY <2>1 DEF Ahead, Missing, Upto
  <2>4. CASE Forward(rcv[i])
    <3>1. rcv'[i].max = rcv[i].seq /\ rcv'[i].errors = rcv[i].errors /\ rcv[i].seq >= rcv[i].max + 1
      BY <2>1, <2>4 DEF Forward
    <3>2. Ahead(rcv[i]) = rcv[i].seq - 1 - rcv[i].max
      BY <2>1, <2>4 DEF Ahead
    <3>3. Cardinality(Upto(got'[i], rcv'[i].max)) = n + 1
      BY <1>i, <2>2, <3>1, ForwardCounts DEF n
    <3>4. Missing(i)' = Missing(i) + Ahead(rcv[i])
      BY <1>c, <1>i, <2>3, <3>1, <3>2, <3>3
    <3>5. Missing(i)' \in Int
      BY <1>c, <1>i, <3>2, <3>4
    <3> QED BY <1>d, <1>l, <2>3, <3>1, <3>4, <3>5 DEF LossesOf
  <2>5. CASE ~Forward(rcv[i])
    <3>1. rcv'[i].max = rcv[i].max /\ rcv[i].seq \in 0..rcv[i].max /\ Ahead(rcv[i]) = 0
      BY <1>i, <2>1, <2>5 DEF Forward, Ahead
    <3>2. Cardinality(Upto(got'[i], rcv'[i].max)) =
            n + (IF rcv[i].seq = 0 \/ rcv[i].seq \in got[i] THEN 0 ELSE 1)
      BY <1>i, <2>2, <3>1, LateCounts DEF n
    <3>3. Cardinality(Upto(got'[i], rcv'[i].max)) \in 0..rcv'[i].max
      BY <1>i, <3>1, UptoCounts
    <3>4. rcv[i].errors <= rcv[i].max - n /\ (dups = 0 => rcv[i].errors = rcv[i].max - n)
      BY <1>c, <1>i, <1>l, <3>1
    <3>5. dups = 0 => rcv[i].seq # 0 /\ rcv[i].seq \notin got[i]
      BY <2>1 DEF Packets, Once, InHand
    <3>6. rcv'[i].errors = IF rcv[i].errors = 0 THEN 0 ELSE rcv[i].errors - 1
      BY <2>1, <2>5
    <3>7. rcv'[i].errors <= Missing(i)'
      BY <1>c, <1>i, <2>3, <3>1, <3>2, <3>3, <3>4, <3>6
    <3>8. dups = 0 => rcv'[i].errors = Missing(i)'
      BY <1>c, <1>i, <2>3, <3>1, <3>2, <3>3, <3>4, <3>5, <3>6
    <3>9. Missing(i)' \in Int
      BY <1>i, <2>3, <3>1, <3>3
    <3> QED BY <1>d, <2>3, <3>7, <3>8, <3>9 DEF LossesOf
  <2> QED BY <2>4, <2>5
<1>4. CASE ~ReceiverStep(i)
  <2>1. ASSUME NEW k \in Streams, ReceiverStep(k) PROVE UNCHANGED <<got[i], rcv[i]>>
    <3>1. k # i
      BY <1>4, <2>1
    <3>2. rcv'[i] = rcv[i]
      BY <1>t, <2>1, <3>1, ReadsFields, CountsGapFields, CountsPacketFields DEF ReceiverStep
    <3>3. got'[i] = got[i]
      BY <1>t, <2>1, <3>1 DEF ReceiverStep, Reads, CountsGap, CountsPacket
    <3> QED BY <3>2, <3>3
  <2>2. CASE ~\E k \in Streams : ReceiverStep(k)
    BY <1>t, <1>s, <2>2, OthersLeaveReceivers
  <2> QED BY <1>s, <2>1, <2>2
<1> QED BY <1>1, <1>2, <1>3, <1>4 DEF ReceiverStep
-----------------------------------------------------------------------------
(* The report.                                                             *)

LEMMA SenderFields ==
  ASSUME snd \in [Streams -> SenderType], NEW i \in Streams, SenderStep(i)
  PROVE  /\ \A k \in Streams : snd'[k].omitted = snd[k].omitted /\ (k # i => snd'[k] = snd[k])
         /\ snd[i].pc # "off"
<1>t. snd[i] \in SenderType
  OBVIOUS
<1>1. CASE SenderChecks(i)
  BY <1>1, <1>t DEF SenderChecks, SenderAt, SenderType
<1>2. CASE SenderCounts(i)
  BY <1>2, <1>t DEF SenderCounts, SenderAt, SenderType
<1>3. CASE SenderWrites(i)
  BY <1>3, <1>t DEF SenderWrites, SenderAt, SenderType
<1>4. CASE SenderWriteFails(i)
  BY <1>4, <1>t DEF SenderWriteFails, SenderAt, SenderType
<1> QED BY <1>1, <1>2, <1>3, <1>4 DEF SenderStep

\* What the end of the omitted part does to the counters.
LEMMA OmitFields ==
  ASSUME snd \in [Streams -> SenderType], rcv \in [Streams -> ReceiverType],
         NEW s \in Sides, OmitEnds(s), NEW i \in Streams
  PROVE  /\ snd'[i].pc = snd[i].pc /\ snd'[i].count = snd[i].count
         /\ snd'[i].omitted = IF s = Sender THEN snd[i].count ELSE snd[i].omitted
         /\ rcv'[i].omitted = IF s = Receiver THEN rcv[i].max ELSE rcv[i].omitted
         /\ test[s] = "running" /\ omitting[s]
         /\ UNCHANGED <<written, params, test>>
<1>t. snd[i] \in SenderType /\ rcv[i] \in ReceiverType
  OBVIOUS
<1>1. test[s] = "running" /\ omitting[s] /\ UNCHANGED <<written, params, test>>
  BY DEF OmitEnds, networkVars
<1>2. /\ snd'[i].pc = snd[i].pc /\ snd'[i].count = snd[i].count
      /\ snd'[i].omitted = IF s = Sender THEN snd[i].count ELSE snd[i].omitted
  BY <1>t DEF OmitEnds, SenderType
<1>3. rcv'[i].omitted = IF s = Receiver THEN rcv[i].max ELSE rcv[i].omitted
  <2>1. CASE s # Receiver
    BY <2>1 DEF OmitEnds
  <2>2. CASE s = Receiver
    <3> DEFINE r1 == [rcv[i] EXCEPT !.omitted = rcv[i].max]
               r2 == [r1 EXCEPT !.omittedErrors = rcv[i].errors]
               r3 == [r2 EXCEPT !.bytes = 0]
    <3>1. rcv' = [k \in Streams |-> [rcv[k] EXCEPT !.omitted = rcv[k].max,
                                            !.omittedErrors = rcv[k].errors, !.bytes = 0]]
      BY <2>2 DEF OmitEnds
    <3>2. rcv'[i] = r3
      BY <3>1, Zenon
    <3>3. rcv[i].max \in Nat /\ rcv[i].errors \in Nat
      BY <1>t DEF ReceiverType
    <3>4. r1 \in ReceiverType /\ r1.omitted = rcv[i].max
      BY <1>t, <3>3 DEF ReceiverType
    <3> HIDE DEF r1
    <3>5. r2 \in ReceiverType /\ r2.omitted = rcv[i].max
      BY <3>3, <3>4 DEF ReceiverType
    <3> HIDE DEF r2
    <3>6. r3.omitted = rcv[i].max
      BY <3>5 DEF ReceiverType
    <3> QED BY <2>2, <3>2, <3>6
  <2> QED BY <2>1, <2>2
<1> QED BY <1>1, <1>2, <1>3

LEMMA OmissionsInit == Init => Omissions
<1> SUFFICES ASSUME Init PROVE Omissions
  OBVIOUS
<1>1. \A i \in Streams : snd[i] = NewSender /\ rcv[i] = NewReceiver /\ written[i] = 0
  BY DEF Init
<1>2. NewSender.omitted = 0 /\ NewReceiver.omitted = 0 /\ NewReceiver.max = 0 /\ NewReceiver.omittedErrors = 0
  BY DEF NewSender, NewReceiver
<1>3. \A s \in Sides : omitting[s] = params.omit
  BY DEF Init
<1> QED BY <1>1, <1>2, <1>3 DEF Omissions

LEMMA OmissionsStep ==
  ASSUME Typed, SenderCountsWhatItSends, Omissions, [Next]_vars
  PROVE  Omissions'
<1>t. /\ rcv \in [Streams -> ReceiverType] /\ ReceiverPart /\ snd \in [Streams -> SenderType]
      /\ written \in [Streams -> Nat] /\ SetupPart /\ SenderPart
  BY DEF Typed, TypeOK, ReceiverPart, SetupPart, SenderPart
<1>p. params' = params
  BY <1>t, SetupStep
<1>w. \A i \in Streams : written[i] <= written'[i] /\ written'[i] \in Nat /\ written[i] \in Nat
  BY <1>t, WrittenStep
<1>1. ASSUME NEW i \in Streams PROVE snd'[i].omitted <= written'[i] + 1
  <2>1. snd[i].omitted <= written[i] + 1 /\ snd[i].omitted \in Nat /\ snd[i].count \in Nat
        /\ snd[i].count <= written[i] + 1
    BY <1>t DEF Omissions, SenderCountsWhatItSends, SenderType
  <2>2. CASE snd'[i].omitted = snd[i].omitted
    BY <1>w, <2>1, <2>2
  <2>3. CASE \E s \in Sides : OmitEnds(s)
    <3>1. snd'[i].omitted \in {snd[i].omitted, snd[i].count}
      BY <1>t, <2>3, OmitFields
    <3> QED BY <1>w, <2>1, <3>1
  <2>4. ASSUME NEW k \in Streams, SenderStep(k) PROVE snd'[i].omitted = snd[i].omitted
    BY <1>t, <2>4, SenderFields
  <2>5. CASE ClientEnds
    <3>1. snd' = snd \/ snd' = [k \in Streams |-> Cancelled(snd[k])]
      BY <2>5 DEF ClientEnds
    <3>2. Cancelled(snd[i]).omitted = snd[i].omitted
      BY <1>t DEF Cancelled, SenderType
    <3> QED BY <2>2, <3>1, <3>2
  <2> QED BY <1>t, <2>2, <2>3, <2>4, <2>5, OthersLeaveSenders
<1>2. ASSUME NEW i \in Streams PROVE rcv'[i].omitted <= rcv'[i].max
  <2>1. rcv[i].omitted <= rcv[i].max /\ rcv[i].omitted \in Nat /\ rcv[i].max \in Nat /\ rcv[i].seq \in Nat
    BY <1>t DEF Omissions, ReceiverType
  <2>2. ASSUME NEW k \in Streams, ReceiverStep(k)
        PROVE  rcv'[i].omitted = rcv[i].omitted /\ rcv'[i].max >= rcv[i].max
    <3>1. CASE k # i
      <4>1. rcv'[i] = rcv[i]
        BY <1>t, <2>2, <3>1, ReadsFields, CountsGapFields, CountsPacketFields DEF ReceiverStep
      <4> QED BY <2>1, <4>1
    <3>2. CASE k = i
      <4>1. CASE Reads(i)
        BY <1>t, <2>1, <4>1, ReadsFields DEF Keeps
      <4>2. CASE CountsGap(i)
        BY <1>t, <2>1, <4>2, CountsGapFields DEF Keeps
      <4>3. CASE CountsPacket(i)
        BY <1>t, <2>1, <4>3, CountsPacketFields DEF Keeps, Forward
      <4> QED BY <2>2, <3>2, <4>1, <4>2, <4>3 DEF ReceiverStep
    <3> QED BY <3>1, <3>2
  <2>3. CASE ~\E k \in Streams : ReceiverStep(k)
    <3>1. rcv'[i].max = rcv[i].max /\ (rcv' = rcv \/ \E s \in Sides : OmitEnds(s))
      BY <1>t, <2>3, OthersLeaveReceivers
    <3>2. rcv'[i].omitted \in {rcv[i].omitted, rcv[i].max}
      BY <1>t, <3>1, OmitFields
    <3> QED BY <2>1, <3>1, <3>2
  <2>4. CASE \E k \in Streams : ReceiverStep(k)
    <3>1. rcv' \in [Streams -> ReceiverType]
      BY <1>t, <2>4, ReadsFields, CountsGapFields, CountsPacketFields DEF ReceiverStep
    <3>2. rcv'[i].max \in Nat
      BY <3>1 DEF ReceiverType
    <3> QED BY <2>1, <2>2, <2>4, <3>2
  <2> QED BY <2>3, <2>4
<1>3. ASSUME ~params.omit
      PROVE  /\ \A s \in Sides : ~omitting'[s]
             /\ \A i \in Streams :
                  snd'[i].omitted = 0 /\ rcv'[i].omitted = 0 /\ rcv'[i].omittedErrors = 0
  <2>1. ~\E s \in Sides : OmitEnds(s)
    BY <1>3 DEF Omissions, OmitEnds
  <2>2. omitting' = omitting
    BY <2>1 DEF Next, ControlStep, SenderStep, ReceiverStep, Connect, ReadReply, ReplyTimesOut, Accept,
       ServerStarts, ClientStarts, PeerFails, ClientEnds, ServerEnds, SendResults, SenderChecks,
       SenderCounts, SenderWrites, SenderWriteFails, Reads, CountsGap, CountsPacket, vars,
       threadVars, receiverVars, senderVars
  <2>3. ASSUME NEW i \in Streams, NEW k \in Streams, ReceiverStep(k)
        PROVE  rcv'[i].omittedErrors = rcv[i].omittedErrors /\ rcv'[i].omitted = rcv[i].omitted
    BY <1>t, <2>3, ReadsFields, CountsGapFields, CountsPacketFields DEF ReceiverStep, Keeps
  <2>4. (~\E k \in Streams : ReceiverStep(k)) => rcv' = rcv
    BY <1>t, <2>1, OthersLeaveReceivers
  <2>5. ASSUME NEW i \in Streams PROVE snd'[i].omitted = snd[i].omitted
    <3>1. CASE ClientEnds
      <4>1. snd' = snd \/ snd' = [k \in Streams |-> Cancelled(snd[k])]
        BY <3>1 DEF ClientEnds
      <4>2. Cancelled(snd[i]).omitted = snd[i].omitted
        BY <1>t DEF Cancelled, SenderType
      <4> QED BY <4>1, <4>2
    <3>2. CASE ~ClientEnds
      BY <1>t, <2>1, <3>2, SenderFields, OthersLeaveSenders
    <3> QED BY <3>1, <3>2
  <2> QED BY <1>3, <2>2, <2>3, <2>4, <2>5 DEF Omissions
<1> QED BY <1>p, <1>1, <1>2, <1>3 DEF Omissions

ReceivedOf(i) == rcv[i].bytes = Cardinality(got[i]) + (IF InHand(i) THEN 1 ELSE 0)

LEMMA ReceivedInit == Init => Received
<1> SUFFICES ASSUME Init, NEW i \in Streams PROVE ReceivedOf(i)
  BY DEF Received, ReceivedOf
<1>1. rcv[i] = NewReceiver /\ got[i] = {}
  BY DEF Init
<1> QED BY <1>1, FS_EmptySet DEF ReceivedOf, NewReceiver, InHand

LEMMA ReceivedStep ==
  ASSUME Typed, SenderCountsWhatItSends, Handshake, Packets, Omissions, Received, [Next]_vars,
         dups' = 0, ~params.omit, NEW i \in Streams
  PROVE  ReceivedOf(i)'
<1>t. rcv \in [Streams -> ReceiverType] /\ got \in [Streams -> SUBSET Nat] /\ ReceiverPart
  BY DEF Typed, TypeOK, ReceiverPart
<1>d. dups = 0 /\ ReceivedOf(i) /\ Once(i)
  BY NetworkStep DEF Packets, Typed, TypeOK, Received, ReceivedOf
<1>f. IsFiniteSet(got[i]) /\ Cardinality(got[i]) \in Nat
  <2>1. rcv[i].max \in Nat /\ got[i] \subseteq 1..rcv[i].max
    BY <1>t, <1>d DEF Once, ReceiverType
  <2>2. got[i] = Upto(got[i], rcv[i].max)
    BY <2>1 DEF Upto
  <2>3. IsFiniteSet(got[i])
    BY <2>1, <2>2, UptoCounts
  <2> QED BY <2>3, FS_CardinalityType
<1>1. CASE Reads(i)
  <2>1. PICK d \in ForReceiver(i) :
          /\ Take(d)
          /\ \/ d.kind # "data" /\ rcv'[i].short /\ rcv'[i].pc = "read" /\ rcv'[i].bytes = rcv[i].bytes
             \/ /\ d.kind = "data" /\ test[Receiver] = "running" /\ ~rcv'[i].short
                /\ rcv'[i].pc = "gap" /\ rcv'[i].bytes = rcv[i].bytes + 1
                /\ ~rcv[i].short => rcv'[i].seq = d.seq
             \/ d.kind = "data" /\ ~rcv'[i].short /\ rcv'[i].pc = "read" /\ rcv'[i].bytes = rcv[i].bytes
    BY <1>t, <1>1, ReadsFields
  <2>2. rcv[i].pc = "read" /\ got' = got
    BY <1>t, <1>1, ReadsFields DEF Reads
  <2>3. rcv[i].bytes = Cardinality(got[i])
    BY <1>d, <1>f, <2>2 DEF ReceivedOf, InHand
  <2>4. \/ rcv'[i].pc = "read" /\ rcv'[i].bytes = rcv[i].bytes
        \/ rcv'[i].pc = "gap" /\ rcv'[i].bytes = rcv[i].bytes + 1
    BY <2>1
  <2> QED BY <1>f, <2>2, <2>3, <2>4 DEF ReceivedOf, InHand
<1>2. CASE CountsGap(i)
  <2>1. got' = got /\ InHand(i) /\ InHand(i)' /\ rcv'[i].bytes = rcv[i].bytes
    BY <1>t, <1>2, CountsGapFields DEF CountsGap, InHand
  <2> QED BY <1>d, <2>1 DEF ReceivedOf
<1>3. CASE CountsPacket(i)
  <2>1. InHand(i) /\ ~InHand(i)' /\ rcv'[i].bytes = rcv[i].bytes
    BY <1>t, <1>3, CountsPacketFields DEF InHand
  <2>2. got'[i] = got[i] \cup {rcv[i].seq} /\ rcv[i].seq \notin got[i]
    BY <1>t, <1>d, <1>3, <2>1 DEF CountsPacket, Once
  <2>3. Cardinality(got'[i]) = Cardinality(got[i]) + 1
    BY <1>f, <2>2, FS_AddElement
  <2> QED BY <1>d, <1>f, <2>1, <2>3 DEF ReceivedOf
<1>4. CASE ~ReceiverStep(i)
  <2>1. UNCHANGED <<got[i], rcv[i]>>
    <3>1. ASSUME NEW k \in Streams, ReceiverStep(k) PROVE UNCHANGED <<got[i], rcv[i]>>
      <4>1. k # i
        BY <1>4, <3>1
      <4>2. rcv'[i] = rcv[i]
        BY <1>t, <3>1, <4>1, ReadsFields, CountsGapFields, CountsPacketFields DEF ReceiverStep
      <4>3. got'[i] = got[i]
        BY <1>t, <3>1, <4>1 DEF ReceiverStep, Reads, CountsGap, CountsPacket
      <4> QED BY <4>2, <4>3
    <3>2. ~\E s \in Sides : OmitEnds(s)
      BY DEF Omissions, OmitEnds
    <3> QED BY <1>t, <3>1, <3>2, OthersLeaveReceivers
  <2> QED BY <1>d, <2>1 DEF ReceivedOf, InHand
<1> QED BY <1>1, <1>2, <1>3, <1>4 DEF ReceiverStep

LEMMA CountIsWritten ==
  ASSUME Typed, SenderCountsWhatItSends, NEW i \in Streams
  PROVE  snd[i].count \in Nat /\ written[i] \in Nat /\ written[i] <= snd[i].count
<1>1. snd[i] \in SenderType /\ written[i] \in Nat
  BY DEF Typed, TypeOK
<1>2. snd[i].count \in {written[i], written[i] + 1}
  BY DEF SenderCountsWhatItSends
<1> QED BY <1>1, <1>2

\* Without duplicates and an omitted part, losses and packets of a receiver are at most the
\* numbers it has seen, and one while a packet is in its hands.
LEMMA Adds ==
  ASSUME Typed, SenderCountsWhatItSends, Packets, Losses, Received, dups = 0, ~params.omit,
         NEW i \in Streams
  PROVE  /\ rcv[i].errors + rcv[i].bytes <= rcv[i].max + 1 \/
            (InHand(i) /\ rcv[i].errors + rcv[i].bytes <= rcv[i].seq)
         /\ rcv[i].errors + rcv[i].bytes <= snd[i].count + 1
<1>1. /\ rcv[i].max \in Nat /\ rcv[i].seq \in Nat /\ rcv[i].errors \in Nat /\ rcv[i].bytes \in Nat
      /\ written[i] \in Nat /\ snd[i].count \in Nat /\ written[i] <= snd[i].count
  BY CountIsWritten DEF Typed, TypeOK, ReceiverType
<1>2. Once(i) /\ rcv[i].errors = Missing(i) + Ahead(rcv[i])
      /\ rcv[i].bytes = Cardinality(got[i]) + (IF InHand(i) THEN 1 ELSE 0)
  BY DEF Packets, Losses, Received
<1>3. Missing(i) = rcv[i].max - Cardinality(got[i]) /\ Cardinality(got[i]) \in Nat
  <2>1. got[i] \subseteq 1..rcv[i].max
    BY <1>2 DEF Once
  <2>2. got[i] = Upto(got[i], rcv[i].max)
    BY <2>1 DEF Upto
  <2>3. Cardinality(Upto(got[i], rcv[i].max)) \in 0..rcv[i].max
    BY <1>1, UptoCounts
  <2>4. Missing(i) = rcv[i].max - Cardinality(Upto(got[i], rcv[i].max))
    BY DEF Missing, Upto
  <2> QED BY <2>2, <2>3, <2>4
<1>4. CASE ~InHand(i)
  <2>1. Ahead(rcv[i]) = 0 /\ rcv[i].max <= written[i]
    BY <1>2, <1>4 DEF Ahead, InHand, Once
  <2> QED BY <1>1, <1>2, <1>3, <1>4, <2>1
<1>5. CASE InHand(i)
  <2>1. rcv[i].max <= written[i] /\ rcv[i].seq <= written[i]
    BY <1>1, <1>2, <1>5 DEF Once
  <2>2. Ahead(rcv[i]) = 0 \/ Ahead(rcv[i]) = rcv[i].seq - 1 - rcv[i].max
    BY DEF Ahead
  <2> QED BY <1>1, <1>2, <1>3, <1>5, <2>1, <2>2
<1> QED BY <1>4, <1>5

LEMMA ResultsFitInit == Init => ResultsFit
<1> SUFFICES ASSUME Init PROVE ResultsFit
  OBVIOUS
<1>1. test["client"] # "ended" /\ results["server"] = NoResults
  BY DEF Init, Sides
<1> QED BY <1>1 DEF ResultsFit

\* Both sides' results once the server has sent its own.
FitOf(i) ==
  LET r == results["server"][i]
  IN IF params.reverse
       THEN /\ r.packets \in Nat /\ rcv[i].max <= r.packets
            /\ InHand(i) => rcv[i].seq <= r.packets
       ELSE /\ r.packets \in Nat /\ r.omittedErrors \in Nat /\ r.errors \in Nat /\ r.bytes \in Nat
            /\ ~params.omit => r.omittedErrors = 0 /\ r.errors + r.bytes <= snd[i].count + 1

LEMMA ResultsFitStep ==
  ASSUME Typed, SenderCountsWhatItSends, Handshake, Packets, Losses, Omissions, Received, ResultsFit,
         [Next]_vars
  PROVE  ResultsFit'
<1>t. /\ rcv \in [Streams -> ReceiverType] /\ ReceiverPart /\ snd \in [Streams -> SenderType]
      /\ SetupPart /\ SenderPart /\ test \in [Sides -> {"setup", "running", "ended", "failed"}]
      /\ results \in [Sides -> {NoResults} \cup [Streams -> CountsType]]
  BY DEF Typed, TypeOK, ReceiverPart, SetupPart, SenderPart
<1>p. params' = params /\ (dups' = 0 => dups = 0)
  BY <1>t, SetupStep, NetworkStep DEF Typed, TypeOK
<1>e. test["client"] = "ended" => test'["client"] = "ended"
  <2>1. "client" \in Sides
    BY DEF Sides
  <2>2. ClientStarts => test["client"] # "ended"
    BY DEF ClientStarts
  <2> QED BY <1>t, <2>1, <2>2, TestStep
<1>1. ASSUME ~params.reverse, test'["client"] = "ended", NEW i \in Streams PROVE snd'[i].pc = "off"
  <2>1. CASE ClientEnds
    <3>1. snd'[i] = Cancelled(snd[i])
      BY <1>1, <2>1 DEF ClientEnds, Sender
    <3> QED BY <1>t, <3>1 DEF Cancelled, SenderType
  <2>2. CASE ~ClientEnds
    <3>1. test["client"] = "ended" /\ \A k \in Streams : snd[k].pc = "off"
      BY <1>t, <1>1, <2>2, TestStep DEF Sides, ResultsFit
    <3>2. ~\E k \in Streams : SenderStep(k)
      BY <1>t, <3>1, SenderFields
    <3>3. snd' = snd \/ \E s \in Sides : OmitEnds(s)
      BY <1>t, <2>2, <3>2, OthersLeaveSenders
    <3> QED BY <1>t, <3>1, <3>3, OmitFields
  <2> QED BY <2>1, <2>2
<1>2. CASE SendResults("server")
  <2>1. /\ results' = [results EXCEPT !["server"] = OwnCounts("server")] /\ test["client"] = "ended"
        /\ UNCHANGED <<test, snd, rcv, params, dups>>
    BY <1>2 DEF SendResults, networkVars
  <2>2. results'["server"] = OwnCounts("server")
    BY <1>t, <2>1 DEF Sides
  <2>3. ASSUME dups = 0, NEW i \in Streams PROVE FitOf(i)'
    <3>1. Once(i) /\ snd[i].count \in Nat /\ written[i] <= snd[i].count
          /\ rcv[i].max \in Nat /\ rcv[i].seq \in Nat /\ written[i] \in Nat
      <4>1. Once(i)
        BY <2>3 DEF Packets
      <4>2. rcv[i].max \in Nat /\ rcv[i].seq \in Nat
        BY <1>t DEF ReceiverType
      <4> QED BY <4>1, <4>2, CountIsWritten
    <3>2. CASE params.reverse
      <4>1. results'["server"][i].packets = snd[i].count
        BY <2>2, <3>2 DEF OwnCounts, Sender
      <4>2. rcv[i].max <= snd[i].count /\ (InHand(i) => rcv[i].seq <= snd[i].count)
        BY <3>1 DEF Once
      <4> QED BY <2>1, <3>1, <3>2, <4>1, <4>2 DEF FitOf, InHand
    <3>3. CASE ~params.reverse
      <4>1. /\ results'["server"][i].packets = rcv[i].max
            /\ results'["server"][i].omittedErrors = rcv[i].omittedErrors
            /\ results'["server"][i].errors = rcv[i].errors
            /\ results'["server"][i].bytes = rcv[i].bytes
        BY <2>2, <3>3 DEF OwnCounts, Sender
      <4>2. rcv[i].omittedErrors \in Nat /\ rcv[i].errors \in Nat /\ rcv[i].bytes \in Nat
        BY <1>t DEF ReceiverType
      <4>3. ~params.omit => rcv[i].omittedErrors = 0
        BY DEF Omissions
      <4>4. ~params.omit => rcv[i].errors + rcv[i].bytes <= snd[i].count + 1
        BY <2>3, Adds
      <4> QED BY <2>1, <3>1, <3>3, <4>1, <4>2, <4>3, <4>4 DEF FitOf
    <3> QED BY <3>2, <3>3
  <2> QED BY <1>1, <1>p, <2>1, <2>3 DEF ResultsFit, FitOf
<1>3. CASE ~SendResults("server")
  <2>1. results'["server"] = results["server"]
    <3>1. results' = results \/ SendResults("client")
      BY <1>3, ResultsStep DEF Sides
    <3> QED BY <1>t, <3>1 DEF SendResults, Sides
  <2>2. ASSUME results["server"] # NoResults, dups' = 0, NEW i \in Streams PROVE FitOf(i)'
    <3>1. FitOf(i) /\ test["client"] = "ended" /\ dups = 0
      BY <1>p, <2>2 DEF ResultsFit, FitOf
    <3>2. CASE params.reverse
      <4> DEFINE p == results["server"][i].packets
      <4>1. p \in Nat /\ rcv[i].max <= p /\ (InHand(i) => rcv[i].seq <= p)
        BY <3>1, <3>2 DEF FitOf
      <4> HIDE DEF p
      <4>2. rcv'[i].max <= p /\ (InHand(i)' => rcv'[i].seq <= p)
        <5>1. ASSUME NEW k \in Streams, k # i, ReceiverStep(k) PROVE rcv'[i] = rcv[i]
          BY <1>t, <5>1, ReadsFields, CountsGapFields, CountsPacketFields DEF ReceiverStep
        <5>2. CASE ~\E k \in Streams : ReceiverStep(k)
          BY <1>t, <4>1, <5>2, OthersLeaveReceivers DEF InHand
        <5>3. CASE Reads(i)
          <6>1. test[Receiver] # "running"
            BY <3>1, <3>2 DEF Receiver
          <6>2. rcv'[i].pc = "read" /\ rcv'[i].max = rcv[i].max
            BY <1>t, <5>3, <6>1, ReadsFields
          <6> QED BY <4>1, <6>2 DEF InHand
        <5>4. CASE CountsGap(i)
          BY <1>t, <4>1, <5>4, CountsGapFields DEF InHand
        <5>5. CASE CountsPacket(i)
          BY <1>t, <4>1, <5>5, CountsPacketFields DEF InHand
        <5> QED BY <4>1, <5>1, <5>2, <5>3, <5>4, <5>5 DEF ReceiverStep, InHand
      <4> QED BY <1>p, <2>1, <3>2, <4>1, <4>2 DEF FitOf, InHand, p
    <3>3. CASE ~params.reverse
      <4>1. \A k \in Streams : snd[k].pc = "off"
        BY <3>1, <3>3 DEF ResultsFit
      <4>2. ~(\E k \in Streams : SenderStep(k)) /\ ~ClientEnds
        BY <1>t, <3>1, <4>1, SenderFields DEF ClientEnds
      <4>3. snd' = snd \/ \E s \in Sides : OmitEnds(s)
        BY <1>t, <4>2, OthersLeaveSenders
      <4>4. snd'[i].count = snd[i].count
        BY <1>t, <4>3, OmitFields
      <4> QED BY <1>p, <2>1, <3>1, <3>3, <4>4 DEF FitOf
    <3> QED BY <3>2, <3>3
  <2>3. results["server"] # NoResults => test'["client"] = "ended"
    BY <1>e DEF ResultsFit
  <2> QED BY <1>1, <1>p, <2>1, <2>2, <2>3 DEF ResultsFit, FitOf
<1> QED BY <1>2, <1>3
-----------------------------------------------------------------------------
(* The theorems.                                                           *)

LEMMA Inductive == Spec => []IInv
<1>1. Init => IInv
  BY TypedInit, HandshakeInit, PacketsInit, LossesInit, OmissionsInit, ReceivedInit, ResultsFitInit
     DEF IInv
<1>2. IInv /\ [Next]_vars => IInv'
  <2> SUFFICES ASSUME IInv, [Next]_vars PROVE IInv'
    OBVIOUS
  <2> USE DEF IInv
  <2>1. Typed' /\ SenderCountsWhatItSends'
    BY TypedStep
  <2>2. Handshake'
    BY HandshakeStep
  <2>3. Packets'
    BY PacketsStep
  <2>4. Losses'
    BY LossesStep DEF Losses, LossesOf
  <2>5. Omissions'
    BY OmissionsStep
  <2>6. Received'
    <3>1. params' = params
      BY SetupStep DEF Typed, TypeOK, SetupPart
    <3> QED BY <3>1, ReceivedStep DEF Received, ReceivedOf
  <2>7. ResultsFit'
    BY ResultsFitStep
  <2> QED BY <2>1, <2>2, <2>3, <2>4, <2>5, <2>6, <2>7
<1> QED BY <1>1, <1>2, PTL DEF Spec

\* Every variable keeps its type; in particular no counter of packets, losses or omitted
\* ones goes below zero, though senders and receivers both take numbers back.
THEOREM TypeCorrect == Spec => []TypeOK
BY Inductive, PTL DEF IInv, Typed

\* However many streams there are and whatever the network repeats, the server's sockets
\* are paired with the client's one by one and in the client's order.
THEOREM StreamsPaired == Spec => []PairedStreams
BY Inductive, PTL DEF IInv, Handshake

LEMMA LossesAreExact == IInv => LossIsExact
<1> SUFFICES ASSUME IInv, NEW i \in Streams, rcv[i].pc = "read"
             PROVE  rcv[i].errors <= Missing(i) /\ (dups = 0 => rcv[i].errors = Missing(i))
  BY DEF LossIsExact
<1>1. Ahead(rcv[i]) = 0
  BY DEF Ahead
<1>2. rcv[i].max \in Nat
  BY DEF IInv, Typed, TypeOK, ReceiverType
<1>3. Missing(i) \in Int
  <2>1. Cardinality(Upto(got[i], rcv[i].max)) \in 0..rcv[i].max
    BY <1>2, UptoCounts
  <2> QED BY <1>2, <2>1 DEF Missing, Upto
<1> QED BY <1>1, <1>3 DEF IInv, Losses

\* Senders count what they send; a receiver's losses are those missing up to the highest
\* number, exactly so as long as nothing is duplicated, and never too high otherwise.
THEOREM ExactCounters == Spec => []CountersAreExact
<1>1. IInv => CountersAreExact
  BY LossesAreExact DEF IInv, Typed, CountersAreExact
<1> QED BY <1>1, Inductive, PTL

\* What the client prints adds up, for any test, at any point where the counters of either
\* side are read.
THEOREM ReportsAddUp == Spec => []ReportAddsUp
<1>1. ASSUME IInv, Reported, dups = 0, NEW i \in Streams
      PROVE  /\ Report(i).packets >= -1
             /\ ~params.omit => /\ Report(i).lost >= 0
                          /\ Report(i).lost + Report(i).received <= Report(i).packets + 1
  <2> USE DEF IInv
  <2>1. /\ rcv[i].max \in Nat /\ rcv[i].omitted \in Nat /\ rcv[i].errors \in Nat
        /\ rcv[i].omittedErrors \in Nat /\ rcv[i].bytes \in Nat /\ rcv[i].seq \in Nat
    BY <1>1 DEF Typed, TypeOK, ReceiverType
  <2>2. snd[i].omitted \in Nat /\ snd[i].count \in Nat /\ written[i] \in Nat /\ written[i] <= snd[i].count
    BY <1>1, CountIsWritten DEF Typed, TypeOK, SenderType
  <2>3. snd[i].omitted <= snd[i].count + 1 /\ rcv[i].omitted <= rcv[i].max
    BY <1>1, <2>2 DEF Omissions
  <2>4. FitOf(i)
    BY <1>1 DEF ResultsFit, FitOf, Reported, Sides
  <2>5. ~params.omit => snd[i].omitted = 0 /\ rcv[i].omitted = 0 /\ rcv[i].omittedErrors = 0
    BY <1>1 DEF Omissions
  <2> DEFINE r == results["server"][i]
             report == Report(i)
  <2>6. CASE params.reverse
    <3>1. /\ report.packets = (IF r.packets # 0 THEN r.packets ELSE rcv[i].max) - rcv[i].omitted
          /\ report.lost = rcv[i].errors - rcv[i].omittedErrors
          /\ report.received = rcv[i].bytes
      BY <2>6 DEF Report, Known, OwnCounts, Sender, Receiver
    <3>2. r.packets \in Nat /\ rcv[i].max <= r.packets /\ (InHand(i) => rcv[i].seq <= r.packets)
      BY <2>4, <2>6 DEF FitOf
    <3>3. ~params.omit => rcv[i].errors + rcv[i].bytes <= rcv[i].max + 1
                          \/ (InHand(i) /\ rcv[i].errors + rcv[i].bytes <= rcv[i].seq)
      BY <1>1, Adds
    <3>4. InHand(i) => rcv[i].seq >= 1
      BY <1>1, <2>2 DEF Packets, Once
    <3> HIDE DEF r, report
    <3>5. report.packets >= -1
      BY <2>1, <2>3, <3>1, <3>2
    <3>6. ~params.omit => report.lost >= 0 /\ report.lost + report.received <= report.packets + 1
      BY <2>1, <2>3, <2>5, <3>1, <3>2, <3>3, <3>4
    <3> QED BY <3>5, <3>6 DEF report
  <2>7. CASE ~params.reverse
    <3>1. /\ report.packets = (IF snd[i].count # 0 THEN snd[i].count ELSE r.packets) - snd[i].omitted
          /\ report.lost = r.errors - r.omittedErrors
          /\ report.received = r.bytes
      BY <2>7 DEF Report, Known, OwnCounts, Sender, Receiver
    <3>2. /\ r.packets \in Nat /\ r.omittedErrors \in Nat /\ r.errors \in Nat /\ r.bytes \in Nat
          /\ ~params.omit => r.omittedErrors = 0 /\ r.errors + r.bytes <= snd[i].count + 1
      BY <2>4, <2>7 DEF FitOf
    <3> HIDE DEF r, report
    <3>3. report.packets >= -1
      BY <2>2, <2>3, <3>1, <3>2
    <3>4. ~params.omit => report.lost >= 0 /\ report.lost + report.received <= report.packets + 1
      BY <2>2, <2>5, <3>1, <3>2
    <3> QED BY <3>3, <3>4 DEF report
  <2> QED BY <2>6, <2>7
<1>2. IInv => ReportAddsUp
  BY <1>1 DEF ReportAddsUp
<1> QED BY <1>2, Inductive, PTL
=============================================================================
