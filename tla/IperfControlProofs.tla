-------------------------- MODULE IperfControlProofs --------------------------
(***************************************************************************)
(* Proofs about IperfControl for every number of clients, of parallel      *)
(* streams and of tests.                                                   *)
(***************************************************************************)
EXTENDS IperfControl, SequenceTheorems, TLAPS

(* The inductive invariant.                                                *)

\* Types, by the groups of variables the actions leave alone.  That no client takes results
\* for a state is a matter of the order of messages (InOrder).
ClientMessages == {"params", "TEST_END", "results", "IPERF_DONE"}
Taken == {"zero", "TEST_END"} \cup Messages

ClientTypes ==
  /\ cpc \in [Clients -> {"off", "enter", "head", "select", "handle", "streams",
                          "results", "body", "ending", "exit"}]
  /\ cstate \in [Clients -> Taken \cup {"IPERF_DONE"}]
  /\ clast \in [Clients -> Taken]
  /\ cdone \in [Clients -> BOOLEAN]
  /\ created \in [Clients -> 0..NumStreams]
  /\ cworkers \in [Clients -> {"unstarted", "running", "ended"}]
  /\ csock \in [Clients -> {"none", "open", "closed", "broken"}]
  /\ cresult \in [Clients -> {"none", "ok", "error"}]

WorldTypes ==
  /\ disturbed \in Disturbances
  /\ alive \in [Clients -> BOOLEAN]
  /\ stopped \in [Clients -> BOOLEAN]

NetTypes ==
  /\ up \in [Clients -> Seq(ClientMessages)]
  /\ down \in [Clients -> Seq(Messages)]
  /\ sclosed \in [Clients -> BOOLEAN]
  /\ backlog \in Seq(Connections)

ServerTypes ==
  /\ spc \in {"off", "select", "params", "results", "leaving"}
  /\ sstate \in {"zero", "IPERF_START", "PARAM_EXCHANGE", "CREATE_STREAMS", "TEST_RUNNING",
                 "EXCHANGE_RESULTS", "DISPLAY_RESULTS", "IPERF_DONE", "SERVER_ERROR"}
  /\ sdone \in BOOLEAN
  /\ interrupted \in BOOLEAN
  /\ sctrl \in Connections \cup {NoConnection}
  /\ accepted \in Seq(Connections)
  /\ Len(accepted) <= NumStreams
  /\ tests \in 0..MaxTests
  /\ served \subseteq Clients

Types == ClientTypes /\ WorldTypes /\ NetTypes /\ ServerTypes

\* What the places of a client say of its state and of its socket.
Local ==
  \A i \in Clients :
    /\ cstate[i] \in {clast[i], "IPERF_DONE"}
    /\ cpc[i] \in {"off", "enter"} => csock[i] = "none"
    /\ csock[i] = "none" => cpc[i] \in {"off", "enter", "exit"}
    /\ cpc[i] = "streams" => clast[i] = "CREATE_STREAMS"
    /\ cpc[i] = "ending" => clast[i] = "TEST_RUNNING"
    /\ cpc[i] = "results" => clast[i] = "EXCHANGE_RESULTS"

\* What the places of the server say of the connection it serves.
Serving ==
  /\ spc = "off" => backlog = <<>>
  /\ spc \in {"params", "results"} => Busy
  /\ spc = "off" => ~Busy
  /\ spc = "params" \/ ~Busy => accepted = <<>>
  /\ sctrl.stream # 0 => spc = "params"
  /\ spc = "select" /\ sstate = "CREATE_STREAMS" => Busy /\ Len(accepted) < NumStreams
  /\ \A k \in DOMAIN accepted : accepted[k] = Connection(sctrl.from, k)

\* The control connection of a client is not there yet, in the backlog, with the server, or
\* closed by it.
PlacedAt(i) ==
  /\ csock[i] = "none" =>
       /\ \A n \in DOMAIN backlog : backlog[n].from # i
       /\ sctrl.from # i /\ ~sclosed[i]
       /\ clast[i] = "zero" /\ up[i] = <<>> /\ down[i] = <<>>
  /\ \A n \in DOMAIN backlog : backlog[n] = Connection(i, 0) =>
       clast[i] = "zero" /\ down[i] = <<>> /\ ~sclosed[i] /\ sctrl # Connection(i, 0)
  /\ sctrl = Connection(i, 0) => ~sclosed[i]
  /\ csock[i] # "none" /\ ~sclosed[i] =>
       sctrl = Connection(i, 0) \/ \E n \in DOMAIN backlog : backlog[n] = Connection(i, 0)

Placed == \A i \in Clients : PlacedAt(i)

\* PARAM_EXCHANGE is the first message to a client, which has created no stream.
Fresh ==
  \A i \in Clients :
    /\ clast[i] \in {"zero", "PARAM_EXCHANGE"} => created[i] = 0
    /\ \A k \in DOMAIN down[i] : down[i][k] = "PARAM_EXCHANGE" => k = 1 /\ clast[i] = "zero"

\* The backlog has the connections of a client in the order it made them.
Queued ==
  /\ \A m, n \in DOMAIN backlog :
       m < n /\ backlog[m].from = backlog[n].from => backlog[m].stream < backlog[n].stream
  /\ \A n \in DOMAIN backlog : backlog[n].stream <= created[backlog[n].from]

\* While streams are accepted, it has those not accepted yet.
Awaited ==
  spc = "select" /\ sstate = "CREATE_STREAMS" =>
    /\ \A n \in DOMAIN backlog : backlog[n].from = sctrl.from => backlog[n].stream > Len(accepted)
    /\ \A k \in Len(accepted) + 1..created[sctrl.from] :
         \E n \in DOMAIN backlog : backlog[n] = Connection(sctrl.from, k)

Early == {"zero", "PARAM_EXCHANGE", "CREATE_STREAMS"}

\* How far the server is with its client bounds what can have been said.
AnnouncedAt(i) ==
  /\ clast[i] = "zero" => \A k \in DOMAIN up[i] : up[i][k] = "IPERF_DONE"
  /\ sctrl = Connection(i, 0) =>
       /\ spc = "params" =>
            /\ clast[i] \in {"zero", "PARAM_EXCHANGE"}
            /\ \A k \in DOMAIN down[i] : down[i][k] = "PARAM_EXCHANGE"
       /\ Len(accepted) <= created[i]
       /\ Len(accepted) # NumStreams =>
            /\ spc # "results"
            /\ clast[i] \in Early
            /\ \A k \in DOMAIN down[i] : down[i][k] \in Early
            /\ \A k \in DOMAIN up[i] : up[i][k] \in {"params", "IPERF_DONE"}

Announced == \A i \in Clients : AnnouncedAt(i)

\* Who is told to display results has exchanged them.
SuccessAt(i) ==
  /\ clast[i] = "DISPLAY_RESULTS" => i \in served
  /\ \A k \in DOMAIN down[i] : down[i][k] = "DISPLAY_RESULTS" => i \in served
  /\ cstate[i] = "IPERF_DONE" /\ ~stopped[i] /\ cpc[i] # "exit" => i \in served
  /\ cresult[i] = "ok" /\ ~stopped[i] => i \in served

Success == \A i \in Clients : SuccessAt(i)

\* Client i has left the loop, or will without another look at its connection.
Past(i) == cpc[i] = "exit" \/ (cpc[i] \in {"body", "head"} /\ cstate[i] = "IPERF_DONE")

Follows(a, b) ==
  \/ b = "SERVER_ERROR"
  \/ a = "zero" /\ b \in {"PARAM_EXCHANGE", "ACCESS_DENIED"}
  \/ a = "PARAM_EXCHANGE" /\ b = "CREATE_STREAMS"
  \/ a = "CREATE_STREAMS" /\ b = "TEST_START"
  \/ a = "TEST_START" /\ b = "TEST_RUNNING"
  \/ a = "TEST_END" /\ b = "EXCHANGE_RESULTS"
  \/ a = "EXCHANGE_RESULTS" /\ b = "results"
  \/ a = "results" /\ b = "DISPLAY_RESULTS"

\* What client i has taken from its connection last, or sent: TEST_END.
Heard(i) ==
  IF clast[i] = "EXCHANGE_RESULTS" /\ cpc[i] \notin {"handle", "results"} THEN "results"
  ELSE clast[i]

\* The last of the messages q after h, and that they follow each other.
Last(h, q) == IF q = <<>> THEN h ELSE q[Len(q)]
Chain(h, q) == \A k \in DOMAIN q : Follows(IF k = 1 THEN h ELSE q[k - 1], q[k])

\* What was said last on the connection of client i.
Said(i) == Last(Heard(i), down[i])

\* Where the server is says what it has said last, and for which answer it waits.
Told(i) ==
  /\ \A k \in DOMAIN down[i] : down[i][k] \notin {"SERVER_ERROR", "ACCESS_DENIED"}
  /\ spc = "params" => Said(i) = "PARAM_EXCHANGE"
  /\ spc = "select" /\ sstate = "CREATE_STREAMS" => Said(i) = "CREATE_STREAMS"
  /\ spc = "results" => Said(i) = "EXCHANGE_RESULTS"
  /\ clast[i] = "zero" \/ (clast[i] = "PARAM_EXCHANGE" /\ cpc[i] = "handle") => spc = "params"
  /\ \/ clast[i] = "EXCHANGE_RESULTS" /\ cpc[i] = "handle"
     \/ \E k \in DOMAIN down[i] : down[i][k] = "EXCHANGE_RESULTS"
     => spc = "results"

\* The client speaks only when it is spoken to, and once.
Answers(i) ==
  \/ up[i] = <<>>
  \/ /\ down[i] = <<>>
     /\ \/ up[i] = <<"params">> /\ clast[i] = "PARAM_EXCHANGE" /\ cpc[i] # "handle"
        \/ up[i] = <<"TEST_END">> /\ clast[i] = "TEST_END"
        \/ up[i] = <<"results">> /\ cpc[i] = "results"

\* A client that listens and the server talk in turns.
InOrderAt(i) ==
  /\ clast[i] # "results"
  /\ \A k \in DOMAIN up[i] : up[i][k] = "IPERF_DONE" => Past(i)
  /\ ~Past(i) => Chain(Heard(i), down[i]) /\ (sctrl = Connection(i, 0) => Told(i) /\ Answers(i))

InOrder == \A i \in Clients : InOrderAt(i)

IInv ==
  /\ Types /\ Local /\ Serving /\ Placed /\ Fresh /\ Queued /\ Awaited /\ Announced
  /\ Success /\ InOrder
-----------------------------------------------------------------------------
(* Queues of messages and connections.                                     *)

\* Sending puts a message at the end of one queue.
LEMMA Sends ==
  ASSUME NEW S, NEW q \in [Clients -> Seq(S)], NEW i \in Clients, NEW m \in S
  PROVE  /\ Sent(q, i, m) \in [Clients -> Seq(S)]
         /\ Sent(q, i, m)[i] = Append(q[i], m)
         /\ \A j \in Clients \ {i} : Sent(q, i, m)[j] = q[j]
BY DEF Sent

\* Sending to somebody who is no client goes nowhere.
LEMMA SendsNobody ==
  ASSUME NEW S, NEW q \in [Clients -> Seq(S)], NEW i, i \notin Clients, NEW m
  PROVE  Sent(q, i, m) = q
BY DEF Sent

LEMMA Receives ==
  ASSUME NEW S, NEW q \in [Clients -> Seq(S)], NEW i \in Clients, q[i] # <<>>
  PROVE  /\ Put(q, i, Tail(q[i])) \in [Clients -> Seq(S)]
         /\ Head(q[i]) \in S
BY DEF Put

\* The places of a queue after Append and after Tail.
LEMMA Longer ==
  ASSUME NEW S, NEW s \in Seq(S), NEW e \in S
  PROVE  /\ Append(s, e) \in Seq(S) /\ Len(Append(s, e)) = Len(s) + 1
         /\ \A k \in DOMAIN s : k \in DOMAIN Append(s, e) /\ Append(s, e)[k] = s[k]
         /\ Len(s) + 1 \in DOMAIN Append(s, e) /\ Append(s, e)[Len(s) + 1] = e
         /\ \A k \in DOMAIN Append(s, e) : k \in DOMAIN s \/ k = Len(s) + 1
OBVIOUS

LEMMA Shorter ==
  ASSUME NEW S, NEW s \in Seq(S), s # <<>>
  PROVE  /\ Tail(s) \in Seq(S) /\ Len(Tail(s)) = Len(s) - 1
         /\ 1 \in DOMAIN s /\ Head(s) = s[1] /\ Head(s) \in S
         /\ \A k \in DOMAIN Tail(s) : k + 1 \in DOMAIN s /\ Tail(s)[k] = s[k + 1]
         /\ \A k \in DOMAIN s : k = 1 \/ (k - 1 \in DOMAIN Tail(s) /\ Tail(s)[k - 1] = s[k])
<1>1. /\ Tail(s) \in Seq(S) /\ Len(Tail(s)) = Len(s) - 1 /\ Head(s) \in S
      /\ \A i \in 1..Len(Tail(s)) : Tail(s)[i] = s[i + 1]
  BY HeadTailProperties
<1>2. Len(s) \in Nat /\ Len(s) >= 1 /\ DOMAIN s = 1..Len(s) /\ DOMAIN Tail(s) = 1..Len(Tail(s))
  BY <1>1, EmptySeq, LenProperties
<1>3. Head(s) = s[1]
  OBVIOUS
<1> QED BY <1>1, <1>2, <1>3

LEMMA Empty ==
  /\ \A S : <<>> \in Seq(S)
  /\ Len(<<>>) = 0 /\ DOMAIN <<>> = {}
OBVIOUS
-----------------------------------------------------------------------------
(* Types.                                                                  *)

LEMMA TypeInit == Init => Types
<1> SUFFICES ASSUME Init PROVE Types
  OBVIOUS
<1>1. ClientTypes /\ WorldTypes
  BY NumStreamsAssumption DEF Init, ClientTypes, WorldTypes, Taken
<1>2. NetTypes
  BY Empty DEF Init, NetTypes
<1>3. ServerTypes
  <2>1. accepted \in Seq(Connections) /\ Len(accepted) <= NumStreams
    BY Empty, NumStreamsAssumption DEF Init
  <2>2. tests \in 0..MaxTests
    BY MaxTestsAssumption DEF Init
  <2> QED BY <2>1, <2>2 DEF Init, ServerTypes
<1> QED BY <1>1, <1>2, <1>3 DEF Types

\* What goes on at a server does not touch the clients, and the other way round.
LEMMA Kept ==
  /\ ClientTypes /\ UNCHANGED clientVars => ClientTypes'
  /\ WorldTypes /\ UNCHANGED worldVars => WorldTypes'
  /\ NetTypes /\ UNCHANGED netVars => NetTypes'
  /\ ServerTypes /\ UNCHANGED serverVars => ServerTypes'
BY DEF ClientTypes, WorldTypes, NetTypes, ServerTypes, clientVars, worldVars, netVars, serverVars

\* What iperf_client_end leaves.
LEMMA ClientEndType ==
  ASSUME ClientTypes, NetTypes, NEW i \in Clients, ClientEnd(i)
  PROVE  /\ cstate' \in [Clients -> Taken \cup {"IPERF_DONE"}]
         /\ csock' \in [Clients -> {"none", "open", "closed", "broken"}]
         /\ up' \in [Clients -> Seq(ClientMessages)]
<1>1. up \in [Clients -> Seq(ClientMessages)] /\ "IPERF_DONE" \in ClientMessages
  BY DEF NetTypes, ClientMessages
<1>2. up' \in [Clients -> Seq(ClientMessages)]
  BY <1>1, Sends DEF ClientEnd
<1> QED BY <1>2 DEF ClientEnd, ClientTypes, Put

LEMMA ClientFailType ==
  ASSUME ClientTypes, NetTypes, NEW i \in Clients, ClientFail(i)
  PROVE  ClientTypes' /\ NetTypes'
<1>1. ClientEnd(i)
  BY DEF ClientFail
<1>2. ClientTypes'
  BY <1>1, ClientEndType DEF ClientFail, ClientTypes, Goes, Put
<1>3. NetTypes'
  BY <1>1, ClientEndType DEF ClientFail, NetTypes
<1> QED BY <1>2, <1>3

LEMMA ClientHandleType ==
  ASSUME ClientTypes, NetTypes, NEW i \in Clients, ClientHandle(i)
  PROVE  ClientTypes' /\ NetTypes'
<1>1. CASE ClientFail(i)
  BY <1>1, ClientFailType
<1>2. CASE ~ClientFail(i)
  <2>1. ClientTypes'
    BY <1>2, ClientEndType DEF ClientHandle, ClientGivesUp, ClientTypes, Goes, Put
  <2>2. up' \in [Clients -> Seq(ClientMessages)]
    <3>1. up \in [Clients -> Seq(ClientMessages)] /\ {"params", "results"} \subseteq ClientMessages
      BY DEF NetTypes, ClientMessages
    <3>2. /\ Sent(up, i, "params") \in [Clients -> Seq(ClientMessages)]
          /\ Sent(up, i, "results") \in [Clients -> Seq(ClientMessages)]
      BY <3>1, Sends
    <3> QED BY <1>2, <3>1, <3>2, ClientEndType DEF ClientHandle, ClientGivesUp, netVars
  <2>3. NetTypes'
    BY <1>2, <2>2 DEF ClientHandle, ClientGivesUp, NetTypes, netVars
  <2> QED BY <2>1, <2>3
<1> QED BY <1>1, <1>2

\* Every step of a client keeps the types: the server's variables do not change.
LEMMA ClientTypeStep ==
  ASSUME Types, NEW i \in Clients, ClientStep(i) \/ ClientStops(i) \/ ClientVanishes(i)
  PROVE  Types'
<1>t. ClientTypes /\ WorldTypes /\ NetTypes /\ ServerTypes
  BY DEF Types
<1>f. ASSUME ClientFail(i) PROVE Types'
  <2>1. UNCHANGED <<worldVars, serverVars>>
    BY <1>f DEF ClientFail
  <2> QED BY <1>t, <1>f, <2>1, ClientFailType, Kept DEF Types
<1>c. \A k \in 0..NumStreams : Connection(i, k) \in Connections
  BY DEF Connection, Connections
<1>1. CASE ClientStarts(i) \/ ClientLoops(i) \/ ClientLeaves(i) \/ ClientWakes(i)
  <2>1. ClientTypes'
    BY <1>t, <1>1
       DEF ClientStarts, ClientLoops, ClientLeaves, ClientWakes, ClientTypes, Goes, Put
  <2>2. UNCHANGED <<worldVars, netVars, serverVars>>
    BY <1>1 DEF ClientStarts, ClientLoops, ClientLeaves, ClientWakes
  <2> QED BY <1>t, <2>1, <2>2, Kept DEF Types
<1>2. CASE ClientConnect(i) /\ ~ClientFail(i)
  <2>1. ClientTypes'
    BY <1>t, <1>2 DEF ClientConnect, ClientGivesUp, ClientTypes, Goes, Put
  <2>2. /\ UNCHANGED <<up, down, sclosed, worldVars, serverVars>>
        /\ backlog' = Append(backlog, Connection(i, 0))
    BY <1>2 DEF ClientConnect, ClientGivesUp
  <2>3. NetTypes'
    BY <1>t, <1>c, <2>2, Longer, NumStreamsAssumption DEF NetTypes
  <2> QED BY <1>t, <2>1, <2>2, <2>3, Kept DEF Types
<1>3. CASE ClientRead(i)
  <2>1. down' \in [Clients -> Seq(Messages)] /\ Head(down[i]) \in Messages
    BY <1>t, <1>3, Receives DEF ClientRead, NetTypes
  <2>2. ClientTypes'
    BY <1>t, <1>3, <2>1 DEF ClientRead, ClientTypes, Goes, Put, Taken
  <2>3. NetTypes' /\ UNCHANGED <<worldVars, serverVars>>
    BY <1>t, <1>3, <2>1 DEF ClientRead, NetTypes
  <2> QED BY <1>t, <2>2, <2>3, Kept DEF Types
<1>4. CASE ClientHandle(i) /\ ~ClientFail(i)
  <2>1. UNCHANGED <<worldVars, serverVars>>
    BY <1>4 DEF ClientHandle, ClientGivesUp
  <2> QED BY <1>t, <1>4, <2>1, ClientHandleType, Kept DEF Types
<1>5. CASE ClientCreatesStream(i) /\ ~ClientFail(i)
  <2>1. ClientTypes'
    <3>1. created' \in [Clients -> 0..NumStreams]
      <4>1. created[i] < NumStreams => created[i] + 1 \in 0..NumStreams
        BY <1>t, NumStreamsAssumption DEF ClientTypes
      <4> QED BY <1>t, <1>5, <4>1 DEF ClientCreatesStream, ClientGivesUp, ClientTypes, Put
    <3> QED BY <1>t, <1>5, <3>1 DEF ClientCreatesStream, ClientGivesUp, ClientTypes, Goes, Put
  <2>2. CASE created[i] < NumStreams /\ backlog' = Append(backlog, Connection(i, created[i] + 1))
    <3>1. created[i] + 1 \in 0..NumStreams
      BY <1>t, <2>2, NumStreamsAssumption DEF ClientTypes
    <3>2. backlog' \in Seq(Connections)
      BY <1>t, <1>c, <2>2, <3>1, Longer DEF NetTypes
    <3> QED BY <1>t, <1>5, <2>1, <3>2, Kept
            DEF ClientCreatesStream, ClientGivesUp, NetTypes, Types, netVars
  <2>3. CASE UNCHANGED netVars
    BY <1>t, <1>5, <2>1, <2>3, Kept DEF ClientCreatesStream, ClientGivesUp, Types
  <2> QED BY <1>5, <2>2, <2>3 DEF ClientCreatesStream, ClientGivesUp
<1>6. CASE ClientGetsResults(i) /\ ~ClientFail(i)
  <2>1. ClientTypes'
    BY <1>t, <1>6 DEF ClientGetsResults, ClientGivesUp, ClientTypes, Goes, Put
  <2>2. NetTypes'
    BY <1>t, <1>6, Receives DEF ClientGetsResults, ClientGivesUp, NetTypes
  <2> QED BY <1>t, <1>6, <2>1, <2>2, Kept DEF ClientGetsResults, ClientGivesUp, Types
<1>7. CASE ClientBody(i)
  <2>1. ClientTypes'
    <3>1. cdone' \in [Clients -> BOOLEAN]
      BY <1>t, <1>7 DEF ClientBody, ClientTypes, Put
    <3>2. cpc' \in [Clients -> {"off", "enter", "head", "select", "handle", "streams",
                               "results", "body", "ending", "exit"}]
      <4>1. cpc' = Put(cpc, i, "head") \/ cpc' = Put(cpc, i, "ending")
        BY <1>7 DEF ClientBody, Goes
      <4> QED BY <1>t, <4>1 DEF ClientTypes, Put
    <3>3. cworkers' \in [Clients -> {"unstarted", "running", "ended"}]
      BY <1>t, <1>7 DEF ClientBody, ClientTypes, Put
    <3> QED BY <1>t, <1>7, <3>1, <3>2, <3>3 DEF ClientBody, ClientTypes
  <2> QED BY <1>t, <1>7, <2>1, Kept DEF ClientBody, Types
<1>8. CASE ClientSendsTestEnd(i) /\ ~ClientFail(i)
  <2>1. ClientTypes'
    BY <1>t, <1>8 DEF ClientSendsTestEnd, ClientGivesUp, ClientTypes, Goes, Put, Taken
  <2>2. up' \in [Clients -> Seq(ClientMessages)]
    <3>1. up \in [Clients -> Seq(ClientMessages)] /\ "TEST_END" \in ClientMessages
      BY <1>t DEF NetTypes, ClientMessages
    <3>2. Sent(up, i, "TEST_END") \in [Clients -> Seq(ClientMessages)]
      BY <3>1, Sends
    <3> QED BY <1>8, <3>2 DEF ClientSendsTestEnd, ClientGivesUp
  <2>3. NetTypes'
    BY <1>t, <1>8, <2>2 DEF ClientSendsTestEnd, ClientGivesUp, NetTypes
  <2> QED BY <1>t, <1>8, <2>1, <2>3, Kept DEF ClientSendsTestEnd, ClientGivesUp, Types
<1>9. CASE ClientStops(i)
  <2>1. ClientTypes' /\ WorldTypes'
    BY <1>t, <1>9 DEF ClientStops, ClientTypes, WorldTypes, Put
  <2> QED BY <1>t, <1>9, <2>1, Kept DEF ClientStops, Types
<1>10. CASE ClientVanishes(i)
  BY <1>t, <1>10, Kept DEF ClientVanishes, WorldTypes, Put, Types
<1>11. CASE ClientLoses(i)
  BY <1>11, <1>f DEF ClientLoses
<1> QED
  BY <1>f, <1>1, <1>2, <1>3, <1>4, <1>5, <1>6, <1>7, <1>8, <1>9, <1>10, <1>11 DEF ClientStep

\* What the server says reaches the control connection of a client, or nobody.
LEMMA TellsType ==
  ASSUME NetTypes, NEW m \in Messages, Tells(m)
  PROVE  down' \in [Clients -> Seq(Messages)]
<1>1. CASE sctrl.stream = 0 /\ sctrl.from \in Clients
  BY <1>1, Sends DEF NetTypes, Tells
<1>2. CASE sctrl.stream = 0 /\ sctrl.from \notin Clients
  BY <1>2, SendsNobody DEF NetTypes, Tells
<1>3. CASE sctrl.stream # 0
  BY <1>3 DEF NetTypes, Tells
<1> QED BY <1>1, <1>2, <1>3

LEMMA CleanupType ==
  ASSUME Types, CleanupServer
  PROVE  Types'
<1>t. ClientTypes /\ WorldTypes /\ NetTypes /\ ServerTypes
  BY DEF Types
<1>1. down' \in [Clients -> Seq(Messages)]
  BY <1>t, TellsType DEF CleanupServer, NetTypes, Messages
<1>2. NetTypes'
  BY <1>t, <1>1, Empty DEF CleanupServer, NetTypes
<1>3. ServerTypes'
  BY <1>t, Empty, NumStreamsAssumption DEF CleanupServer, ServerTypes
<1> QED BY <1>t, <1>2, <1>3, Kept DEF CleanupServer, Types

\* A connection is turned away.
LEMMA DeniedType ==
  ASSUME NetTypes, backlog # <<>>, Denied(Head(backlog)), UNCHANGED up
  PROVE  NetTypes'
<1>1. backlog' \in Seq(Connections) /\ Head(backlog) \in Connections
  BY Shorter DEF Denied, NetTypes
<1>2. down' \in [Clients -> Seq(Messages)]
  BY <1>1, Sends DEF Denied, NetTypes, Connections, Messages
<1>3. sclosed' \in [Clients -> BOOLEAN]
  BY DEF Denied, NetTypes, Put
<1> QED BY <1>1, <1>2, <1>3 DEF NetTypes

LEMMA TwoSends ==
  ASSUME NEW q \in [Clients -> Seq(Messages)], NEW i, NEW m \in Messages, NEW n \in Messages
  PROVE  [q EXCEPT ![i] = @ \o <<m, n>>] \in [Clients -> Seq(Messages)]
<1>1. i \in Clients => q[i] \o <<m, n>> \in Seq(Messages)
  OBVIOUS
<1> QED BY <1>1

LEMMA ServerTypeStep ==
  ASSUME Types, Serving, ServerStep \/ ServerStarts \/ ServerStops
  PROVE  Types'
<1>t. ClientTypes /\ WorldTypes /\ NetTypes /\ ServerTypes
  BY DEF Types
<1>f. CASE CleanupServer
  BY <1>f, CleanupType
<1>m. {"PARAM_EXCHANGE", "CREATE_STREAMS", "TEST_START", "TEST_RUNNING", "EXCHANGE_RESULTS",
       "results", "DISPLAY_RESULTS", "SERVER_ERROR"} \subseteq Messages
  BY DEF Messages
<1>g. ASSUME NEW m, Gets(m), Takes PROVE up' \in [Clients -> Seq(ClientMessages)]
  <2>1. CASE sctrl.from \in Clients
    BY <1>t, <1>g, <2>1, Receives DEF Gets, Takes, NetTypes
  <2>2. CASE sctrl.from \notin Clients
    BY <1>t, <1>g, <2>2 DEF Takes, Put, NetTypes
  <2> QED BY <2>1, <2>2
<1>b. ASSUME NEW m \in Messages, NEW n \in Messages,
             down' = [down EXCEPT ![sctrl.from] = @ \o <<m, n>>]
      PROVE  down' \in [Clients -> Seq(Messages)]
  BY <1>t, <1>b, TwoSends DEF NetTypes
<1>1. CASE ServerLeaves \/ ServerEnds \/ ServerTimesOut
  BY <1>1, <1>f DEF ServerLeaves, ServerEnds, ServerTimesOut
<1>2. CASE ServerAccepts /\ ~CleanupServer
  <2>1. backlog' \in Seq(Connections) /\ sctrl' \in Connections
    <3>1. backlog # <<>> /\ backlog' = Tail(backlog) /\ sctrl' = Head(backlog)
      BY <1>2 DEF ServerAccepts, ServerGivesUp
    <3>2. backlog \in Seq(Connections) BY <1>t DEF NetTypes
    <3> QED BY <3>1, <3>2, Shorter
  <2>2. down' \in [Clients -> Seq(Messages)]
    <3>1. sctrl'.from \in Clients
      BY <2>1 DEF Connections
    <3>2. Sent(down, sctrl'.from, "PARAM_EXCHANGE") \in [Clients -> Seq(Messages)]
      BY <1>t, <1>m, <3>1, Sends DEF NetTypes
    <3> QED BY <1>t, <1>2, <3>2 DEF ServerAccepts, ServerGivesUp, NetTypes
  <2>3. NetTypes' /\ ServerTypes'
    BY <1>t, <1>2, <2>1, <2>2 DEF ServerAccepts, ServerGivesUp, NetTypes, ServerTypes
  <2> QED BY <1>t, <1>2, <2>3, Kept DEF ServerAccepts, ServerGivesUp, Types
<1>3. CASE ServerGetsParams /\ ~CleanupServer
  <2>1. up' \in [Clients -> Seq(ClientMessages)]
    BY <1>3, <1>g DEF ServerGetsParams, ServerGivesUp
  <2>2. down' \in [Clients -> Seq(Messages)]
    BY <1>t, <1>3, <1>m, TellsType DEF ServerGetsParams, ServerGivesUp
  <2>3. NetTypes' /\ ServerTypes'
    BY <1>t, <1>3, <2>1, <2>2 DEF ServerGetsParams, ServerGivesUp, NetTypes, ServerTypes
  <2> QED BY <1>t, <1>3, <2>3, Kept DEF ServerGetsParams, ServerGivesUp, Types
<1>4. CASE ServerDenies
  <2>1. NetTypes'
    BY <1>t, <1>4, DeniedType DEF ServerDenies
  <2>2. ServerTypes'
    BY <1>t, <1>4 DEF ServerDenies, ServerTypes
  <2> QED BY <1>t, <1>4, <2>1, <2>2, Kept DEF ServerDenies, Types
<1>5. CASE ServerAcceptsStream /\ ~CleanupServer
  <2>1. backlog' \in Seq(Connections) /\ Head(backlog) \in Connections
    BY <1>t, <1>5, Shorter DEF ServerAcceptsStream, ServerGivesUp, NetTypes
  <2>2. accepted' \in Seq(Connections) /\ Len(accepted') <= NumStreams
    <3>1. Len(accepted) < NumStreams
      BY <1>5 DEF ServerAcceptsStream, Serving
    <3>2. accepted' = Append(accepted, Head(backlog))
      BY <1>5 DEF ServerAcceptsStream, ServerGivesUp
    <3>3. accepted' \in Seq(Connections) /\ Len(accepted') = Len(accepted) + 1
      BY <1>t, <2>1, <3>2, Longer DEF ServerTypes
    <3> QED BY <1>t, <3>1, <3>3, LenProperties, NumStreamsAssumption DEF ServerTypes
  <2>3. down' \in [Clients -> Seq(Messages)] /\ sstate' \in {sstate, "TEST_RUNNING"}
        /\ sdone' \in BOOLEAN
    BY <1>t, <1>5, <1>m, <1>b DEF ServerAcceptsStream, ServerGivesUp, StartsTest, NetTypes, ServerTypes
  <2>4. NetTypes'
    BY <1>t, <1>5, <2>1, <2>3 DEF ServerAcceptsStream, ServerGivesUp, NetTypes
  <2>5. ServerTypes'
    BY <1>t, <1>5, <2>2, <2>3 DEF ServerAcceptsStream, ServerGivesUp, ServerTypes
  <2> QED BY <1>t, <1>5, <2>4, <2>5, Kept DEF ServerAcceptsStream, ServerGivesUp, Types
<1>6. CASE ServerDeniesStream /\ ~CleanupServer
  <2>1. NetTypes'
    BY <1>t, <1>6, DeniedType DEF ServerDeniesStream
  <2> QED BY <1>t, <1>6, <2>1, Kept DEF ServerDeniesStream, Types
<1>7. CASE ServerReads
  <2>1. up' \in [Clients -> Seq(ClientMessages)]
    BY <1>7, <1>g DEF ServerReads
  <2>2. down' \in [Clients -> Seq(Messages)]
    BY <1>t, <1>7, <1>m, TellsType DEF ServerReads
  <2>3. NetTypes' /\ ServerTypes'
    BY <1>t, <1>7, <2>1, <2>2 DEF ServerReads, NetTypes, ServerTypes
  <2> QED BY <1>t, <1>7, <2>3, Kept DEF ServerReads, Types
<1>8. CASE ServerExchangesResults /\ ~CleanupServer
  <2>1. up' \in [Clients -> Seq(ClientMessages)]
    BY <1>8, <1>g DEF ServerExchangesResults, ServerGivesUp
  <2>2. down' \in [Clients -> Seq(Messages)]
    BY <1>8, <1>m, <1>b DEF ServerExchangesResults, ServerGivesUp
  <2>3. served' \subseteq Clients
    BY <1>t, <1>8 DEF ServerExchangesResults, ServerGivesUp, Serving, Busy, ServerTypes, Connections
  <2>4. NetTypes' /\ ServerTypes'
    BY <1>t, <1>8, <2>1, <2>2, <2>3
       DEF ServerExchangesResults, ServerGivesUp, NetTypes, ServerTypes
  <2> QED BY <1>t, <1>8, <2>4, Kept DEF ServerExchangesResults, ServerGivesUp, Types
<1>9. CASE ServerExpires
  <2>1. down' \in [Clients -> Seq(Messages)]
    BY <1>t, <1>9, <1>m, TellsType DEF ServerExpires
  <2>2. NetTypes'
    BY <1>t, <1>9, <2>1 DEF ServerExpires, NetTypes, Put
  <2>3. ServerTypes'
    BY <1>t, <1>9, Empty, NumStreamsAssumption DEF ServerExpires, ServerTypes
  <2> QED BY <1>t, <1>9, <2>2, <2>3, Kept DEF ServerExpires, Types
<1>10. CASE ServerStarts
  <2>1. tests' \in 0..MaxTests
    BY <1>t, <1>10, MaxTestsAssumption DEF ServerStarts, ServerTypes
  <2> QED BY <1>t, <1>10, <2>1, Kept DEF ServerStarts, ServerTypes, Types
<1>11. CASE ServerStops
  BY <1>t, <1>11, Kept DEF ServerStops, ServerTypes, Types
<1> QED
  BY <1>f, <1>1, <1>2, <1>3, <1>4, <1>5, <1>6, <1>7, <1>8, <1>9, <1>10, <1>11 DEF ServerStep

LEMMA TypeStep == Types /\ Serving /\ [Next]_vars => Types'
<1> SUFFICES ASSUME Types, Serving, [Next]_vars PROVE Types'
  OBVIOUS
<1>1. CASE UNCHANGED vars
  BY <1>1, Kept DEF vars, Types
<1> QED BY <1>1, ClientTypeStep, ServerTypeStep DEF Next
-----------------------------------------------------------------------------
(* What a step of a client does to the others, to the backlog and to its   *)
(* control connection.                                                     *)

\* It touches no variable of the server, and of the other clients none.
LEMMA ClientFrame ==
  ASSUME Types, NEW i \in Clients, ClientStep(i) \/ ClientStops(i) \/ ClientVanishes(i)
  PROVE  /\ UNCHANGED <<disturbed, sclosed, serverVars>>
         /\ \A j \in Clients \ {i} :
              /\ cpc'[j] = cpc[j] /\ cstate'[j] = cstate[j] /\ clast'[j] = clast[j]
              /\ cdone'[j] = cdone[j] /\ created'[j] = created[j] /\ cworkers'[j] = cworkers[j]
              /\ csock'[j] = csock[j] /\ cresult'[j] = cresult[j]
              /\ up'[j] = up[j] /\ down'[j] = down[j] /\ stopped'[j] = stopped[j]
<1>t. ClientTypes /\ WorldTypes /\ NetTypes
  BY DEF Types
<1> USE DEF Goes, Put, worldVars, netVars, clientVars
<1>f. CASE ClientFail(i)
  <2>1. /\ UNCHANGED <<cdone, clast, created, down, stopped, disturbed, sclosed, serverVars>>
        /\ \A j \in Clients \ {i} : cpc'[j] = cpc[j] /\ cworkers'[j] = cworkers[j] /\ cresult'[j] = cresult[j]
    BY <1>t, <1>f DEF ClientFail, ClientTypes
  <2>2. \A j \in Clients \ {i} : cstate'[j] = cstate[j] /\ csock'[j] = csock[j] /\ up'[j] = up[j]
    BY <1>t, <1>f DEF ClientFail, ClientEnd, ClientTypes, NetTypes, Sent
  <2> QED BY <2>1, <2>2
<1>1. CASE ClientStarts(i) \/ ClientLoops(i) \/ ClientLeaves(i) \/ ClientWakes(i)
  BY <1>t, <1>1 DEF ClientStarts, ClientLoops, ClientLeaves, ClientWakes, ClientTypes
<1>2. CASE ClientConnect(i) /\ ~ClientFail(i)
  BY <1>t, <1>2 DEF ClientConnect, ClientGivesUp, ClientTypes
<1>3. CASE ClientRead(i)
  BY <1>t, <1>3 DEF ClientRead, ClientTypes, NetTypes
<1>4. CASE ClientHandle(i) /\ ~ClientFail(i)
  <2>1. /\ UNCHANGED <<disturbed, sclosed, serverVars, stopped, clast, created, cresult, down, cworkers>>
        /\ \A j \in Clients \ {i} : cpc'[j] = cpc[j] /\ cdone'[j] = cdone[j]
    BY <1>t, <1>4 DEF ClientHandle, ClientGivesUp, ClientTypes
  <2>2. \A j \in Clients \ {i} : cstate'[j] = cstate[j] /\ csock'[j] = csock[j] /\ up'[j] = up[j]
    BY <1>t, <1>4 DEF ClientHandle, ClientGivesUp, ClientEnd, ClientTypes, NetTypes, Sent
  <2> QED BY <2>1, <2>2
<1>5. CASE ClientCreatesStream(i) /\ ~ClientFail(i)
  BY <1>t, <1>5 DEF ClientCreatesStream, ClientGivesUp, ClientTypes
<1>6. CASE ClientGetsResults(i) /\ ~ClientFail(i)
  BY <1>t, <1>6 DEF ClientGetsResults, ClientGivesUp, ClientTypes, NetTypes
<1>7. CASE ClientBody(i)
  BY <1>t, <1>7 DEF ClientBody, ClientTypes
<1>8. CASE ClientSendsTestEnd(i) /\ ~ClientFail(i)
  BY <1>t, <1>8 DEF ClientSendsTestEnd, ClientGivesUp, ClientTypes, NetTypes, Sent
<1>9. CASE ClientStops(i)
  BY <1>t, <1>9 DEF ClientStops, ClientTypes, WorldTypes
<1>10. CASE ClientVanishes(i)
  BY <1>10 DEF ClientVanishes
<1> QED
  BY <1>f, <1>1, <1>2, <1>3, <1>4, <1>5, <1>6, <1>7, <1>8, <1>9, <1>10 DEF ClientStep, ClientLoses

\* It connects when the server listens, and numbers the connections of its streams.
LEMMA ClientConnects ==
  ASSUME Types, Local, NEW i \in Clients, ClientStep(i) \/ ClientStops(i) \/ ClientVanishes(i)
  PROVE  \/ /\ UNCHANGED backlog
            /\ created'[i] = created[i] /\ (csock'[i] = "none" <=> csock[i] = "none")
         \/ /\ spc # "off" /\ csock[i] = "none" /\ csock'[i] # "none"
            /\ backlog' = Append(backlog, Connection(i, 0))
            /\ created'[i] = created[i] /\ clast'[i] = clast[i]
            /\ up'[i] = up[i] /\ down'[i] = down[i]
         \/ /\ spc # "off" /\ csock[i] # "none" /\ csock'[i] # "none"
            /\ clast[i] = "CREATE_STREAMS" /\ created[i] < NumStreams
            /\ backlog' = Append(backlog, Connection(i, created[i] + 1))
            /\ created'[i] = created[i] + 1 /\ clast'[i] = clast[i]
            /\ up'[i] = up[i] /\ down'[i] = down[i]
<1>t. ClientTypes /\ WorldTypes /\ NetTypes
  BY DEF Types
<1> USE DEF Goes, Put, netVars
<1>f. CASE ClientFail(i)
  BY <1>t, <1>f DEF ClientFail, ClientEnd, ClientTypes
<1>1. CASE ClientStarts(i) \/ ClientLoops(i) \/ ClientLeaves(i) \/ ClientWakes(i)
  BY <1>1 DEF ClientStarts, ClientLoops, ClientLeaves, ClientWakes
<1>2. CASE ClientConnect(i) /\ ~ClientFail(i)
  BY <1>t, <1>2 DEF ClientConnect, ClientGivesUp, ClientTypes, Local, Listening
<1>3. CASE ClientRead(i)
  BY <1>3 DEF ClientRead
<1>4. CASE ClientHandle(i) /\ ~ClientFail(i)
  BY <1>t, <1>4 DEF ClientHandle, ClientGivesUp, ClientEnd, ClientTypes
<1>5. CASE ClientCreatesStream(i) /\ ~ClientFail(i)
  BY <1>t, <1>5 DEF ClientCreatesStream, ClientGivesUp, ClientTypes, Local, Listening
<1>6. CASE ClientGetsResults(i) /\ ~ClientFail(i)
  BY <1>6 DEF ClientGetsResults, ClientGivesUp
<1>7. CASE ClientBody(i)
  BY <1>7 DEF ClientBody
<1>8. CASE ClientSendsTestEnd(i) /\ ~ClientFail(i)
  BY <1>8 DEF ClientSendsTestEnd, ClientGivesUp
<1>9. CASE ClientStops(i)
  BY <1>9 DEF ClientStops
<1>10. CASE ClientVanishes(i)
  BY <1>10 DEF ClientVanishes, clientVars
<1> QED
  BY <1>f, <1>1, <1>2, <1>3, <1>4, <1>5, <1>6, <1>7, <1>8, <1>9, <1>10 DEF ClientStep, ClientLoses

\* It takes what comes first, and moves on by itself from TEST_RUNNING only.
LEMMA ClientTakes ==
  ASSUME Types, Local, NEW i \in Clients, ClientStep(i) \/ ClientStops(i) \/ ClientVanishes(i)
  PROVE  \/ clast'[i] = clast[i] /\ down'[i] = down[i]
         \/ /\ down[i] # <<>> /\ clast'[i] \in {clast[i], Head(down[i])}
            /\ down'[i] = Tail(down[i]) /\ up'[i] = up[i]
         \/ clast[i] = "TEST_RUNNING" /\ clast'[i] = "TEST_END" /\ down'[i] = down[i]
<1>t. ClientTypes /\ WorldTypes /\ NetTypes
  BY DEF Types
<1> USE DEF Goes, Put, netVars
<1>f. CASE ClientFail(i)
  BY <1>f DEF ClientFail
<1>1. CASE ClientStarts(i) \/ ClientLoops(i) \/ ClientLeaves(i) \/ ClientWakes(i)
  BY <1>1 DEF ClientStarts, ClientLoops, ClientLeaves, ClientWakes
<1>2. CASE ClientConnect(i) /\ ~ClientFail(i)
  BY <1>2 DEF ClientConnect, ClientGivesUp
<1>3. CASE ClientRead(i)
  BY <1>t, <1>3 DEF ClientRead, ClientTypes, NetTypes
<1>4. CASE ClientHandle(i) /\ ~ClientFail(i)
  BY <1>4 DEF ClientHandle, ClientGivesUp
<1>5. CASE ClientCreatesStream(i) /\ ~ClientFail(i)
  BY <1>5 DEF ClientCreatesStream, ClientGivesUp
<1>6. CASE ClientGetsResults(i) /\ ~ClientFail(i)
  BY <1>t, <1>6 DEF ClientGetsResults, ClientGivesUp, NetTypes
<1>7. CASE ClientBody(i)
  BY <1>7 DEF ClientBody
<1>8. CASE ClientSendsTestEnd(i) /\ ~ClientFail(i)
  BY <1>t, <1>8 DEF ClientSendsTestEnd, ClientGivesUp, ClientTypes, Local
<1>9. CASE ClientStops(i)
  BY <1>9 DEF ClientStops
<1>10. CASE ClientVanishes(i)
  BY <1>10 DEF ClientVanishes, clientVars
<1> QED
  BY <1>f, <1>1, <1>2, <1>3, <1>4, <1>5, <1>6, <1>7, <1>8, <1>9, <1>10 DEF ClientStep, ClientLoses

\* It says what the state it has read calls for, or IPERF_DONE.
LEMMA ClientSays ==
  ASSUME Types, Local, NEW i \in Clients, ClientStep(i) \/ ClientStops(i) \/ ClientVanishes(i)
  PROVE  \/ up'[i] = up[i]
         \/ \E m \in ClientMessages :
              /\ up'[i] = Append(up[i], m)
              /\ csock[i] # "none"
              /\ m = "params" => clast[i] = "PARAM_EXCHANGE"
              /\ m = "TEST_END" => clast[i] = "TEST_RUNNING"
              /\ m = "results" => clast[i] = "EXCHANGE_RESULTS"
<1>t. ClientTypes /\ WorldTypes /\ NetTypes
  BY DEF Types
<1> USE DEF Goes, Put, netVars
<1>s. \A m \in ClientMessages : Sent(up, i, m)[i] = Append(up[i], m)
  BY <1>t DEF NetTypes, Sent
<1> USE DEF ClientMessages
<1>e. ASSUME ClientEnd(i) PROVE up'[i] = up[i] \/ (up'[i] = Append(up[i], "IPERF_DONE") /\ csock[i] # "none")
  BY <1>s, <1>e DEF ClientEnd
<1>f. CASE ClientFail(i)
  BY <1>f, <1>e DEF ClientFail
<1>1. CASE ClientStarts(i) \/ ClientLoops(i) \/ ClientLeaves(i) \/ ClientWakes(i)
  BY <1>1 DEF ClientStarts, ClientLoops, ClientLeaves, ClientWakes
<1>2. CASE ClientConnect(i) /\ ~ClientFail(i)
  BY <1>2 DEF ClientConnect, ClientGivesUp
<1>3. CASE ClientRead(i)
  BY <1>3 DEF ClientRead
<1>4. CASE ClientHandle(i) /\ ~ClientFail(i)
  <2>1. csock[i] # "none" /\ cstate[i] \in {clast[i], "IPERF_DONE"}
    BY <1>4 DEF ClientHandle, Handles, Local
  <2>2. CASE Handles(i, "PARAM_EXCHANGE") /\ up' = Sent(up, i, "params")
    <3>1. up'[i] = Append(up[i], "params")
      BY <1>s, <2>2
    <3> QED BY <2>1, <2>2, <3>1 DEF Handles
  <2>3. CASE Handles(i, "EXCHANGE_RESULTS") /\ up' = Sent(up, i, "results")
    <3>1. up'[i] = Append(up[i], "results")
      BY <1>s, <2>3
    <3> QED BY <2>1, <2>3, <3>1 DEF Handles
  <2> QED BY <1>4, <1>e, <2>1, <2>2, <2>3 DEF ClientHandle, ClientGivesUp
<1>5. CASE ClientCreatesStream(i) /\ ~ClientFail(i)
  BY <1>5 DEF ClientCreatesStream, ClientGivesUp
<1>6. CASE ClientGetsResults(i) /\ ~ClientFail(i)
  BY <1>6 DEF ClientGetsResults, ClientGivesUp
<1>7. CASE ClientBody(i)
  BY <1>7 DEF ClientBody
<1>8. CASE ClientSendsTestEnd(i) /\ ~ClientFail(i)
  <2>1. up'[i] = Append(up[i], "TEST_END")
    BY <1>s, <1>8 DEF ClientSendsTestEnd, ClientGivesUp
  <2> QED BY <1>8, <2>1 DEF ClientSendsTestEnd, Local
<1>9. CASE ClientStops(i)
  BY <1>9 DEF ClientStops
<1>10. CASE ClientVanishes(i)
  BY <1>10 DEF ClientVanishes
<1> QED
  BY <1>f, <1>1, <1>2, <1>3, <1>4, <1>5, <1>6, <1>7, <1>8, <1>9, <1>10 DEF ClientStep, ClientLoses
-----------------------------------------------------------------------------
(* The parts of the invariant.                                             *)

LEMMA LocalStep == Types /\ Local /\ [Next]_vars => Local'
<1> SUFFICES ASSUME Types, Local, [Next]_vars PROVE Local'
  OBVIOUS
<1>t. ClientTypes /\ NetTypes
  BY DEF Types
<1> USE DEF Goes, Put, netVars
<1>a. ASSUME NEW i \in Clients, ClientStep(i) \/ ClientStops(i) \/ ClientVanishes(i) PROVE Local'
  <2> DEFINE L(c) ==
         /\ cstate[c] \in {clast[c], "IPERF_DONE"}
         /\ cpc[c] \in {"off", "enter"} => csock[c] = "none"
         /\ csock[c] = "none" => cpc[c] \in {"off", "enter", "exit"}
         /\ cpc[c] = "streams" => clast[c] = "CREATE_STREAMS"
         /\ cpc[c] = "ending" => clast[c] = "TEST_RUNNING"
         /\ cpc[c] = "results" => clast[c] = "EXCHANGE_RESULTS"
  <2>1. \A j \in Clients \ {i} : L(j)'
    BY <1>a, ClientFrame DEF Local
  <2>2. L(i)'
    <3>l. L(i)
      BY <1>a DEF Local
    <3>e. ClientEnd(i) => /\ cstate'[i] \in {cstate[i], "IPERF_DONE"}
                          /\ csock'[i] = "none" <=> csock[i] = "none"
      BY <1>t, <1>a DEF ClientEnd, ClientTypes
    <3>f. CASE ClientFail(i)
      BY <1>t, <1>a, <3>l, <3>e, <3>f DEF ClientFail, ClientTypes
    <3>1. CASE ClientStarts(i) \/ ClientLoops(i) \/ ClientLeaves(i) \/ ClientWakes(i)
      BY <1>t, <1>a, <3>l, <3>1 DEF ClientStarts, ClientLoops, ClientLeaves, ClientWakes, ClientTypes
    <3>2. CASE ClientConnect(i) /\ ~ClientFail(i)
      BY <1>t, <1>a, <3>l, <3>2 DEF ClientConnect, ClientGivesUp, ClientTypes
    <3>3. CASE ClientRead(i)
      BY <1>t, <1>a, <3>l, <3>3 DEF ClientRead, ClientTypes
    <3>4. CASE ClientHandle(i) /\ ~ClientFail(i)
      BY <1>t, <1>a, <3>l, <3>e, <3>4 DEF ClientHandle, Handles, ClientGivesUp, ClientTypes
    <3>5. CASE ClientCreatesStream(i) /\ ~ClientFail(i)
      BY <1>t, <1>a, <3>l, <3>5 DEF ClientCreatesStream, ClientGivesUp, ClientTypes
    <3>6. CASE ClientGetsResults(i) /\ ~ClientFail(i)
      BY <1>t, <1>a, <3>l, <3>6 DEF ClientGetsResults, ClientGivesUp, ClientTypes
    <3>7. CASE ClientBody(i)
      BY <1>t, <1>a, <3>l, <3>7 DEF ClientBody, ClientTypes
    <3>8. CASE ClientSendsTestEnd(i) /\ ~ClientFail(i)
      BY <1>t, <1>a, <3>l, <3>8 DEF ClientSendsTestEnd, ClientGivesUp, ClientTypes
    <3>9. CASE ClientStops(i)
      BY <1>t, <1>a, <3>l, <3>9 DEF ClientStops, ClientTypes
    <3>10. CASE ClientVanishes(i)
      BY <1>a, <3>l, <3>10 DEF ClientVanishes, clientVars
    <3> QED
      BY <1>a, <3>f, <3>1, <3>2, <3>3, <3>4, <3>5, <3>6, <3>7, <3>8, <3>9, <3>10
         DEF ClientStep, ClientLoses
  <2> QED BY <2>1, <2>2 DEF Local
<1>b. CASE UNCHANGED clientVars
  BY <1>b DEF clientVars, Local
<1>c. ServerStep \/ ServerStarts \/ ServerStops \/ UNCHANGED vars => UNCHANGED clientVars
  BY DEF ServerStep, ServerStarts, ServerStops, vars, ServerLeaves, ServerAccepts,
         ServerGetsParams, ServerDenies, ServerAcceptsStream, ServerDeniesStream, ServerReads,
         ServerEnds, ServerExchangesResults, ServerExpires, ServerTimesOut, ServerGivesUp,
         CleanupServer
<1> QED BY <1>a, <1>b, <1>c DEF Next

\* Connections and who they are of.
LEMMA Connected ==
  /\ \A i, j \in Clients, k, l \in 0..NumStreams : Connection(i, k) = Connection(j, l) => i = j /\ k = l
  /\ \A c \in Connections : c = Connection(c.from, c.stream) /\ c.from \in Clients /\ c.stream \in 0..NumStreams
  /\ \A i \in Clients, k \in 0..NumStreams :
       Connection(i, k) \in Connections /\ Connection(i, k) # NoConnection
       /\ Connection(i, k).from = i /\ Connection(i, k).stream = k
  /\ \A c \in Connections, i \in Clients : c = Connection(i, 0) <=> c.from = i /\ c.stream = 0
  /\ NoConnection.from \notin Clients /\ NoConnection.stream = 0 /\ NoConnection \notin Connections
BY ClientsAssumption DEF Connection, Connections, NoConnection

\* What the server serves.
LEMMA Serves ==
  ASSUME Types
  PROVE  /\ Busy => sctrl \in Connections
         /\ ~Busy => sctrl.from \notin Clients /\ sctrl.stream = 0
         /\ \A i \in Clients : sctrl = Connection(i, 0) <=> sctrl.from = i /\ sctrl.stream = 0
         /\ \A i \in Clients : sctrl = Connection(i, 0) => Busy
<1>1. sctrl \in Connections \cup {NoConnection}
  BY DEF Types, ServerTypes
<1>2. 0 \in 0..NumStreams
  BY NumStreamsAssumption
<1> QED BY <1>1, <1>2, Connected DEF Busy

\* What set_send_state says to the control connection reaches its client only.
LEMMA TellsOne ==
  ASSUME Types, NEW m \in Messages, Tells(m)
  PROVE  \A i \in Clients : down'[i] = IF sctrl = Connection(i, 0) THEN Append(down[i], m) ELSE down[i]
<1>1. down \in [Clients -> Seq(Messages)]
  BY DEF Types, NetTypes
<1> QED BY <1>1, Serves DEF Tells, Sent

LEMMA TellsStart ==
  ASSUME Types, sctrl.stream = 0, StartsTest
  PROVE  \A i \in Clients :
           down'[i] = IF sctrl = Connection(i, 0)
                      THEN Append(Append(down[i], "TEST_START"), "TEST_RUNNING") ELSE down[i]
<1>1. down \in [Clients -> Seq(Messages)]
  BY DEF Types, NetTypes
<1>2. \A i \in Clients :
        down[i] \o <<"TEST_START", "TEST_RUNNING">> = Append(Append(down[i], "TEST_START"), "TEST_RUNNING")
  BY <1>1
<1> QED BY <1>1, <1>2, Serves DEF StartsTest

LEMMA TellsResults ==
  ASSUME Types, ServerExchangesResults, ~CleanupServer
  PROVE  \A i \in Clients :
           down'[i] = IF sctrl = Connection(i, 0)
                      THEN Append(Append(down[i], "results"), "DISPLAY_RESULTS") ELSE down[i]
<1>1. down \in [Clients -> Seq(Messages)]
  BY DEF Types, NetTypes
<1>2. \A i \in Clients :
        down[i] \o <<"results", "DISPLAY_RESULTS">> = Append(Append(down[i], "results"), "DISPLAY_RESULTS")
  BY <1>1
<1> QED BY <1>1, <1>2, Serves DEF ServerExchangesResults, ServerGivesUp, Gets

\* What is turned away.
LEMMA DeniesOne ==
  ASSUME Types, backlog # <<>>, Denied(Head(backlog))
  PROVE  \A i \in Clients :
           /\ down'[i] = IF backlog[1] = Connection(i, 0) THEN Append(down[i], "ACCESS_DENIED")
                         ELSE down[i]
           /\ sclosed'[i] = (sclosed[i] \/ backlog[1] = Connection(i, 0))
<1>1. /\ down \in [Clients -> Seq(Messages)] /\ sclosed \in [Clients -> BOOLEAN]
      /\ backlog \in Seq(Connections)
  BY DEF Types, NetTypes
<1>2. Head(backlog) = backlog[1] /\ Head(backlog) \in Connections
  BY <1>1, Shorter
<1>3. \A i \in Clients : backlog[1] = Connection(i, 0) <=> backlog[1].from = i /\ backlog[1].stream = 0
  <2>1. backlog[1] \in Connections
    BY <1>2
  <2> QED BY <2>1, Connected
<1> QED BY <1>1, <1>2, <1>3 DEF Denied, Sent, Put

\* What is read from the control connection.
LEMMA TakesOne ==
  ASSUME Types, NEW m, Gets(m), Takes
  PROVE  \A i \in Clients :
           up'[i] = IF sctrl = Connection(i, 0) THEN Tail(up[i]) ELSE up[i]
<1>1. up \in [Clients -> Seq(ClientMessages)]
  BY DEF Types, NetTypes
<1> QED BY <1>1, Serves DEF Gets, Takes, Put

\* When all have said their say and the connections that wait are reset.
LEMMA CleanupOne ==
  ASSUME Types, CleanupServer
  PROVE  \A i \in Clients :
           /\ down'[i] = down[i] \/ (sctrl = Connection(i, 0) /\ down'[i] = Append(down[i], "SERVER_ERROR"))
           /\ sclosed'[i] <=> \/ sclosed[i]
                              \/ sctrl = Connection(i, 0)
                              \/ \E n \in DOMAIN backlog : backlog[n] = Connection(i, 0)
<1>1. "SERVER_ERROR" \in Messages
  BY DEF Messages
<1>2. down' = down \/ Tells("SERVER_ERROR")
  BY DEF CleanupServer
<1>3. \A i \in Clients : \/ down'[i] = down[i]
                         \/ sctrl = Connection(i, 0) /\ down'[i] = Append(down[i], "SERVER_ERROR")
  BY <1>1, <1>2, TellsOne
<1>4. \A i \in Clients : sclosed'[i] <=> \/ sclosed[i]
                              \/ sctrl = Connection(i, 0)
                              \/ \E n \in DOMAIN backlog : backlog[n] = Connection(i, 0)
  BY DEF CleanupServer, Types, NetTypes
<1> QED BY <1>3, <1>4

\* The next connection of the client under service is that of its next stream.
LEMMA NextStream ==
  ASSUME Types, Serving, Queued, Awaited, spc = "select", sstate = "CREATE_STREAMS",
         backlog # <<>>, Head(backlog).from = sctrl.from
  PROVE  Head(backlog) = Connection(sctrl.from, Len(accepted) + 1)
<1>1. /\ backlog \in Seq(Connections) /\ created \in [Clients -> 0..NumStreams]
      /\ Len(accepted) \in Nat
  BY LenProperties DEF Types, ClientTypes, NetTypes, ServerTypes
<1>2. 1 \in DOMAIN backlog /\ Head(backlog) = backlog[1] /\ backlog[1] \in Connections
  BY <1>1, Shorter
<1>3. /\ backlog[1].stream > Len(accepted) /\ backlog[1].stream <= created[sctrl.from]
      /\ backlog[1].stream \in Nat /\ sctrl.from \in Clients
  <2>1. backlog[1].stream \in 0..NumStreams /\ backlog[1].from \in Clients
    BY <1>2, Connected
  <2> QED BY <1>1, <1>2, <2>1, NumStreamsAssumption DEF Awaited, Queued
<1>4. PICK n \in DOMAIN backlog : backlog[n] = Connection(sctrl.from, Len(accepted) + 1)
  <2>1. Len(accepted) + 1 \in Len(accepted) + 1..created[sctrl.from]
    BY <1>1, <1>3, NumStreamsAssumption
  <2> QED BY <2>1 DEF Awaited
<1>5. backlog[n].from = sctrl.from /\ backlog[n].stream = Len(accepted) + 1
  BY <1>4 DEF Connection
<1>6. n \in Nat /\ n >= 1
  BY <1>1, <1>4, LenProperties
<1>7. n = 1
  <2> SUFFICES ASSUME 1 < n PROVE FALSE
    BY <1>6
  <2>1. backlog[1].stream < backlog[n].stream
    BY <1>2, <1>4, <1>5 DEF Queued
  <2> QED BY <1>1, <1>3, <1>5, <2>1
<1> QED BY <1>2, <1>4, <1>7

LEMMA ServingStep == Types /\ Local /\ Serving /\ Queued /\ Awaited /\ [Next]_vars => Serving'
<1> SUFFICES ASSUME Types, Local, Serving, Queued, Awaited, [Next]_vars PROVE Serving'
  OBVIOUS
<1>t. /\ backlog \in Seq(Connections) /\ accepted \in Seq(Connections) /\ Len(accepted) \in Nat
      /\ spc \in {"off", "select", "params", "results", "leaving"}
  BY LenProperties DEF Types, NetTypes, ServerTypes
<1>n. NoConnection.stream = 0 /\ Len(<<>>) < NumStreams /\ DOMAIN <<>> = {}
  BY Connected, Empty, NumStreamsAssumption
<1>a. ASSUME NEW i \in Clients, ClientStep(i) \/ ClientStops(i) \/ ClientVanishes(i) PROVE Serving'
  <2>1. UNCHANGED serverVars /\ (spc = "off" => UNCHANGED backlog)
    BY <1>a, ClientFrame, ClientConnects
  <2> QED BY <2>1 DEF serverVars, Serving, Busy
<1>f. CASE CleanupServer
  BY <1>n, <1>f DEF CleanupServer, Serving, Busy
<1>2. CASE ServerAccepts /\ ~CleanupServer
  <2>1. sctrl' \in Connections
    BY <1>t, <1>2, Shorter DEF ServerAccepts, ServerGivesUp
  <2>2. sctrl' # NoConnection
    BY <2>1, Connected
  <2> QED BY <1>2, <1>n, <2>2 DEF ServerAccepts, ServerGivesUp, Serving, Busy
<1>3. CASE ServerGetsParams /\ ~CleanupServer
  BY <1>n, <1>3 DEF ServerGetsParams, ServerGivesUp, Gets, Serving, Busy
<1>4. CASE ServerDenies
  BY <1>4 DEF ServerDenies, Serving, Busy
<1>5. CASE ServerAcceptsStream /\ ~CleanupServer
  <2> DEFINE n == Len(accepted) + 1
  <2>1. Head(backlog) = Connection(sctrl.from, n)
    BY <1>5, NextStream DEF ServerAcceptsStream
  <2>2. accepted' = Append(accepted, Connection(sctrl.from, n)) /\ Connection(sctrl.from, n) \in Connections
    BY <1>t, <1>5, <2>1, Shorter DEF ServerAcceptsStream, ServerGivesUp
  <2>3. /\ Len(accepted') = n
        /\ \A k \in DOMAIN accepted' : accepted'[k] = Connection(sctrl.from, k)
    BY <1>t, <2>2, Longer DEF Serving
  <2>4. Len(accepted) < NumStreams /\ Busy
    BY <1>5 DEF ServerAcceptsStream, Serving
  <2>5. sstate' = "CREATE_STREAMS" => Len(accepted') < NumStreams
    BY <1>t, <1>5, <2>3, <2>4, NumStreamsAssumption DEF ServerAcceptsStream, ServerGivesUp, StartsTest
  <2>6. UNCHANGED <<spc, sctrl>> /\ spc = "select"
    BY <1>5 DEF ServerAcceptsStream, ServerGivesUp
  <2> QED BY <2>3, <2>4, <2>5, <2>6 DEF Serving, Busy
<1>6. CASE ServerDeniesStream /\ ~CleanupServer
  BY <1>6 DEF ServerDeniesStream, serverVars, Serving, Busy
<1>7. CASE ServerReads
  BY <1>7 DEF ServerReads, Gets, Serving, Busy
<1>8. CASE ServerExchangesResults /\ ~CleanupServer
  BY <1>8 DEF ServerExchangesResults, ServerGivesUp, Gets, Serving, Busy
<1>9. CASE ServerExpires
  BY <1>n, <1>9 DEF ServerExpires, Serving, Busy
<1>10. CASE ServerStarts
  BY <1>10 DEF ServerStarts, Serving, Busy
<1>11. CASE ServerStops
  BY <1>11 DEF ServerStops, netVars, Serving, Busy
<1>12. CASE UNCHANGED vars
  BY <1>12 DEF vars, netVars, serverVars, Serving, Busy
<1> QED
  BY <1>a, <1>f, <1>2, <1>3, <1>4, <1>5, <1>6, <1>7, <1>8, <1>9, <1>10, <1>11, <1>12
     DEF Next, ServerStep, ServerLeaves, ServerEnds, ServerTimesOut

LEMMA FreshStep == Types /\ Local /\ Serving /\ Placed /\ Fresh /\ [Next]_vars => Fresh'
<1> SUFFICES ASSUME Types, Local, Serving, Placed, Fresh, [Next]_vars,
                    NEW c \in Clients
             PROVE  /\ clast'[c] \in {"zero", "PARAM_EXCHANGE"} => created'[c] = 0
                    /\ \A k \in DOMAIN down'[c] :
                         down'[c][k] = "PARAM_EXCHANGE" => k = 1 /\ clast'[c] = "zero"
  BY DEF Fresh
<1>t. down[c] \in Seq(Messages) /\ clast[c] \in Taken /\ "zero" \notin Messages
  BY DEF Types, ClientTypes, NetTypes, Messages
<1>o. /\ clast[c] \in {"zero", "PARAM_EXCHANGE"} => created[c] = 0
      /\ \A k \in DOMAIN down[c] : down[c][k] = "PARAM_EXCHANGE" => k = 1 /\ clast[c] = "zero"
  BY DEF Fresh
\* Any message but PARAM_EXCHANGE may be added.
<1>m. ASSUME NEW m \in Messages, m # "PARAM_EXCHANGE", down'[c] = Append(down[c], m),
             UNCHANGED clientVars
      PROVE  /\ clast'[c] \in {"zero", "PARAM_EXCHANGE"} => created'[c] = 0
             /\ \A k \in DOMAIN down'[c] :
                  down'[c][k] = "PARAM_EXCHANGE" => k = 1 /\ clast'[c] = "zero"
  BY <1>t, <1>o, <1>m, Longer DEF clientVars
<1>s. CASE down'[c] = down[c] /\ UNCHANGED clientVars
  BY <1>o, <1>s DEF clientVars
<1>d. ASSUME NEW m \in Messages, NEW n \in Messages, "PARAM_EXCHANGE" \notin {m, n},
             down'[c] = Append(Append(down[c], m), n), UNCHANGED clientVars
      PROVE  /\ clast'[c] \in {"zero", "PARAM_EXCHANGE"} => created'[c] = 0
             /\ \A k \in DOMAIN down'[c] :
                  down'[c][k] = "PARAM_EXCHANGE" => k = 1 /\ clast'[c] = "zero"
  <2> DEFINE s == Append(down[c], m)
  <2>0. m \in Messages /\ n \in Messages /\ m # "PARAM_EXCHANGE" /\ n # "PARAM_EXCHANGE"
    BY <1>d
  <2>1. s \in Seq(Messages) /\ \A k \in DOMAIN s : s[k] = "PARAM_EXCHANGE" => k = 1 /\ clast[c] = "zero"
    BY <1>t, <1>o, <2>0, Longer
  <2> HIDE DEF s
  <2>2. \A k \in DOMAIN Append(s, n) : Append(s, n)[k] = "PARAM_EXCHANGE" => k = 1 /\ clast[c] = "zero"
    BY <2>0, <2>1, Longer
  <2> QED BY <1>o, <1>d, <2>2 DEF clientVars, s
<1>x. {"SERVER_ERROR", "CREATE_STREAMS", "TEST_START", "TEST_RUNNING", "ACCESS_DENIED", "results",
       "EXCHANGE_RESULTS", "DISPLAY_RESULTS"} \subseteq Messages
  BY DEF Messages
<1>a. ASSUME NEW i \in Clients, ClientStep(i) \/ ClientStops(i) \/ ClientVanishes(i)
      PROVE  /\ clast'[c] \in {"zero", "PARAM_EXCHANGE"} => created'[c] = 0
             /\ \A k \in DOMAIN down'[c] :
                  down'[c][k] = "PARAM_EXCHANGE" => k = 1 /\ clast'[c] = "zero"
  <2>1. CASE i # c
    BY <1>a, <1>o, <2>1, ClientFrame
  <2>2. CASE i = c
    <3>1. CASE clast'[c] = clast[c] /\ down'[c] = down[c]
      <4>1. created'[c] = created[c] \/ clast[c] = "CREATE_STREAMS"
        BY <1>a, <2>2, ClientConnects
      <4> QED BY <1>o, <3>1, <4>1
    <3>2. CASE down[c] # <<>> /\ clast'[c] \in {clast[c], Head(down[c])} /\ down'[c] = Tail(down[c])
      <4>1. /\ 1 \in DOMAIN down[c] /\ Head(down[c]) = down[c][1] /\ Head(down[c]) \in Messages
            /\ \A k \in DOMAIN down'[c] : k + 1 \in DOMAIN down[c] /\ down'[c][k] = down[c][k + 1] /\ k \in Nat /\ k > 0
        BY <1>t, <3>2, Shorter, LenProperties
      <4>2. \A k \in DOMAIN down'[c] : down'[c][k] # "PARAM_EXCHANGE"
        BY <1>o, <4>1
      <4>3. clast'[c] \in {"zero", "PARAM_EXCHANGE"} => clast[c] \in {"zero", "PARAM_EXCHANGE"}
        BY <1>t, <1>o, <3>2, <4>1
      <4>4. created'[c] = created[c] \/ clast[c] = "CREATE_STREAMS"
        BY <1>a, <2>2, ClientConnects
      <4> QED BY <1>o, <4>2, <4>3, <4>4
    <3>3. CASE clast[c] = "TEST_RUNNING" /\ clast'[c] = "TEST_END" /\ down'[c] = down[c]
      BY <1>o, <3>3
    <3> QED BY <1>a, <2>2, <3>1, <3>2, <3>3, ClientTakes
  <2> QED BY <2>1, <2>2
<1>f. CASE CleanupServer
  BY <1>f, <1>s, <1>m, <1>x, CleanupOne DEF CleanupServer
<1>2. CASE ServerAccepts /\ ~CleanupServer
  <2>1. /\ 1 \in DOMAIN backlog /\ Head(backlog) = backlog[1] /\ backlog[1] \in Connections
        /\ backlog \in Seq(Connections)
    BY <1>2, Shorter DEF ServerAccepts, Types, NetTypes
  <2>2. CASE backlog[1] = Connection(c, 0)
    <3>1. clast[c] = "zero" /\ down[c] = <<>>
      BY <2>1, <2>2 DEF Placed, PlacedAt
    <3>2. down' = Sent(down, c, "PARAM_EXCHANGE") /\ UNCHANGED clientVars
      BY <1>2, <2>1, <2>2 DEF ServerAccepts, ServerGivesUp, Connection
    <3>3. down'[c] = <<"PARAM_EXCHANGE">>
      BY <3>1, <3>2 DEF Sent, Types, NetTypes
    <3> QED BY <1>o, <3>1, <3>2, <3>3 DEF clientVars
  <2>3. CASE backlog[1] # Connection(c, 0)
    <3>1. ~(backlog[1].from = c /\ backlog[1].stream = 0)
      BY <2>1, <2>3, Connected
    <3>2. down'[c] = down[c] /\ UNCHANGED clientVars
      BY <1>2, <2>1, <3>1 DEF ServerAccepts, ServerGivesUp, Sent, Types, NetTypes
    <3> QED BY <1>s, <3>2
  <2> QED BY <2>2, <2>3
<1>3. CASE ServerGetsParams /\ ~CleanupServer
  BY <1>3, <1>s, <1>m, <1>x, TellsOne DEF ServerGetsParams, ServerGivesUp
<1>4. CASE ServerDenies
  BY <1>4, <1>s, <1>m, <1>x, DeniesOne DEF ServerDenies
<1>5. CASE ServerAcceptsStream /\ ~CleanupServer
  <2>1. CASE StartsTest
    <3>1. sctrl.stream = 0
      BY <1>5 DEF ServerAcceptsStream, Serving
    <3>2. \/ down'[c] = down[c]
          \/ down'[c] = Append(Append(down[c], "TEST_START"), "TEST_RUNNING")
      BY <1>x, <2>1, <3>1, TellsStart
    <3>3. UNCHANGED clientVars
      BY <1>5 DEF ServerAcceptsStream, ServerGivesUp
    <3> QED BY <1>s, <1>d, <1>x, <3>2, <3>3
  <2>2. CASE ~StartsTest
    BY <1>5, <1>s, <2>2 DEF ServerAcceptsStream, ServerGivesUp
  <2> QED BY <2>1, <2>2
<1>6. CASE ServerDeniesStream /\ ~CleanupServer
  BY <1>6, <1>s, <1>m, <1>x, DeniesOne DEF ServerDeniesStream
<1>7. CASE ServerReads
  BY <1>7, <1>s, <1>m, <1>x, TellsOne DEF ServerReads
<1>8. CASE ServerExchangesResults /\ ~CleanupServer
  <2>1. \/ down'[c] = down[c]
        \/ down'[c] = Append(Append(down[c], "results"), "DISPLAY_RESULTS")
    BY <1>8, TellsResults
  <2>2. UNCHANGED clientVars
    BY <1>8 DEF ServerExchangesResults, ServerGivesUp
  <2> QED BY <1>s, <1>d, <1>x, <2>1, <2>2
<1>9. CASE ServerExpires
  BY <1>9, <1>s, <1>m, <1>x, TellsOne DEF ServerExpires
<1>10. CASE ServerStarts \/ ServerStops \/ UNCHANGED vars
  BY <1>s, <1>10 DEF ServerStarts, ServerStops, netVars, vars
<1> QED
  BY <1>a, <1>f, <1>2, <1>3, <1>4, <1>5, <1>6, <1>7, <1>8, <1>9, <1>10
     DEF Next, ServerStep, ServerLeaves, ServerEnds, ServerTimesOut

LEMMA PlacedStep ==
  Types /\ Local /\ Serving /\ Placed /\ Queued /\ Awaited /\ [Next]_vars => Placed'
<1> SUFFICES ASSUME Types, Local, Serving, Placed, Queued, Awaited, [Next]_vars, NEW c \in Clients
             PROVE  PlacedAt(c)'
  BY DEF Placed
<1>t. /\ backlog \in Seq(Connections) /\ up[c] \in Seq(ClientMessages) /\ down[c] \in Seq(Messages)
      /\ sclosed \in [Clients -> BOOLEAN]
      /\ 0 \in 0..NumStreams
  BY NumStreamsAssumption DEF Types, NetTypes
<1>o. PlacedAt(c)
  BY DEF Placed
<1>a. ASSUME NEW i \in Clients, ClientStep(i) \/ ClientStops(i) \/ ClientVanishes(i)
      PROVE  PlacedAt(c)'
  <2>u. sctrl' = sctrl /\ sclosed' = sclosed
    BY <1>a, ClientFrame DEF serverVars
  \* What does not connect takes and says nothing it could not.
  <2>q. clast[c] = "zero" /\ down[c] = <<>> => clast'[c] = "zero" /\ down'[c] = <<>>
    BY <1>a, ClientFrame, ClientTakes
  <2>s. csock[c] = "none" => up'[c] = up[c]
    BY <1>a, ClientFrame, ClientSays
  <2>1. CASE UNCHANGED backlog /\ (csock'[c] = "none" <=> csock[c] = "none")
    BY <1>o, <2>u, <2>q, <2>s, <2>1 DEF PlacedAt
  <2>2. ASSUME NEW k \in 0..NumStreams, backlog' = Append(backlog, Connection(i, k)),
               i # c => csock'[c] = csock[c],
               i = c => csock'[c] # "none" /\ (csock[c] = "none" <=> k = 0)
        PROVE  PlacedAt(c)'
    <3>e. /\ Connection(i, k) \in Connections /\ Connection(i, k).from = i
          /\ Connection(i, k) = Connection(c, 0) <=> i = c /\ k = 0
      BY <1>t, <2>2, Connected
    <3>b. /\ \A n \in DOMAIN backlog : n \in DOMAIN backlog' /\ backlog'[n] = backlog[n]
          /\ Len(backlog) + 1 \in DOMAIN backlog' /\ backlog'[Len(backlog) + 1] = Connection(i, k)
          /\ \A n \in DOMAIN backlog' : n \in DOMAIN backlog \/ n = Len(backlog) + 1
      BY <1>t, <2>2, <3>e, Longer
    <3>1. CASE i # c
      BY <1>o, <2>2, <2>u, <2>q, <2>s, <3>e, <3>b, <3>1 DEF PlacedAt
    <3>2. CASE i = c
      <4>1. CASE k = 0
        <5>1. sctrl.from # c /\ ~sclosed[c] /\ clast[c] = "zero" /\ down[c] = <<>>
          BY <1>o, <2>2, <3>2, <4>1 DEF PlacedAt
        <5>2. sctrl # Connection(c, 0)
          BY <5>1 DEF Connection
        <5> QED BY <1>o, <2>2, <2>u, <2>q, <3>e, <3>b, <3>2, <4>1, <5>1, <5>2 DEF PlacedAt
      <4>2. CASE k # 0
        BY <1>o, <2>2, <2>u, <2>q, <3>e, <3>b, <3>2, <4>2 DEF PlacedAt
      <4> QED BY <4>1, <4>2
    <3> QED BY <3>1, <3>2
  <2>3. CASE /\ csock[i] = "none" /\ csock'[i] # "none" /\ backlog' = Append(backlog, Connection(i, 0))
    BY <1>a, <1>t, <2>2, <2>3, ClientFrame
  <2>4. CASE /\ csock[i] # "none" /\ csock'[i] # "none" /\ created[i] < NumStreams
             /\ backlog' = Append(backlog, Connection(i, created[i] + 1))
    <3>1. created[i] + 1 \in 0..NumStreams /\ created[i] + 1 # 0
      BY <2>4, NumStreamsAssumption DEF Types, ClientTypes
    <3> QED BY <1>a, <2>2, <2>4, <3>1, ClientFrame
  <2> QED BY <1>a, <2>1, <2>3, <2>4, ClientConnects, ClientFrame
<1>b. backlog # <<>> =>
        /\ 1 \in DOMAIN backlog /\ Head(backlog) = backlog[1] /\ backlog[1] \in Connections
        /\ \A n \in DOMAIN Tail(backlog) : n + 1 \in DOMAIN backlog /\ Tail(backlog)[n] = backlog[n + 1]
        /\ \A n \in DOMAIN backlog : n = 1 \/ (n - 1 \in DOMAIN Tail(backlog) /\ Tail(backlog)[n - 1] = backlog[n])
  BY <1>t, Shorter
\* A connection waits only once.
<1>1. \A n \in DOMAIN backlog : backlog[n] = Connection(c, 0) /\ backlog[1] = Connection(c, 0) => n = 1
  <2> SUFFICES ASSUME NEW n \in DOMAIN backlog, n # 1,
                      backlog[n] = Connection(c, 0), backlog[1] = Connection(c, 0)
               PROVE  FALSE
    OBVIOUS
  <2>1. n \in Nat /\ 1 < n /\ 1 \in DOMAIN backlog
    BY <1>t, LenProperties
  <2>2. backlog[1].stream < backlog[n].stream
    BY <2>1 DEF Queued
  <2> QED BY <2>2 DEF Connection
<1>f. CASE CleanupServer
  <2>1. backlog' = <<>> /\ sctrl' = NoConnection /\ UNCHANGED <<clientVars, up>>
    BY <1>f DEF CleanupServer
  <2>2. DOMAIN backlog' = {} /\ sctrl'.from # c /\ sctrl' # Connection(c, 0)
    BY <1>t, <2>1, Empty, Connected
  <2>3. csock[c] = "none" => down'[c] = down[c] /\ ~sclosed'[c]
    <3>1. csock[c] = "none" => sctrl # Connection(c, 0) /\ \A n \in DOMAIN backlog : backlog[n] # Connection(c, 0)
      BY <1>o DEF PlacedAt, Connection
    <3> QED BY <1>f, <1>o, <3>1, CleanupOne DEF PlacedAt
  <2>4. csock[c] # "none" => sclosed'[c]
    BY <1>f, <1>o, CleanupOne DEF PlacedAt
  <2> QED BY <1>o, <2>1, <2>2, <2>3, <2>4 DEF PlacedAt, clientVars
<1>2. CASE ServerAccepts /\ ~CleanupServer
  <2>1. /\ backlog # <<>> /\ backlog' = Tail(backlog) /\ sctrl' = backlog[1]
        /\ UNCHANGED <<up, sclosed, clientVars>> /\ ~Busy
        /\ down' = IF backlog[1].stream = 0 THEN Sent(down, backlog[1].from, "PARAM_EXCHANGE") ELSE down
    BY <1>b, <1>2 DEF ServerAccepts, ServerGivesUp
  <2>2. backlog[1] # Connection(c, 0) => down'[c] = down[c]
    BY <1>b, <2>1, Connected DEF Sent, Types, NetTypes
  <2>3. sctrl # Connection(c, 0)
    BY <2>1, Serves
  <2>4. CASE backlog[1] = Connection(c, 0)
    <3>1. csock[c] # "none" /\ ~sclosed[c]
      BY <1>b, <1>o, <2>1, <2>4 DEF PlacedAt, Connection
    <3>2. \A n \in DOMAIN backlog' : backlog'[n] # Connection(c, 0)
      BY <1>b, <1>1, <1>t, <2>1, <2>4, LenProperties
    <3> QED BY <2>1, <2>4, <3>1, <3>2 DEF PlacedAt, clientVars
  <2>5. CASE backlog[1] # Connection(c, 0)
    <3>1. \A n \in DOMAIN backlog' : n + 1 \in DOMAIN backlog /\ backlog'[n] = backlog[n + 1]
      BY <1>b, <2>1
    <3>2. \A n \in DOMAIN backlog : backlog[n] = Connection(c, 0) =>
            \E k \in DOMAIN backlog' : backlog'[k] = Connection(c, 0)
      BY <1>b, <2>1, <2>5
    <3>3. csock[c] = "none" => sctrl'.from # c
      BY <1>b, <1>o, <2>1 DEF PlacedAt
    <3>4. sctrl' # Connection(c, 0) /\ down'[c] = down[c] /\ UNCHANGED <<up, sclosed, csock, clast>>
      BY <2>1, <2>2, <2>5 DEF clientVars
    <3> QED BY <1>o, <2>3, <3>1, <3>2, <3>3, <3>4 DEF PlacedAt
  <2> QED BY <2>4, <2>5
\* A message to the client that is served, nothing else of what matters here.
<1>m. CASE /\ sctrl # Connection(c, 0) => down'[c] = down[c]
           /\ sctrl # Connection(c, 0) => up'[c] = up[c]
           /\ UNCHANGED <<sctrl, backlog, sclosed, clientVars>>
  <2>1. csock[c] = "none" => sctrl # Connection(c, 0)
    BY <1>o DEF PlacedAt, Connection
  <2> QED BY <1>m, <1>o, <2>1 DEF PlacedAt, clientVars
<1>x. {"SERVER_ERROR", "CREATE_STREAMS", "EXCHANGE_RESULTS"} \subseteq Messages
  BY DEF Messages
<1>3. CASE ServerGetsParams /\ ~CleanupServer
  BY <1>3, <1>m, <1>x, TellsOne, TakesOne DEF ServerGetsParams, ServerGivesUp
<1>d. CASE /\ backlog # <<>> /\ Denied(Head(backlog)) /\ backlog[1] # sctrl
           /\ UNCHANGED <<sctrl, up, clientVars>>
  <2>1. backlog' = Tail(backlog)
    BY <1>d DEF Denied
  <2>2. /\ down'[c] = IF backlog[1] = Connection(c, 0) THEN Append(down[c], "ACCESS_DENIED") ELSE down[c]
        /\ sclosed'[c] = (sclosed[c] \/ backlog[1] = Connection(c, 0))
    BY <1>d, DeniesOne
  <2>3. CASE backlog[1] = Connection(c, 0)
    <3>1. csock[c] # "none"
      BY <1>b, <1>d, <1>o, <2>3 DEF PlacedAt, Connection
    <3>3. sclosed'[c]
      BY <2>2, <2>3, Zenon
    <3>2. \A n \in DOMAIN backlog' : backlog'[n] # Connection(c, 0)
      BY <1>b, <1>d, <1>1, <1>t, <2>1, <2>3, LenProperties
    <3> QED BY <1>d, <2>3, <3>1, <3>2, <3>3 DEF PlacedAt, clientVars
  <2>4. CASE backlog[1] # Connection(c, 0)
    <3>1. \A n \in DOMAIN backlog' : n + 1 \in DOMAIN backlog /\ backlog'[n] = backlog[n + 1]
      BY <1>b, <1>d, <2>1
    <3>2. \A n \in DOMAIN backlog : backlog[n] = Connection(c, 0) =>
            \E k \in DOMAIN backlog' : backlog'[k] = Connection(c, 0)
      BY <1>b, <1>d, <2>1, <2>4
    <3>3. down'[c] = down[c] BY <2>2, <2>4
    <3>5. sclosed'[c] <=> sclosed[c] BY <2>2, <2>4, Zenon
    <3>4. UNCHANGED <<sctrl, up, csock, clast>> BY <1>d DEF clientVars
    <3> QED BY <1>o, <3>1, <3>2, <3>3, <3>4, <3>5 DEF PlacedAt
  <2> QED BY <2>3, <2>4
<1>s. ASSUME Busy, backlog # <<>>, backlog[1] = sctrl, spc = "select" PROVE FALSE
  <2>1. sctrl.stream = 0 /\ sctrl \in Connections
    BY <1>s, Serves DEF Serving
  <2>2. sctrl = Connection(sctrl.from, 0) /\ sctrl.from \in Clients
    BY <2>1, Connected
  <2> QED BY <1>b, <1>s, <2>2 DEF Placed, PlacedAt
<1>4. CASE ServerDenies
  BY <1>4, <1>d, <1>s DEF ServerDenies
<1>5. CASE ServerAcceptsStream /\ ~CleanupServer
  <2>1. backlog # <<>> /\ backlog' = Tail(backlog) /\ UNCHANGED <<sctrl, up, sclosed, clientVars>>
    BY <1>5 DEF ServerAcceptsStream, ServerGivesUp
  <2>2. backlog[1].stream # 0
    <3>1. Head(backlog) = Connection(sctrl.from, Len(accepted) + 1)
      BY <1>5, NextStream DEF ServerAcceptsStream
    <3>2. Len(accepted) \in Nat
      BY LenProperties DEF Types, ServerTypes
    <3> QED BY <1>b, <2>1, <3>1, <3>2 DEF Connection
  <2>3. backlog[1] # Connection(c, 0)
    BY <2>2 DEF Connection
  <2>4. sctrl # Connection(c, 0) => down'[c] = down[c]
    <3>1. StartsTest => sctrl.stream = 0
      BY <1>5 DEF ServerAcceptsStream, Serving
    <3> QED BY <1>5, <3>1, TellsStart DEF ServerAcceptsStream, ServerGivesUp
  <2>5. csock[c] = "none" => sctrl # Connection(c, 0)
    BY <1>o DEF PlacedAt, Connection
  <2> QED BY <1>b, <1>o, <2>1, <2>3, <2>4, <2>5 DEF PlacedAt, clientVars
<1>6. CASE ServerDeniesStream /\ ~CleanupServer
  BY <1>6, <1>b, <1>d DEF ServerDeniesStream, serverVars
<1>7. CASE ServerReads
  BY <1>7, <1>m, <1>x, TellsOne, TakesOne DEF ServerReads
<1>8. CASE ServerExchangesResults /\ ~CleanupServer
  <2>1. /\ sctrl # Connection(c, 0) => down'[c] = down[c]
        /\ sctrl # Connection(c, 0) => up'[c] = up[c]
    BY <1>8, TellsResults, TakesOne DEF ServerExchangesResults, ServerGivesUp
  <2> QED BY <1>8, <1>m, <2>1 DEF ServerExchangesResults, ServerGivesUp
<1>9. CASE ServerExpires
  <2>1. /\ sctrl' = NoConnection /\ UNCHANGED <<up, backlog, clientVars>>
        /\ sclosed' = Put(sclosed, sctrl.from, TRUE) /\ sctrl.stream = 0
    BY <1>9 DEF ServerExpires, Serving
  <2>2. sctrl # Connection(c, 0) => down'[c] = down[c] /\ sclosed'[c] = sclosed[c]
    BY <1>9, <1>t, <1>x, <2>1, TellsOne, Serves DEF ServerExpires, Put
  <2>3. sctrl = Connection(c, 0) => sclosed'[c] /\ csock[c] # "none"
    BY <1>o, <1>t, <2>1 DEF Put, PlacedAt, Connection
  <2>4. sctrl' # Connection(c, 0) /\ sctrl'.from # c
    BY <1>t, <2>1, Connected
  <2> QED BY <1>o, <2>1, <2>2, <2>3, <2>4 DEF PlacedAt, clientVars
<1>10. CASE ServerStarts \/ ServerStops \/ UNCHANGED vars
  BY <1>m, <1>10 DEF ServerStarts, ServerStops, netVars, vars, serverVars
<1> QED
  BY <1>a, <1>f, <1>2, <1>3, <1>4, <1>5, <1>6, <1>7, <1>8, <1>9, <1>10
     DEF Next, ServerStep, ServerLeaves, ServerEnds, ServerTimesOut

\* What a step of a client adds to the backlog comes after what it has there.
LEMMA Joins ==
  ASSUME Types, Local, Placed, Queued, NEW i \in Clients,
         ClientStep(i) \/ ClientStops(i) \/ ClientVanishes(i)
  PROVE  /\ created[i] \in Nat /\ created'[i] \in {created[i], created[i] + 1}
         /\ \/ UNCHANGED backlog /\ created'[i] = created[i]
            \/ \E k \in 0..NumStreams :
                 /\ backlog' = Append(backlog, Connection(i, k))
                 /\ k = 0 => csock[i] = "none" /\ created'[i] = created[i]
                 /\ k # 0 => created'[i] = created[i] + 1 /\ k = created[i] + 1
                 /\ \A n \in DOMAIN backlog : backlog[n].from = i => backlog[n].stream < k
<1>t. created[i] \in 0..NumStreams /\ created[i] \in Nat /\ NumStreams \in Nat /\ backlog \in Seq(Connections)
  BY NumStreamsAssumption DEF Types, ClientTypes, NetTypes
<1>1. CASE /\ csock[i] = "none" /\ backlog' = Append(backlog, Connection(i, 0))
           /\ created'[i] = created[i]
  <2>1. 0 \in 0..NumStreams /\ \A n \in DOMAIN backlog : backlog[n].from # i
    BY <1>t, <1>1 DEF Placed, PlacedAt
  <2> QED BY <1>t, <1>1, <2>1
<1>2. CASE /\ csock[i] # "none" /\ created[i] < NumStreams
           /\ backlog' = Append(backlog, Connection(i, created[i] + 1))
           /\ created'[i] = created[i] + 1
  <2>1. created[i] + 1 \in 0..NumStreams /\ created[i] + 1 # 0
    BY <1>t, <1>2
  <2>2. \A n \in DOMAIN backlog : backlog[n].from = i => backlog[n].stream < created[i] + 1
    <3>1. \A n \in DOMAIN backlog : backlog[n].stream \in Nat
      BY <1>t, Connected
    <3> QED BY <1>t, <3>1 DEF Queued
  <2> QED BY <1>t, <1>2, <2>1, <2>2
<1> QED BY <1>t, <1>1, <1>2, ClientConnects

LEMMA QueuedStep == Types /\ Local /\ Placed /\ Queued /\ [Next]_vars => Queued'
<1> SUFFICES ASSUME Types, Local, Placed, Queued, [Next]_vars PROVE Queued'
  OBVIOUS
<1>t. /\ backlog \in Seq(Connections) /\ created \in [Clients -> 0..NumStreams] /\ NumStreams \in Nat
      /\ \A n \in DOMAIN backlog : backlog[n].from \in Clients /\ backlog[n].stream \in Nat
      /\ DOMAIN backlog \subseteq Nat
  <2>1. backlog \in Seq(Connections) /\ created \in [Clients -> 0..NumStreams] /\ NumStreams \in Nat
    BY NumStreamsAssumption DEF Types, ClientTypes, NetTypes
  <2>2. \A n \in DOMAIN backlog : backlog[n].from \in Clients /\ backlog[n].stream \in Nat
    BY <2>1, Connected
  <2> QED BY <2>1, <2>2, LenProperties
<1>a. ASSUME NEW i \in Clients, ClientStep(i) \/ ClientStops(i) \/ ClientVanishes(i) PROVE Queued'
  <2>c. \A j \in Clients : created[j] \in Nat /\ created'[j] \in Nat /\ created[j] <= created'[j]
    BY <1>a, <1>t, ClientFrame, Joins
  <2>1. CASE UNCHANGED backlog /\ created'[i] = created[i]
    <3>1. \A j \in Clients : created'[j] = created[j]
      BY <1>a, <2>1, ClientFrame
    <3> QED BY <1>t, <2>1, <3>1 DEF Queued
  <2>2. ASSUME NEW k \in 0..NumStreams, backlog' = Append(backlog, Connection(i, k)),
               k # 0 => created'[i] = k,
               \A n \in DOMAIN backlog : backlog[n].from = i => backlog[n].stream < k
        PROVE  Queued'
    <3>e. Connection(i, k) \in Connections /\ Connection(i, k).from = i /\ Connection(i, k).stream = k
      BY <1>a, <2>2, Connected
    <3>b. /\ \A n \in DOMAIN backlog : n \in DOMAIN backlog' /\ backlog'[n] = backlog[n] /\ n <= Len(backlog)
          /\ Len(backlog) + 1 \in DOMAIN backlog' /\ backlog'[Len(backlog) + 1] = Connection(i, k)
          /\ \A n \in DOMAIN backlog' : n \in DOMAIN backlog \/ n = Len(backlog) + 1
          /\ Len(backlog) \in Nat
      BY <1>t, <2>2, <3>e, Longer, LenProperties
    <3>1. ASSUME NEW m \in DOMAIN backlog', NEW n \in DOMAIN backlog', m < n,
                 backlog'[m].from = backlog'[n].from
          PROVE  backlog'[m].stream < backlog'[n].stream
      <4>1. CASE n \in DOMAIN backlog
        <5>1. m \in DOMAIN backlog
          BY <1>t, <3>b, <3>1, <4>1
        <5> QED BY <3>b, <3>1, <4>1, <5>1 DEF Queued
      <4>2. CASE n = Len(backlog) + 1
        <5>1. m \in DOMAIN backlog
          BY <1>t, <3>b, <3>1, <4>2
        <5> QED BY <2>2, <3>b, <3>e, <3>1, <4>2, <5>1
      <4> QED BY <3>b, <3>1, <4>1, <4>2
    <3>2. ASSUME NEW n \in DOMAIN backlog' PROVE backlog'[n].stream <= created'[backlog'[n].from]
      <4>1. CASE n \in DOMAIN backlog
        <5>1. backlog[n].stream <= created[backlog[n].from]
          BY <4>1 DEF Queued
        <5> QED BY <1>t, <2>c, <3>b, <4>1, <5>1
      <4>2. CASE n = Len(backlog) + 1
        BY <1>a, <2>2, <2>c, <3>b, <3>e, <4>2
      <4> QED BY <3>b, <3>2, <4>1, <4>2
    <3> QED BY <3>1, <3>2 DEF Queued
  <2> QED BY <1>a, <2>1, <2>2, Joins
<1>1. CASE UNCHANGED <<backlog, created>>
  BY <1>1 DEF Queued
<1>2. CASE backlog' = <<>> /\ UNCHANGED created
  BY <1>2, Empty DEF Queued
<1>3. CASE backlog # <<>> /\ backlog' = Tail(backlog) /\ UNCHANGED created
  <2>1. \A n \in DOMAIN backlog' : n + 1 \in DOMAIN backlog /\ backlog'[n] = backlog[n + 1] /\ n \in Nat
    BY <1>t, <1>3, Shorter, LenProperties
  <2>2. ASSUME NEW m \in DOMAIN backlog', NEW n \in DOMAIN backlog', m < n,
               backlog'[m].from = backlog'[n].from
        PROVE  backlog'[m].stream < backlog'[n].stream
    <3>1. m + 1 < n + 1
      BY <2>1, <2>2
    <3> QED BY <2>1, <2>2, <3>1 DEF Queued
  <2>3. \A n \in DOMAIN backlog' : backlog'[n].stream <= created'[backlog'[n].from]
    BY <1>3, <2>1 DEF Queued
  <2> QED BY <2>2, <2>3 DEF Queued
<1>s. ServerStep \/ ServerStarts \/ ServerStops \/ UNCHANGED vars =>
        /\ UNCHANGED created
        /\ backlog' \in {backlog, <<>>} \/ (backlog # <<>> /\ backlog' = Tail(backlog))
  BY DEF ServerStep, ServerStarts, ServerStops, vars, ServerLeaves, ServerAccepts,
         ServerGetsParams, ServerDenies, ServerAcceptsStream, ServerDeniesStream, ServerReads,
         ServerEnds, ServerExchangesResults, ServerExpires, ServerTimesOut, ServerGivesUp,
         CleanupServer, Denied, clientVars, netVars
<1> QED BY <1>a, <1>1, <1>2, <1>3, <1>s DEF Next

LEMMA AwaitedStep ==
  Types /\ Local /\ Serving /\ Placed /\ Fresh /\ Queued /\ Awaited /\ Announced /\ [Next]_vars => Awaited'
<1> SUFFICES ASSUME Types, Local, Serving, Placed, Fresh, Queued, Awaited, Announced, [Next]_vars,
                    spc' = "select", sstate' = "CREATE_STREAMS"
             PROVE  /\ \A n \in DOMAIN backlog' :
                         backlog'[n].from = sctrl'.from => backlog'[n].stream > Len(accepted')
                    /\ \A k \in Len(accepted') + 1..created'[sctrl'.from] :
                         \E n \in DOMAIN backlog' : backlog'[n] = Connection(sctrl'.from, k)
  BY DEF Awaited
<1>t. /\ backlog \in Seq(Connections) /\ created \in [Clients -> 0..NumStreams] /\ NumStreams \in Nat
      /\ Len(accepted) \in Nat /\ accepted \in Seq(Connections)
      /\ \A n \in DOMAIN backlog : backlog[n].stream \in Nat /\ backlog[n] \in Connections
  <2>1. /\ backlog \in Seq(Connections) /\ created \in [Clients -> 0..NumStreams] /\ NumStreams \in Nat
        /\ accepted \in Seq(Connections)
    BY NumStreamsAssumption DEF Types, ClientTypes, NetTypes, ServerTypes
  <2>2. \A n \in DOMAIN backlog : backlog[n].stream \in Nat /\ backlog[n] \in Connections
    BY <2>1, Connected
  <2> QED BY <2>1, <2>2, LenProperties
<1>o. ASSUME spc = "select", sstate = "CREATE_STREAMS"
      PROVE  /\ \A n \in DOMAIN backlog : backlog[n].from = sctrl.from => backlog[n].stream > Len(accepted)
             /\ \A k \in Len(accepted) + 1..created[sctrl.from] :
                  \E n \in DOMAIN backlog : backlog[n] = Connection(sctrl.from, k)
             /\ sctrl.from \in Clients /\ sctrl = Connection(sctrl.from, 0)
             /\ Len(accepted) <= created[sctrl.from]
  <2>1. sctrl.from \in Clients /\ sctrl = Connection(sctrl.from, 0)
    <3>1. Busy /\ sctrl.stream = 0
      BY <1>o DEF Serving
    <3> QED BY <3>1, Serves, Connected
  <2>2. Len(accepted) <= created[sctrl.from]
    BY <2>1 DEF Announced, AnnouncedAt
  <2> QED BY <1>o, <2>1, <2>2 DEF Awaited
<1>b. backlog # <<>> =>
        /\ 1 \in DOMAIN backlog /\ Head(backlog) = backlog[1] /\ backlog[1] \in Connections
        /\ \A n \in DOMAIN Tail(backlog) : n + 1 \in DOMAIN backlog /\ Tail(backlog)[n] = backlog[n + 1] /\ n \in Nat /\ 1 < n + 1
        /\ \A n \in DOMAIN backlog : n = 1 \/ (n - 1 \in DOMAIN Tail(backlog) /\ Tail(backlog)[n - 1] = backlog[n])
  BY <1>t, Shorter, LenProperties
<1> DEFINE Goal == /\ \A n \in DOMAIN backlog' :
                        backlog'[n].from = sctrl'.from => backlog'[n].stream > Len(accepted')
                   /\ \A k \in Len(accepted') + 1..created'[sctrl'.from] :
                        \E n \in DOMAIN backlog' : backlog'[n] = Connection(sctrl'.from, k)
<1>a. ASSUME NEW i \in Clients, ClientStep(i) \/ ClientStops(i) \/ ClientVanishes(i) PROVE Goal
  <2>u. UNCHANGED <<spc, sstate, sctrl, accepted>>
    BY <1>a, ClientFrame DEF serverVars
  <2>o. /\ \A n \in DOMAIN backlog : backlog[n].from = sctrl.from => backlog[n].stream > Len(accepted)
        /\ \A k \in Len(accepted) + 1..created[sctrl.from] :
             \E n \in DOMAIN backlog : backlog[n] = Connection(sctrl.from, k)
        /\ sctrl.from \in Clients /\ Len(accepted) <= created[sctrl.from]
    BY <1>o, <2>u
  <2>1. CASE UNCHANGED backlog /\ created'[sctrl.from] = created[sctrl.from]
    BY <2>u, <2>o, <2>1
  <2>2. ASSUME NEW k \in 0..NumStreams, backlog' = Append(backlog, Connection(i, k)),
               k = 0 => csock[i] = "none" /\ created'[i] = created[i],
               k # 0 => created'[i] = created[i] + 1 /\ k = created[i] + 1
        PROVE  Goal
    <3>e. Connection(i, k) \in Connections /\ Connection(i, k).from = i /\ Connection(i, k).stream = k
      BY <1>a, <2>2, Connected
    <3>b. /\ \A n \in DOMAIN backlog : n \in DOMAIN backlog' /\ backlog'[n] = backlog[n]
          /\ Len(backlog) + 1 \in DOMAIN backlog' /\ backlog'[Len(backlog) + 1] = Connection(i, k)
          /\ \A n \in DOMAIN backlog' : n \in DOMAIN backlog \/ n = Len(backlog) + 1
      BY <1>t, <2>2, <3>e, Longer
    <3>1. CASE i # sctrl.from
      <4>1. created'[sctrl.from] = created[sctrl.from]
        BY <1>a, <2>o, <3>1, ClientFrame
      <4> QED BY <2>u, <2>o, <3>b, <3>e, <3>1, <4>1
    <3>2. CASE i = sctrl.from
      <4>1. k # 0
        BY <1>a, <2>2, <3>2 DEF Placed, PlacedAt
      <4>2. created[i] \in Nat /\ created'[i] = created[i] + 1 /\ k = created[i] + 1 /\ k > Len(accepted)
        BY <1>a, <1>t, <2>2, <2>o, <3>2, <4>1
      <4>3. \A n \in DOMAIN backlog' : backlog'[n].from = sctrl.from => backlog'[n].stream > Len(accepted)
        BY <2>o, <3>b, <3>e, <4>2
      <4>4. ASSUME NEW l \in Len(accepted) + 1..created'[sctrl.from]
            PROVE  \E n \in DOMAIN backlog' : backlog'[n] = Connection(sctrl.from, l)
        <5>1. CASE l = k
          BY <3>b, <3>2, <5>1
        <5>2. CASE l # k
          <6>1. l \in Len(accepted) + 1..created[sctrl.from]
            BY <1>t, <3>2, <4>2, <4>4, <5>2
          <6>2. PICK n \in DOMAIN backlog : backlog[n] = Connection(sctrl.from, l)
            BY <2>o, <6>1
          <6> QED BY <3>b, <6>2
        <5> QED BY <5>1, <5>2
      <4> QED BY <2>u, <4>3, <4>4
    <3> QED BY <3>1, <3>2
  <2> HIDE DEF Goal
  <2> QED BY <1>a, <2>1, <2>2, <2>o, Joins, ClientFrame
<1>3. CASE ServerGetsParams /\ ~CleanupServer
  <2>1. /\ spc = "params" /\ sctrl.stream = 0 /\ UNCHANGED <<backlog, sctrl, accepted, created>>
    BY <1>3 DEF ServerGetsParams, ServerGivesUp, Gets, clientVars
  <2>2. accepted = <<>> /\ sctrl.from \in Clients /\ sctrl = Connection(sctrl.from, 0) /\ Len(accepted) = 0
    BY <2>1, Serves, Connected, Empty DEF Serving
  <2>3. created[sctrl.from] = 0
    BY <2>1, <2>2 DEF Announced, AnnouncedAt, Fresh
  <2>4. \A n \in DOMAIN backlog : backlog[n].from = sctrl.from => backlog[n].stream > 0
    <3> SUFFICES ASSUME NEW n \in DOMAIN backlog, backlog[n].from = sctrl.from, backlog[n].stream = 0
                 PROVE  FALSE
      BY <1>t
    <3>1. backlog[n] = Connection(sctrl.from, 0)
      BY <1>t, <2>2, Connected
    <3> QED BY <2>2, <3>1 DEF Placed, PlacedAt
  <2> QED BY <2>1, <2>2, <2>3, <2>4
<1>5. CASE ServerAcceptsStream /\ ~CleanupServer
  <2>1. /\ spc = "select" /\ sstate = "CREATE_STREAMS" /\ backlog # <<>>
        /\ Head(backlog) = Connection(sctrl.from, Len(accepted) + 1)
        /\ backlog' = Tail(backlog) /\ UNCHANGED <<sctrl, created>>
        /\ accepted' = Append(accepted, Head(backlog))
    BY <1>5, NextStream DEF ServerAcceptsStream, ServerGivesUp, clientVars
  <2>2. Len(accepted') = Len(accepted) + 1
    BY <1>t, <1>b, <2>1, Longer
  <2>3. backlog[1].from = sctrl.from /\ backlog[1].stream = Len(accepted) + 1
    BY <1>b, <2>1 DEF Connection
  <2>4. ASSUME NEW n \in DOMAIN backlog', backlog'[n].from = sctrl.from
        PROVE  backlog'[n].stream > Len(accepted')
    <3>1. n + 1 \in DOMAIN backlog /\ backlog'[n] = backlog[n + 1] /\ 1 < n + 1 /\ 1 \in DOMAIN backlog
      BY <1>b, <2>1, <2>4
    <3>2. backlog[1].stream < backlog[n + 1].stream
      BY <2>3, <2>4, <3>1 DEF Queued
    <3> QED BY <1>t, <2>2, <2>3, <3>1, <3>2
  <2>5. ASSUME NEW k \in Len(accepted') + 1..created[sctrl.from]
        PROVE  \E n \in DOMAIN backlog' : backlog'[n] = Connection(sctrl.from, k)
    <3>1. k \in Len(accepted) + 1..created[sctrl.from] /\ k # Len(accepted) + 1
      BY <1>t, <2>2, <2>5
    <3>2. PICK n \in DOMAIN backlog : backlog[n] = Connection(sctrl.from, k)
      BY <1>o, <2>1, <3>1
    <3>3. n # 1
      BY <2>3, <3>1, <3>2 DEF Connection
    <3>4. n - 1 \in DOMAIN Tail(backlog) /\ Tail(backlog)[n - 1] = backlog[n]
      BY <1>b, <2>1, <3>3
    <3> QED BY <2>1, <3>2, <3>4
  <2> QED BY <2>1, <2>4, <2>5
<1>6. CASE ServerDeniesStream /\ ~CleanupServer
  <2>1. /\ spc = "select" /\ sstate = "CREATE_STREAMS" /\ backlog # <<>>
        /\ backlog[1].from # sctrl.from
        /\ backlog' = Tail(backlog) /\ UNCHANGED <<sctrl, created, accepted>>
    BY <1>6, <1>b DEF ServerDeniesStream, Denied, serverVars, clientVars
  <2>2. ASSUME NEW k \in Len(accepted) + 1..created[sctrl.from]
        PROVE  \E n \in DOMAIN backlog' : backlog'[n] = Connection(sctrl.from, k)
    <3>1. PICK n \in DOMAIN backlog : backlog[n] = Connection(sctrl.from, k)
      BY <1>o, <2>1, <2>2
    <3>2. n # 1
      BY <2>1, <3>1 DEF Connection
    <3> QED BY <1>b, <2>1, <3>1, <3>2
  <2> QED BY <1>b, <1>o, <2>1, <2>2
<1>10. CASE UNCHANGED vars
  BY <1>10, <1>o DEF vars, netVars, serverVars, clientVars
\* No other step leaves the server accepting streams.
<1>x. ~(CleanupServer \/ ServerDenies \/ ServerReads \/ ServerExpires \/ ServerStarts \/ ServerStops)
  BY DEF CleanupServer, ServerDenies, ServerReads, ServerExpires, ServerStarts, ServerStops
<1>y. ServerAccepts \/ ServerExchangesResults => CleanupServer
  BY DEF ServerAccepts, ServerExchangesResults, ServerGivesUp
<1> HIDE DEF Goal
<1> QED
  BY <1>a, <1>3, <1>5, <1>6, <1>10, <1>x, <1>y
     DEF Next, ServerStep, ServerLeaves, ServerEnds, ServerTimesOut, Goal

LEMMA AnnouncedStep ==
  Types /\ Local /\ Serving /\ Placed /\ Queued /\ Awaited /\ Announced /\ [Next]_vars => Announced'
<1> SUFFICES ASSUME Types, Local, Serving, Placed, Queued, Awaited, Announced, [Next]_vars,
                    NEW c \in Clients
             PROVE  AnnouncedAt(c)'
  BY DEF Announced
<1>t. /\ up[c] \in Seq(ClientMessages) /\ down[c] \in Seq(Messages) /\ clast[c] \in Taken
      /\ created[c] \in Nat /\ NumStreams \in Nat /\ Len(accepted) \in Nat
      /\ backlog \in Seq(Connections) /\ accepted \in Seq(Connections)
      /\ "zero" \notin Messages
  BY NumStreamsAssumption, LenProperties DEF Types, ClientTypes, NetTypes, ServerTypes, Messages
<1>o. AnnouncedAt(c)
  BY DEF Announced
<1>a. ASSUME NEW i \in Clients, ClientStep(i) \/ ClientStops(i) \/ ClientVanishes(i)
      PROVE  AnnouncedAt(c)'
  <2>u. UNCHANGED <<spc, sctrl, accepted>>
    BY <1>a, ClientFrame DEF serverVars
  <2>1. CASE i # c
    BY <1>a, <1>o, <2>u, <2>1, ClientFrame DEF AnnouncedAt
  <2>2. CASE i = c
    <3>1. created'[c] \in Nat /\ created[c] <= created'[c]
      BY <1>a, <1>t, <2>2, Joins
    \* What is left to be read, and what was read.
    <3>2. /\ \A k \in DOMAIN down'[c] : \E l \in DOMAIN down[c] : down'[c][k] = down[c][l]
          /\ \/ clast'[c] = clast[c]
             \/ \E l \in DOMAIN down[c] : clast'[c] = down[c][l] /\ down[c][l] \in Messages
             \/ clast[c] = "TEST_RUNNING" /\ clast'[c] = "TEST_END"
      <4>1. down[c] # <<>> =>
              /\ 1 \in DOMAIN down[c] /\ Head(down[c]) = down[c][1] /\ Head(down[c]) \in Messages
              /\ \A k \in DOMAIN Tail(down[c]) : k + 1 \in DOMAIN down[c] /\ Tail(down[c])[k] = down[c][k + 1]
        BY <1>t, Shorter
      <4>2. CASE clast'[c] = clast[c] /\ down'[c] = down[c]
        BY <4>2
      <4>3. CASE down[c] # <<>> /\ clast'[c] \in {clast[c], Head(down[c])} /\ down'[c] = Tail(down[c])
        BY <4>1, <4>3
      <4>4. CASE clast[c] = "TEST_RUNNING" /\ clast'[c] = "TEST_END" /\ down'[c] = down[c]
        BY <4>4
      <4> QED BY <1>a, <2>2, <4>2, <4>3, <4>4, ClientTakes
    <3>3. \A k \in DOMAIN up'[c] :
            \/ \E l \in DOMAIN up[c] : up'[c][k] = up[c][l]
            \/ up'[c][k] = "IPERF_DONE"
            \/ up'[c][k] = "params" /\ clast[c] = "PARAM_EXCHANGE" /\ clast'[c] = clast[c]
            \/ clast[c] \in {"TEST_RUNNING", "EXCHANGE_RESULTS"}
      <4>1. CASE up'[c] = up[c]
        BY <4>1
      <4>2. ASSUME NEW m \in ClientMessages, up'[c] = Append(up[c], m),
                   m = "params" => clast[c] = "PARAM_EXCHANGE",
                   m = "TEST_END" => clast[c] = "TEST_RUNNING",
                   m = "results" => clast[c] = "EXCHANGE_RESULTS"
            PROVE  \A k \in DOMAIN up'[c] :
                     \/ \E l \in DOMAIN up[c] : up'[c][k] = up[c][l]
                     \/ up'[c][k] = "IPERF_DONE"
                     \/ up'[c][k] = "params" /\ clast[c] = "PARAM_EXCHANGE" /\ clast'[c] = clast[c]
                     \/ clast[c] \in {"TEST_RUNNING", "EXCHANGE_RESULTS"}
        <5>1. \A k \in DOMAIN up'[c] : (k \in DOMAIN up[c] /\ up'[c][k] = up[c][k]) \/ up'[c][k] = m
          BY <1>t, <4>2, Longer
        <5>2. Len(up'[c]) = Len(up[c]) + 1 /\ Len(up[c]) \in Nat
          BY <1>t, <4>2, Longer, LenProperties
        <5>3. up'[c] # up[c]
          BY <5>2
        <5>4. clast[c] = "PARAM_EXCHANGE" => clast'[c] = clast[c]
          BY <1>a, <2>2, <5>3, ClientTakes
        <5>5. m \in {"params", "TEST_END", "results", "IPERF_DONE"}
          BY <4>2 DEF ClientMessages
        <5> QED BY <4>2, <5>1, <5>4, <5>5
      <4> QED BY <1>a, <2>2, <4>1, <4>2, ClientSays
    <3>4. clast'[c] = "zero" => clast[c] = "zero"
      BY <1>t, <3>2
    <3>5. clast'[c] = "zero" => \A k \in DOMAIN up'[c] : up'[c][k] = "IPERF_DONE"
      BY <1>o, <3>3, <3>4 DEF AnnouncedAt
    <3>6. ASSUME sctrl = Connection(c, 0)
          PROVE  /\ spc = "params" =>
                      /\ clast'[c] \in {"zero", "PARAM_EXCHANGE"}
                      /\ \A k \in DOMAIN down'[c] : down'[c][k] = "PARAM_EXCHANGE"
                 /\ Len(accepted) <= created'[c]
                 /\ Len(accepted) # NumStreams =>
                      /\ spc # "results"
                      /\ clast'[c] \in Early
                      /\ \A k \in DOMAIN down'[c] : down'[c][k] \in Early
                      /\ \A k \in DOMAIN up'[c] : up'[c][k] \in {"params", "IPERF_DONE"}
      <4>1. spc = "params" =>
              /\ clast'[c] \in {"zero", "PARAM_EXCHANGE"}
              /\ \A k \in DOMAIN down'[c] : down'[c][k] = "PARAM_EXCHANGE"
        BY <1>o, <3>2, <3>6 DEF AnnouncedAt
      <4>2. Len(accepted) <= created'[c]
        BY <1>o, <1>t, <3>1, <3>6 DEF AnnouncedAt
      <4>3. ASSUME Len(accepted) # NumStreams
            PROVE  /\ spc # "results"
                   /\ clast'[c] \in Early
                   /\ \A k \in DOMAIN down'[c] : down'[c][k] \in Early
                   /\ \A k \in DOMAIN up'[c] : up'[c][k] \in {"params", "IPERF_DONE"}
        <5>1. /\ spc # "results" /\ clast[c] \in Early
              /\ \A k \in DOMAIN down[c] : down[c][k] \in Early
              /\ \A k \in DOMAIN up[c] : up[c][k] \in {"params", "IPERF_DONE"}
          BY <1>o, <3>6, <4>3 DEF AnnouncedAt
        <5>2. clast[c] \notin {"TEST_RUNNING", "EXCHANGE_RESULTS"}
          BY <5>1 DEF Early
        <5>3. clast'[c] \in Early
          BY <3>2, <5>1, <5>2
        <5>4. \A k \in DOMAIN down'[c] : down'[c][k] \in Early
          BY <3>2, <5>1
        <5> QED BY <3>3, <5>1, <5>2, <5>3, <5>4
      <4> QED BY <4>1, <4>2, <4>3
    <3> QED BY <2>u, <3>5, <3>6 DEF AnnouncedAt
  <2> QED BY <2>1, <2>2
\* What a step of the server leaves of what the client has said.
<1>u. ASSUME up'[c] = up[c] \/ (up[c] # <<>> /\ up'[c] = Tail(up[c]))
      PROVE  \A k \in DOMAIN up'[c] : \E l \in DOMAIN up[c] : up'[c][k] = up[c][l]
  <2>1. up[c] # <<>> => \A k \in DOMAIN Tail(up[c]) : k + 1 \in DOMAIN up[c] /\ Tail(up[c])[k] = up[c][k + 1]
    BY <1>t, Shorter
  <2> QED BY <1>u, <2>1
<1>z. ASSUME UNCHANGED clientVars, up'[c] = up[c] \/ (up[c] # <<>> /\ up'[c] = Tail(up[c]))
      PROVE  clast'[c] = "zero" => \A k \in DOMAIN up'[c] : up'[c][k] = "IPERF_DONE"
  BY <1>o, <1>u, <1>z DEF AnnouncedAt, clientVars
\* A server without a client.
<1>n. CASE sctrl' # Connection(c, 0) /\ UNCHANGED <<clientVars, up>>
  BY <1>z, <1>n DEF AnnouncedAt
<1>x. "CREATE_STREAMS" \in Messages /\ "EXCHANGE_RESULTS" \in Messages
  BY DEF Messages
<1>g. ASSUME NEW m, Gets(m), Takes
      PROVE  /\ up'[c] = up[c] \/ (up[c] # <<>> /\ up'[c] = Tail(up[c]))
             /\ sctrl = Connection(c, 0) => up[c] # <<>> /\ 1 \in DOMAIN up[c] /\ up[c][1] = m
  <2>1. sctrl = Connection(c, 0) => up[c] # <<>> /\ Head(up[c]) = m
    BY <1>g DEF Gets, Connection
  <2> QED BY <1>g, <1>t, <2>1, TakesOne, Shorter
<1>f. CASE CleanupServer
  <2>1. sctrl' # Connection(c, 0)
    BY <1>f, Connected, NumStreamsAssumption DEF CleanupServer
  <2> QED BY <1>f, <1>n, <2>1 DEF CleanupServer
<1>2. CASE ServerAccepts /\ ~CleanupServer
  <2>0. /\ 1 \in DOMAIN backlog /\ Head(backlog) = backlog[1]
    BY <1>2, <1>t, Shorter DEF ServerAccepts
  <2>1. /\ sctrl' = backlog[1] /\ spc' = "params" /\ UNCHANGED <<up, accepted, clientVars>> /\ ~Busy
        /\ down' = IF backlog[1].stream = 0 THEN Sent(down, backlog[1].from, "PARAM_EXCHANGE") ELSE down
    BY <1>2, <2>0 DEF ServerAccepts, ServerGivesUp
  <2>2. CASE backlog[1] = Connection(c, 0)
    <3>1. clast[c] = "zero" /\ down[c] = <<>>
      BY <2>0, <2>2 DEF Placed, PlacedAt
    <3>2. down'[c] = <<"PARAM_EXCHANGE">>
      BY <2>1, <2>2, <3>1 DEF Connection, Sent, Types, NetTypes
    <3>3. Len(accepted) = 0
      BY <2>1, Empty DEF Serving
    <3>4. \A k \in DOMAIN up[c] : up[c][k] = "IPERF_DONE"
      BY <1>o, <3>1 DEF AnnouncedAt
    <3> QED BY <1>t, <2>1, <3>1, <3>2, <3>3, <3>4 DEF AnnouncedAt, Early, clientVars
  <2>3. CASE backlog[1] # Connection(c, 0)
    BY <1>n, <2>1, <2>3
  <2> QED BY <2>2, <2>3
<1>3. CASE ServerGetsParams /\ ~CleanupServer
  <2>1. /\ Gets("params") /\ Takes /\ Tells("CREATE_STREAMS") /\ spc = "params" /\ spc' = "select"
        /\ UNCHANGED <<sctrl, accepted, clientVars>>
    BY <1>3 DEF ServerGetsParams, ServerGivesUp
  <2>2. up'[c] = up[c] \/ (up[c] # <<>> /\ up'[c] = Tail(up[c]))
    BY <1>g, <2>1
  <2>3. sctrl = Connection(c, 0) => \A k \in DOMAIN down'[c] : down'[c][k] \in Early
    <3>1. sctrl = Connection(c, 0) => down'[c] = Append(down[c], "CREATE_STREAMS")
      BY <1>x, <2>1, TellsOne
    <3>2. sctrl = Connection(c, 0) => \A k \in DOMAIN down[c] : down[c][k] = "PARAM_EXCHANGE"
      BY <1>o, <2>1 DEF AnnouncedAt
    <3>3. \A k \in DOMAIN Append(down[c], "CREATE_STREAMS") :
            \/ k \in DOMAIN down[c] /\ Append(down[c], "CREATE_STREAMS")[k] = down[c][k]
            \/ Append(down[c], "CREATE_STREAMS")[k] = "CREATE_STREAMS"
      BY <1>t, <1>x, Longer
    <3> QED BY <3>1, <3>2, <3>3 DEF Early
  <2>4. Len(accepted) = 0 /\ Len(accepted) # NumStreams
    BY <2>1, Empty, NumStreamsAssumption DEF Serving
  <2>5. sctrl = Connection(c, 0) => \A k \in DOMAIN up'[c] : up'[c][k] \in {"params", "IPERF_DONE"}
    BY <1>o, <1>u, <2>2, <2>4 DEF AnnouncedAt
  <2>6. sctrl = Connection(c, 0) => clast[c] \in Early /\ Len(accepted) <= created[c]
    BY <1>o, <2>4 DEF AnnouncedAt
  <2> QED BY <1>z, <2>1, <2>2, <2>3, <2>5, <2>6 DEF AnnouncedAt, clientVars
<1>d. CASE /\ backlog # <<>> /\ Denied(Head(backlog)) /\ spc = "select" /\ spc' \in {"select", "leaving"}
           /\ UNCHANGED <<sctrl, accepted, up, clientVars>>
  <2>0. 1 \in DOMAIN backlog
    BY <1>d, <1>t, Shorter
  <2>1. sctrl = Connection(c, 0) => down'[c] = down[c]
    BY <1>d, <2>0, DeniesOne DEF Placed, PlacedAt
  <2> QED BY <1>d, <1>o, <2>1 DEF AnnouncedAt, clientVars
<1>4. CASE ServerDenies
  BY <1>4, <1>d DEF ServerDenies
<1>5. CASE ServerAcceptsStream /\ ~CleanupServer
  <2>1. /\ spc = "select" /\ sstate = "CREATE_STREAMS" /\ backlog # <<>>
        /\ Head(backlog) = Connection(sctrl.from, Len(accepted) + 1)
        /\ UNCHANGED <<sctrl, spc, up, clientVars>> /\ accepted' = Append(accepted, Head(backlog))
    BY <1>5, NextStream DEF ServerAcceptsStream, ServerGivesUp
  <2>2. Len(accepted') = Len(accepted) + 1 /\ Len(accepted) < NumStreams
        /\ Head(backlog) = backlog[1] /\ 1 \in DOMAIN backlog
    BY <1>t, <2>1, Longer, Shorter DEF Serving
  <2>3. sctrl = Connection(c, 0) => Len(accepted') <= created[c]
    BY <2>1, <2>2 DEF Queued, Connection
  <2>4. Len(accepted') # NumStreams => UNCHANGED down
    BY <1>5, <2>1 DEF ServerAcceptsStream, ServerGivesUp
  <2>5. Len(accepted) # NumStreams
    BY <1>t, <2>2
  <2> QED BY <1>o, <2>1, <2>3, <2>4, <2>5 DEF AnnouncedAt, clientVars
<1>6. CASE ServerDeniesStream /\ ~CleanupServer
  BY <1>6, <1>d DEF ServerDeniesStream, serverVars
<1>7. CASE ServerReads
  <2>1. /\ Gets("TEST_END") /\ Takes /\ spc = "select" /\ spc' = "results"
        /\ UNCHANGED <<sctrl, accepted, clientVars>>
    BY <1>7 DEF ServerReads
  <2>2. /\ up'[c] = up[c] \/ (up[c] # <<>> /\ up'[c] = Tail(up[c]))
        /\ sctrl = Connection(c, 0) => 1 \in DOMAIN up[c] /\ up[c][1] = "TEST_END"
    BY <1>g, <2>1
  <2>3. sctrl = Connection(c, 0) => Len(accepted) = NumStreams /\ Len(accepted) <= created[c]
    BY <1>o, <2>2 DEF AnnouncedAt
  <2> QED BY <1>z, <2>1, <2>2, <2>3 DEF AnnouncedAt, clientVars
<1>8. CASE ServerExchangesResults /\ ~CleanupServer
  <2>1. /\ Gets("results") /\ Takes /\ spc = "results" /\ spc' = "select"
        /\ UNCHANGED <<sctrl, accepted, clientVars>>
    BY <1>8 DEF ServerExchangesResults, ServerGivesUp
  <2>2. up'[c] = up[c] \/ (up[c] # <<>> /\ up'[c] = Tail(up[c]))
    BY <1>g, <2>1
  <2>3. sctrl = Connection(c, 0) => Len(accepted) = NumStreams /\ Len(accepted) <= created[c]
    BY <1>o, <2>1 DEF AnnouncedAt
  <2> QED BY <1>z, <2>1, <2>2, <2>3 DEF AnnouncedAt, clientVars
<1>9. CASE ServerExpires
  <2>1. sctrl' # Connection(c, 0)
    BY <1>9, Connected, NumStreamsAssumption DEF ServerExpires
  <2> QED BY <1>9, <1>n, <2>1 DEF ServerExpires
<1>10. CASE ServerStarts
  <2>1. sctrl # Connection(c, 0) /\ UNCHANGED <<sctrl, up, clientVars>>
    BY <1>10, Serves DEF ServerStarts, Serving, netVars
  <2> QED BY <1>n, <2>1
<1>11. CASE ServerStops \/ UNCHANGED vars
  BY <1>11, <1>o DEF ServerStops, vars, netVars, serverVars, clientVars, AnnouncedAt
<1> QED
  BY <1>a, <1>f, <1>2, <1>3, <1>4, <1>5, <1>6, <1>7, <1>8, <1>9, <1>10, <1>11
     DEF Next, ServerStep, ServerLeaves, ServerEnds, ServerTimesOut

LEMMA SuccessStep == Types /\ Local /\ Serving /\ Success /\ [Next]_vars => Success'
<1> SUFFICES ASSUME Types, Local, Serving, Success, [Next]_vars, NEW c \in Clients
             PROVE  SuccessAt(c)'
  BY DEF Success
<1>t. /\ down[c] \in Seq(Messages) /\ "IPERF_DONE" \notin Messages /\ ClientTypes /\ WorldTypes /\ NetTypes
      /\ {"PARAM_EXCHANGE", "SERVER_ERROR", "ACCESS_DENIED", "CREATE_STREAMS", "TEST_START",
          "TEST_RUNNING", "EXCHANGE_RESULTS", "results", "DISPLAY_RESULTS"} \subseteq Messages
  BY DEF Types, NetTypes, Messages
<1>o. SuccessAt(c)
  BY DEF Success
<1>a. ASSUME NEW i \in Clients, ClientStep(i) \/ ClientStops(i) \/ ClientVanishes(i)
      PROVE  SuccessAt(c)'
  <2>u. served' = served
    BY <1>a, ClientFrame DEF serverVars
  <2>1. CASE i # c
    BY <1>a, <1>o, <2>u, <2>1, ClientFrame DEF SuccessAt
  <2>2. CASE i = c
    <3>h. down[c] # <<>> =>
            /\ 1 \in DOMAIN down[c] /\ Head(down[c]) = down[c][1] /\ Head(down[c]) \in Messages
            /\ \A k \in DOMAIN Tail(down[c]) : k + 1 \in DOMAIN down[c] /\ Tail(down[c])[k] = down[c][k + 1]
      BY <1>t, Shorter
    <3>1. /\ clast'[c] = "DISPLAY_RESULTS" => c \in served
          /\ \A k \in DOMAIN down'[c] : down'[c][k] = "DISPLAY_RESULTS" => c \in served
      <4>1. CASE clast'[c] = clast[c] /\ down'[c] = down[c]
        BY <1>o, <4>1 DEF SuccessAt
      <4>2. CASE down[c] # <<>> /\ clast'[c] \in {clast[c], Head(down[c])} /\ down'[c] = Tail(down[c])
        BY <1>o, <3>h, <4>2 DEF SuccessAt
      <4>3. CASE clast[c] = "TEST_RUNNING" /\ clast'[c] = "TEST_END" /\ down'[c] = down[c]
        BY <1>o, <4>3 DEF SuccessAt
      <4> QED BY <1>a, <2>2, <4>1, <4>2, <4>3, ClientTakes
    <3>2. /\ cstate'[c] = "IPERF_DONE" /\ ~stopped'[c] /\ cpc'[c] # "exit" => c \in served
          /\ cresult'[c] = "ok" /\ ~stopped'[c] => c \in served
      <4> USE DEF Goes, Put, worldVars
      <4>f. CASE ClientFail(c)
        BY <1>t, <4>f DEF ClientFail, ClientTypes
      <4>1. CASE ClientStarts(c) \/ ClientLoops(c) \/ ClientLeaves(c) \/ ClientWakes(c)
        BY <1>t, <1>o, <4>1
           DEF ClientStarts, ClientLoops, ClientLeaves, ClientWakes, ClientTypes, SuccessAt
      <4>2. CASE ClientConnect(c) /\ ~ClientFail(c)
        BY <1>t, <1>o, <4>2 DEF ClientConnect, ClientGivesUp, ClientTypes, SuccessAt
      <4>3. CASE ClientRead(c)
        BY <1>t, <1>o, <3>h, <4>3 DEF ClientRead, ClientTypes, SuccessAt
      <4>4. CASE ClientHandle(c) /\ ~ClientFail(c)
        <5>1. CASE Handles(c, "DISPLAY_RESULTS")
          <6>1. clast[c] = "DISPLAY_RESULTS"
            BY <5>1 DEF Handles, Local
          <6> QED BY <1>o, <6>1 DEF SuccessAt
        <5>2. CASE ~Handles(c, "DISPLAY_RESULTS")
          <6>1. UNCHANGED <<cstate, stopped, cresult>> /\ cpc[c] # "exit"
            BY <4>4, <5>2 DEF ClientHandle, ClientGivesUp, Handles
          <6> QED BY <1>o, <6>1 DEF SuccessAt
        <5> QED BY <5>1, <5>2
      <4>5. CASE ClientCreatesStream(c) /\ ~ClientFail(c)
        BY <1>t, <1>o, <4>5 DEF ClientCreatesStream, ClientGivesUp, ClientTypes, SuccessAt
      <4>6. CASE ClientGetsResults(c) /\ ~ClientFail(c)
        BY <1>t, <1>o, <4>6 DEF ClientGetsResults, ClientGivesUp, ClientTypes, SuccessAt
      <4>7. CASE ClientBody(c)
        BY <1>t, <1>o, <4>7 DEF ClientBody, ClientTypes, SuccessAt
      <4>8. CASE ClientSendsTestEnd(c) /\ ~ClientFail(c)
        BY <1>t, <1>o, <4>8 DEF ClientSendsTestEnd, ClientGivesUp, ClientTypes, SuccessAt
      <4>9. CASE ClientStops(c)
        BY <1>t, <4>9 DEF ClientStops, WorldTypes
      <4>10. CASE ClientVanishes(c)
        BY <1>o, <4>10 DEF ClientVanishes, clientVars, SuccessAt
      <4> QED
        BY <1>a, <2>2, <4>f, <4>1, <4>2, <4>3, <4>4, <4>5, <4>6, <4>7, <4>8, <4>9, <4>10
           DEF ClientStep, ClientLoses
    <3> QED BY <2>u, <3>1, <3>2 DEF SuccessAt
  <2> QED BY <2>1, <2>2
\* Steps of the server that say something else, or nothing.
<1>m. ASSUME NEW m \in Messages, m # "DISPLAY_RESULTS", down'[c] \in {down[c], Append(down[c], m)},
             UNCHANGED <<clientVars, worldVars, served>>
      PROVE  SuccessAt(c)'
  <2>1. \A k \in DOMAIN down'[c] : (k \in DOMAIN down[c] /\ down'[c][k] = down[c][k]) \/ down'[c][k] = m
    BY <1>m, <1>t, Longer
  <2> QED BY <1>m, <1>o, <2>1 DEF SuccessAt, clientVars, worldVars
<1>f. CASE CleanupServer
  BY <1>f, <1>m, <1>t, CleanupOne DEF CleanupServer
<1>2. CASE ServerAccepts /\ ~CleanupServer
  <2>1. /\ UNCHANGED <<clientVars, worldVars, served>>
        /\ down' = IF sctrl'.stream = 0 THEN Sent(down, sctrl'.from, "PARAM_EXCHANGE") ELSE down
    BY <1>2 DEF ServerAccepts, ServerGivesUp
  <2>2. down'[c] \in {down[c], Append(down[c], "PARAM_EXCHANGE")}
    BY <1>t, <2>1 DEF Sent, NetTypes
  <2> QED BY <1>m, <1>t, <2>1, <2>2
<1>3. CASE ServerGetsParams /\ ~CleanupServer
  BY <1>3, <1>m, <1>t, TellsOne DEF ServerGetsParams, ServerGivesUp
<1>4. CASE ServerDenies
  BY <1>4, <1>m, <1>t, DeniesOne DEF ServerDenies
<1>5. CASE ServerAcceptsStream /\ ~CleanupServer
  <2>1. UNCHANGED <<clientVars, worldVars, served>>
    BY <1>5 DEF ServerAcceptsStream, ServerGivesUp
  <2>2. CASE down'[c] = down[c]
    BY <1>m, <1>t, <2>1, <2>2
  <2>3. CASE down'[c] = Append(Append(down[c], "TEST_START"), "TEST_RUNNING")
    <3> DEFINE s == Append(down[c], "TEST_START")
    <3>1. /\ s \in Seq(Messages)
          /\ \A k \in DOMAIN s : (k \in DOMAIN down[c] /\ s[k] = down[c][k]) \/ s[k] = "TEST_START"
      BY <1>t, Longer
    <3> HIDE DEF s
    <3>2. \A k \in DOMAIN Append(s, "TEST_RUNNING") :
            \/ k \in DOMAIN s /\ Append(s, "TEST_RUNNING")[k] = s[k]
            \/ Append(s, "TEST_RUNNING")[k] = "TEST_RUNNING"
      BY <1>t, <3>1, Longer
    <3>3. \A k \in DOMAIN down'[c] : down'[c][k] = "DISPLAY_RESULTS" => c \in served
      BY <1>o, <2>3, <3>1, <3>2 DEF SuccessAt, s
    <3> QED BY <1>o, <2>1, <3>3 DEF SuccessAt, clientVars, worldVars
  <2>4. StartsTest => sctrl.stream = 0
    BY <1>5 DEF ServerAcceptsStream, Serving
  <2> QED BY <1>5, <2>2, <2>3, <2>4, TellsStart DEF ServerAcceptsStream, ServerGivesUp
<1>6. CASE ServerDeniesStream /\ ~CleanupServer
  BY <1>6, <1>m, <1>t, DeniesOne DEF ServerDeniesStream, serverVars
<1>7. CASE ServerReads
  BY <1>7, <1>m, <1>t, TellsOne DEF ServerReads
<1>8. CASE ServerExchangesResults /\ ~CleanupServer
  <2>1. served' = served \cup {sctrl.from} /\ UNCHANGED <<clientVars, worldVars>>
    BY <1>8 DEF ServerExchangesResults, ServerGivesUp
  <2>2. CASE sctrl = Connection(c, 0)
    <3>1. c \in served'
      BY <2>1, <2>2 DEF Connection
    <3> QED BY <3>1 DEF SuccessAt
  <2>3. CASE sctrl # Connection(c, 0)
    <3>1. down'[c] = down[c]
      BY <1>8, <2>3, TellsResults
    <3> QED BY <1>o, <2>1, <3>1 DEF SuccessAt, clientVars, worldVars
  <2> QED BY <2>2, <2>3
<1>9. CASE ServerExpires
  BY <1>9, <1>m, <1>t, TellsOne DEF ServerExpires
<1>10. CASE ServerStarts \/ ServerStops \/ UNCHANGED vars
  <2>1. UNCHANGED <<down, served, clientVars, worldVars>>
    BY <1>10 DEF ServerStarts, ServerStops, netVars, vars, serverVars
  <2> QED BY <1>m, <1>t, <2>1
<1> QED
  BY <1>a, <1>f, <1>2, <1>3, <1>4, <1>5, <1>6, <1>7, <1>8, <1>9, <1>10
     DEF Next, ServerStep, ServerLeaves, ServerEnds, ServerTimesOut
-----------------------------------------------------------------------------
(* The order of messages.                                                  *)

\* The ways a client that will look at its connection again has to go on: in silence; after
\* a message or the results it has taken; after its parameters, TEST_END or its results.
Silent(i) ==
  /\ clast'[i] = clast[i] /\ up'[i] = up[i] /\ down'[i] = down[i]
  /\ cpc'[i] = "handle" => cpc[i] = "handle"
  /\ cpc'[i] = "results" <=> cpc[i] = "results"
  /\ cpc[i] = "handle" /\ cpc'[i] # "handle" => clast[i] # "EXCHANGE_RESULTS"

Hears(i) ==
  /\ down[i] # <<>> /\ down'[i] = Tail(down[i]) /\ up'[i] = up[i]
  /\ \/ cpc[i] = "select" /\ cpc'[i] = "handle" /\ clast'[i] = Head(down[i])
     \/ /\ cpc[i] = "results" /\ cpc'[i] = "body" /\ clast'[i] = clast[i]
        /\ Head(down[i]) = "results"

Speaks(i, from, last, m, to, next) ==
  /\ cpc[i] = from /\ clast[i] = last /\ down'[i] = down[i]
  /\ up'[i] = Append(up[i], m) /\ cpc'[i] = to /\ clast'[i] = next

Turns(i) ==
  \/ Past(i)' /\ clast'[i] = clast[i]
  \/ Silent(i)
  \/ Hears(i)
  \/ Speaks(i, "handle", "PARAM_EXCHANGE", "params", "body", "PARAM_EXCHANGE")
  \/ Speaks(i, "ending", "TEST_RUNNING", "TEST_END", "head", "TEST_END")
  \/ Speaks(i, "handle", "EXCHANGE_RESULTS", "results", "results", "EXCHANGE_RESULTS")

LEMMA ClientTurns ==
  ASSUME Types, Local, NEW i \in Clients, ClientStep(i) \/ ClientStops(i) \/ ClientVanishes(i)
  PROVE  (Past(i) => Past(i)') /\ Turns(i)
<1>t. ClientTypes /\ WorldTypes /\ NetTypes
  BY DEF Types
<1> USE DEF Goes, Put, netVars
<1>f. CASE ClientFail(i)
  BY <1>t, <1>f DEF ClientFail, ClientTypes, Past, Turns
<1>1. CASE ClientStarts(i) \/ ClientLoops(i) \/ ClientWakes(i)
  <2>1. Silent(i)
    BY <1>t, <1>1 DEF ClientStarts, ClientLoops, ClientWakes, ClientTypes, Silent
  <2>2. ~Past(i)
    BY <1>1 DEF ClientStarts, ClientLoops, ClientWakes, Past
  <2> QED BY <2>1, <2>2 DEF Turns
<1>l. CASE ClientLeaves(i)
  BY <1>t, <1>l DEF ClientLeaves, ClientTypes, Past, Turns
<1>2. CASE ClientConnect(i) /\ ~ClientFail(i)
  <2>1. Silent(i)
    BY <1>t, <1>2 DEF ClientConnect, ClientGivesUp, ClientTypes, Silent
  <2>2. ~Past(i)
    BY <1>2 DEF ClientConnect, Past
  <2> QED BY <2>1, <2>2 DEF Turns
<1>3. CASE ClientRead(i)
  <2>1. Hears(i) /\ ~Past(i)
    BY <1>t, <1>3 DEF ClientRead, ClientTypes, NetTypes, Hears, Past
  <2> QED BY <2>1 DEF Turns
<1>4. CASE ClientHandle(i) /\ ~ClientFail(i)
  <2>1. /\ cpc[i] = "handle" /\ csock[i] # "none" /\ ~Past(i)
        /\ cstate[i] \in {clast[i], "IPERF_DONE"} /\ clast[i] # "IPERF_DONE"
    BY <1>t, <1>4 DEF ClientHandle, Handles, Local, Past, ClientTypes, Taken, Messages
  <2>2. CASE /\ \E s \in {"TEST_RUNNING", "IPERF_DONE"} : Handles(i, s)
             /\ Goes(i, "body")
             /\ UNCHANGED <<cstate, cdone, clast, created, cworkers, csock, cresult, netVars,
                            worldVars, serverVars>>
    <3>1. CASE cstate[i] = "IPERF_DONE"
      BY <1>t, <2>1, <2>2, <3>1 DEF ClientTypes, Past, Turns
    <3>2. CASE cstate[i] # "IPERF_DONE"
      <4>1. clast[i] = "TEST_RUNNING"
        BY <2>1, <2>2, <3>2 DEF Handles
      <4>2. Silent(i)
        BY <1>t, <2>1, <2>2, <4>1 DEF ClientTypes, Silent
      <4> QED BY <2>1, <4>2 DEF Turns
    <3> QED BY <3>1, <3>2
  <2>3. CASE Handles(i, "PARAM_EXCHANGE")
    <3>1. clast[i] = "PARAM_EXCHANGE"
      BY <2>1, <2>3 DEF Handles
    <3>2. CASE cpc' = Put(cpc, i, "body") /\ clast' = clast
               /\ up' = Sent(up, i, "params") /\ down' = down
      BY <1>t, <2>1, <3>1, <3>2 DEF ClientTypes, NetTypes, Sent, Speaks, Turns
    <3> QED BY <1>4, <2>1, <2>2, <3>1, <3>2 DEF ClientHandle, ClientGivesUp, Handles
  <2>4. CASE Handles(i, "EXCHANGE_RESULTS")
    <3>1. clast[i] = "EXCHANGE_RESULTS"
      BY <2>1, <2>4 DEF Handles
    <3>2. CASE cpc' = Put(cpc, i, "results") /\ clast' = clast
               /\ up' = Sent(up, i, "results") /\ down' = down
      BY <1>t, <2>1, <3>1, <3>2 DEF ClientTypes, NetTypes, Sent, Speaks, Turns
    <3> QED BY <1>4, <2>1, <2>2, <3>1, <3>2 DEF ClientHandle, ClientGivesUp, Handles
  <2>5. CASE Handles(i, "CREATE_STREAMS") \/ Handles(i, "TEST_START")
    <3>1. clast[i] \in {"CREATE_STREAMS", "TEST_START"}
      BY <2>1, <2>5 DEF Handles
    <3>2. CASE /\ cpc' = [cpc EXCEPT ![i] = "streams"] \/ cpc' = [cpc EXCEPT ![i] = "body"]
               /\ UNCHANGED <<clast, up, down>>
      <4>1. Silent(i)
        BY <1>t, <2>1, <3>1, <3>2 DEF ClientTypes, Silent
      <4> QED BY <2>1, <4>1 DEF Turns
    <3> QED BY <1>4, <2>1, <2>2, <3>1, <3>2 DEF ClientHandle, ClientGivesUp, Handles
  <2>6. CASE Handles(i, "DISPLAY_RESULTS")
    <3>1. clast[i] = "DISPLAY_RESULTS"
      BY <2>1, <2>6 DEF Handles
    <3>2. CASE Goes(i, "body") /\ ClientEnd(i) /\ UNCHANGED clast
      <4>1. cstate' = Put(cstate, i, "IPERF_DONE")
        BY <2>1, <3>1, <3>2 DEF ClientEnd
      <4> QED BY <1>t, <2>1, <3>2, <4>1 DEF ClientTypes, Past, Turns
    <3> QED BY <1>4, <2>1, <2>2, <3>1, <3>2 DEF ClientHandle, ClientGivesUp, Handles
  <2> QED BY <1>4, <2>1, <2>2, <2>3, <2>4, <2>5, <2>6 DEF ClientHandle
<1>5. CASE ClientCreatesStream(i) /\ ~ClientFail(i)
  <2>1. Silent(i)
    BY <1>t, <1>5 DEF ClientCreatesStream, ClientGivesUp, ClientTypes, Silent
  <2>2. ~Past(i)
    BY <1>5 DEF ClientCreatesStream, Past
  <2> QED BY <2>1, <2>2 DEF Turns
<1>6. CASE ClientGetsResults(i) /\ ~ClientFail(i)
  <2>1. Hears(i) /\ ~Past(i)
    BY <1>t, <1>6 DEF ClientGetsResults, ClientGivesUp, ClientTypes, NetTypes, Hears, Past
  <2> QED BY <2>1 DEF Turns
<1>7. CASE ClientBody(i)
  <2>1. /\ cpc[i] = "body" /\ cpc'[i] \in {"head", "ending"} /\ UNCHANGED <<clast, up, down, cstate>>
        /\ cstate[i] # "TEST_RUNNING" => cpc'[i] = "head"
    BY <1>t, <1>7 DEF ClientBody, ClientTypes
  <2>2. Silent(i)
    BY <2>1 DEF Silent
  <2>3. Past(i) => Past(i)'
    BY <2>1 DEF Past
  <2> QED BY <2>2, <2>3 DEF Turns
<1>8. CASE ClientSendsTestEnd(i) /\ ~ClientFail(i)
  <2>1. Speaks(i, "ending", "TEST_RUNNING", "TEST_END", "head", "TEST_END") /\ ~Past(i)
    BY <1>t, <1>8 DEF ClientSendsTestEnd, ClientGivesUp, ClientTypes, NetTypes, Local, Sent, Speaks, Past
  <2> QED BY <2>1 DEF Turns
<1>9. CASE ClientStops(i)
  <2>1. Silent(i)
    BY <1>9 DEF ClientStops, Silent
  <2>2. Past(i) => Past(i)'
    BY <1>t, <1>9 DEF ClientStops, ClientTypes, Past
  <2> QED BY <2>1, <2>2 DEF Turns
<1>10. CASE ClientVanishes(i)
  BY <1>10 DEF ClientVanishes, clientVars, Silent, Turns, Past
<1> QED
  BY <1>f, <1>1, <1>l, <1>2, <1>3, <1>4, <1>5, <1>6, <1>7, <1>8, <1>9, <1>10 DEF ClientStep, ClientLoses

\* One more message, and one less.
LEMMA ChainGrows ==
  ASSUME NEW h, NEW q \in Seq(Messages), NEW m \in Messages, Chain(h, q), Follows(Last(h, q), m)
  PROVE  Chain(h, Append(q, m)) /\ Last(h, Append(q, m)) = m /\ Append(q, m) # <<>>
<1>1. /\ Len(q) \in Nat /\ DOMAIN q = 1..Len(q) /\ Len(Append(q, m)) = Len(q) + 1
      /\ \A k \in DOMAIN q : Append(q, m)[k] = q[k]
      /\ Append(q, m)[Len(q) + 1] = m
      /\ \A k \in DOMAIN Append(q, m) : k \in DOMAIN q \/ k = Len(q) + 1
      /\ (q = <<>> <=> Len(q) = 0)
  BY Longer, LenProperties, EmptySeq
<1>2. Append(q, m) # <<>>
  BY <1>1, Empty
<1>3. ASSUME NEW k \in DOMAIN Append(q, m)
      PROVE  Follows(IF k = 1 THEN h ELSE Append(q, m)[k - 1], Append(q, m)[k])
  <2>1. CASE k \in DOMAIN q
    <3>1. k # 1 => k - 1 \in DOMAIN q
      BY <1>1, <2>1
    <3> QED BY <1>1, <2>1, <3>1 DEF Chain
  <2>2. CASE k = Len(q) + 1
    <3>1. (IF k = 1 THEN h ELSE Append(q, m)[k - 1]) = Last(h, q)
      <4>1. CASE q = <<>>
        BY <1>1, <2>2, <4>1 DEF Last
      <4>2. CASE q # <<>>
        <5>1. k # 1 /\ k - 1 = Len(q) /\ Len(q) \in DOMAIN q
          BY <1>1, <2>2, <4>2
        <5>2. Append(q, m)[k - 1] = q[Len(q)]
          BY <1>1, <5>1
        <5> QED BY <4>2, <5>1, <5>2 DEF Last
      <4> QED BY <4>1, <4>2
    <3> QED BY <1>1, <2>2, <3>1
  <2> QED BY <1>1, <1>3, <2>1, <2>2
<1> QED BY <1>1, <1>2, <1>3 DEF Chain, Last

LEMMA ChainShrinks ==
  ASSUME NEW h, NEW q \in Seq(Messages), q # <<>>, Chain(h, q)
  PROVE  /\ Follows(h, Head(q)) /\ Head(q) \in Messages
         /\ Chain(Head(q), Tail(q)) /\ Last(Head(q), Tail(q)) = Last(h, q)
<1>1. /\ Tail(q) \in Seq(Messages) /\ Len(Tail(q)) = Len(q) - 1 /\ Len(q) \in Nat /\ Len(Tail(q)) \in Nat
      /\ 1 \in DOMAIN q /\ Head(q) = q[1] /\ Head(q) \in Messages
      /\ \A k \in DOMAIN Tail(q) : k + 1 \in DOMAIN q /\ Tail(q)[k] = q[k + 1]
      /\ DOMAIN q = 1..Len(q) /\ DOMAIN Tail(q) = 1..Len(Tail(q))
      /\ (Tail(q) = <<>> <=> Len(Tail(q)) = 0)
  BY Shorter, LenProperties, EmptySeq
<1>2. ASSUME NEW k \in DOMAIN Tail(q)
      PROVE  Follows(IF k = 1 THEN Head(q) ELSE Tail(q)[k - 1], Tail(q)[k])
  <2>1. /\ k \in Nat /\ k >= 1 /\ k + 1 \in DOMAIN q /\ Tail(q)[k] = q[k + 1] /\ k + 1 # 1
    BY <1>1, <1>2
  <2>2. (IF k = 1 THEN Head(q) ELSE Tail(q)[k - 1]) = q[(k + 1) - 1]
    <3>1. CASE k = 1
      BY <1>1, <3>1
    <3>2. CASE k # 1
      <4> DEFINE j == k - 1
      <4>1. j \in DOMAIN Tail(q) /\ j + 1 = (k + 1) - 1
        BY <1>1, <1>2, <2>1, <3>2
      <4>2. Tail(q)[j] = q[j + 1]
        <5> HIDE DEF j
        <5> QED BY <1>1, <4>1
      <4> QED BY <3>2, <4>1, <4>2
    <3> QED BY <3>1, <3>2
  <2> QED BY <2>1, <2>2 DEF Chain
<1>3. Last(Head(q), Tail(q)) = Last(h, q)
  BY <1>1 DEF Last
<1>4. Follows(h, Head(q))
  BY <1>1 DEF Chain
<1> QED BY <1>1, <1>2, <1>3, <1>4 DEF Chain

\* A client's own step keeps its messages in order.
LEMMA InOrderClient ==
  ASSUME IInv, NEW i \in Clients, ClientStep(i) \/ ClientStops(i) \/ ClientVanishes(i)
  PROVE  InOrderAt(i)'
<1>t. /\ up[i] \in Seq(ClientMessages) /\ down[i] \in Seq(Messages) /\ clast[i] \in Taken
      /\ Types /\ Local /\ InOrderAt(i) /\ AnnouncedAt(i)
      /\ UNCHANGED <<spc, sstate, sctrl>>
  <2>1. Types /\ Local /\ InOrderAt(i) /\ AnnouncedAt(i)
    BY DEF IInv, InOrder, Announced
  <2>2. UNCHANGED <<spc, sstate, sctrl>>
    BY <2>1, ClientFrame DEF serverVars
  <2> QED BY <2>1, <2>2 DEF Types, ClientTypes, NetTypes
<1>m. \A m \in Messages : m \notin {"zero", "TEST_END", "IPERF_DONE"}
  BY DEF Messages
<1>p. (Past(i) => Past(i)') /\ Turns(i)
  BY <1>t, ClientTurns
<1>r. cpc[i] = "results" => clast[i] = "EXCHANGE_RESULTS"
  BY <1>t DEF Local
<1> DEFINE Clean == clast'[i] # "results" /\ \A k \in DOMAIN up'[i] : up'[i][k] = "IPERF_DONE" => Past(i)'
           Goal == Chain(Heard(i)', down'[i]) /\ (sctrl = Connection(i, 0) => Told(i)' /\ Answers(i)')
<1>e. CASE Past(i)' /\ clast'[i] = clast[i]
  BY <1>t, <1>e DEF InOrderAt
<1>c. ASSUME ~Past(i)' PROVE Chain(Heard(i), down[i]) /\ (sctrl = Connection(i, 0) => Told(i) /\ Answers(i))
  BY <1>t, <1>p, <1>c DEF InOrderAt
\* Until then it has not sent IPERF_DONE.
<1>d. ASSUME up'[i] = up[i] \/ \E m \in {"params", "TEST_END", "results"} : up'[i] = Append(up[i], m),
             clast'[i] # "results"
      PROVE  Clean
  <2>1. CASE up'[i] = up[i]
    BY <1>t, <1>p, <1>d, <2>1 DEF InOrderAt
  <2>2. ASSUME NEW m \in {"params", "TEST_END", "results"}, up'[i] = Append(up[i], m) PROVE Clean
    <3>1. \A k \in DOMAIN up'[i] : (k \in DOMAIN up[i] /\ up'[i][k] = up[i][k]) \/ up'[i][k] = m
      BY <1>t, <2>2, Longer DEF ClientMessages
    <3> QED BY <1>t, <1>p, <1>d, <2>2, <3>1 DEF InOrderAt
  <2> QED BY <1>d, <2>1, <2>2
<1>q. ASSUME Clean, ~Past(i)' => Goal PROVE InOrderAt(i)'
  BY <1>q, <1>t DEF InOrderAt
<1> HIDE DEF Goal, Clean
<1>1. CASE Silent(i)
  <2>1. Clean
    BY <1>d, <1>t, <1>1 DEF Silent, InOrderAt
  <2>2. ASSUME ~Past(i)' PROVE Goal
    <3>1. Heard(i)' = Heard(i)
      BY <1>1 DEF Silent, Heard
    <3>2. Said(i)' = Said(i)
      BY <1>1, <3>1 DEF Silent, Said
    <3>3. Told(i) => Told(i)'
      BY <1>1, <1>t, <3>2 DEF Silent, Told
    <3>4. Answers(i) => Answers(i)'
      BY <1>1 DEF Silent, Answers
    <3> QED BY <1>1, <1>c, <2>2, <3>1, <3>3, <3>4 DEF Silent, Goal
  <2> QED BY <1>q, <2>1, <2>2
<1>2. CASE Hears(i) /\ ~Past(i)'
  <2>1. Chain(Heard(i), down[i]) /\ (sctrl = Connection(i, 0) => Told(i) /\ Answers(i))
    BY <1>c, <1>2
  <2>2. /\ Follows(Heard(i), Head(down[i])) /\ Head(down[i]) \in Messages
        /\ Chain(Head(down[i]), down'[i]) /\ Last(Head(down[i]), down'[i]) = Said(i)
    BY <1>2, <1>t, <2>1, ChainShrinks DEF Hears, Said
  <2>3. /\ 1 \in DOMAIN down[i] /\ Head(down[i]) = down[i][1]
        /\ \A k \in DOMAIN down'[i] : k + 1 \in DOMAIN down[i] /\ down'[i][k] = down[i][k + 1]
    BY <1>2, <1>t, Shorter DEF Hears
  <2>4. Heard(i)' = Head(down[i])
    BY <1>2, <1>r DEF Hears, Heard
  <2>5. Said(i)' = Said(i)
    BY <2>2, <2>4 DEF Said
  <2>6. clast'[i] # "results"
    <3>1. CASE cpc[i] = "select"
      <4>1. Heard(i) # "EXCHANGE_RESULTS"
        BY <3>1 DEF Heard
      <4> QED BY <1>2, <2>2, <3>1, <4>1 DEF Hears, Follows
    <3> QED BY <1>2, <1>r, <3>1 DEF Hears
  <2>7. ASSUME sctrl = Connection(i, 0) PROVE Told(i)'
    <3>0. Told(i)
      BY <2>1, <2>7
    <3>1. \A k \in DOMAIN down'[i] : \E l \in DOMAIN down[i] : down'[i][k] = down[i][l]
      BY <2>3
    <3>2. clast'[i] # "zero"
      BY <1>2, <1>r, <1>m, <2>2 DEF Hears
    <3>3. clast'[i] = "PARAM_EXCHANGE" /\ cpc'[i] = "handle" => spc = "params"
      <4> SUFFICES ASSUME clast'[i] = "PARAM_EXCHANGE", cpc'[i] = "handle" PROVE spc = "params"
        OBVIOUS
      <4>1. down[i][1] = "PARAM_EXCHANGE"
        BY <1>2, <2>3 DEF Hears
      <4>2. clast[i] = "zero"
        BY <2>3, <4>1 DEF IInv, Fresh
      <4> QED BY <3>0, <4>2 DEF Told
    <3>4. clast'[i] = "EXCHANGE_RESULTS" /\ cpc'[i] = "handle" => spc = "results"
      <4> SUFFICES ASSUME clast'[i] = "EXCHANGE_RESULTS", cpc'[i] = "handle" PROVE spc = "results"
        OBVIOUS
      <4>1. down[i][1] = "EXCHANGE_RESULTS"
        BY <1>2, <2>3 DEF Hears
      <4> QED BY <3>0, <2>3, <4>1 DEF Told
    <3>5. (\E k \in DOMAIN down'[i] : down'[i][k] = "EXCHANGE_RESULTS") => spc = "results"
      BY <3>0, <3>1 DEF Told
    <3>6. \A k \in DOMAIN down'[i] : down'[i][k] \notin {"SERVER_ERROR", "ACCESS_DENIED"}
      BY <3>0, <3>1 DEF Told
    <3> QED BY <3>0, <2>5, <3>2, <3>3, <3>4, <3>5, <3>6, <1>t DEF Told
  <2>8. ASSUME sctrl = Connection(i, 0) PROVE Answers(i)'
    BY <1>2, <2>1, <2>8 DEF Hears, Answers
  <2>9. Goal
    BY <2>2, <2>4, <2>7, <2>8 DEF Goal
  <2>10. Clean
    BY <1>d, <1>2, <2>6 DEF Hears
  <2> QED BY <1>q, <2>9, <2>10
<1>x. CASE Hears(i) /\ Past(i)'
  <2>1. clast'[i] # "results"
    <3>1. CASE cpc[i] = "select"
      BY <1>x, <3>1 DEF Hears, Past
    <3> QED BY <1>x, <1>r, <3>1 DEF Hears
  <2> QED BY <1>q, <1>d, <1>x, <2>1 DEF Hears
\* An answer to the last message: nothing else was said on either side.
<1>3. CASE Speaks(i, "handle", "PARAM_EXCHANGE", "params", "body", "PARAM_EXCHANGE")
  <2>1. Clean
    BY <1>d, <1>3 DEF Speaks
  <2>2. ASSUME ~Past(i)' PROVE Goal
    <3>1. Heard(i)' = Heard(i) /\ Said(i)' = Said(i)
      BY <1>3 DEF Speaks, Heard, Said
    <3>2. ASSUME sctrl = Connection(i, 0) PROVE Told(i)' /\ Answers(i)'
      <4>1. Told(i) /\ Answers(i)
        BY <1>c, <2>2, <3>2
      <4>2. spc = "params"
        BY <1>3, <4>1 DEF Speaks, Told
      <4>3. down[i] = <<>>
        <5>1. \A k \in DOMAIN down[i] : down[i][k] = "PARAM_EXCHANGE" /\ down[i][k] # "PARAM_EXCHANGE"
          BY <1>3, <1>t, <3>2, <4>2 DEF IInv, Fresh, AnnouncedAt, Speaks
        <5> QED BY <1>t, <5>1, Shorter
      <4>4. up[i] = <<>>
        BY <1>3, <4>1 DEF Speaks, Answers
      <4>5. up'[i] = <<"params">> /\ down'[i] = <<>>
        BY <1>3, <4>3, <4>4 DEF Speaks
      <4>6. Answers(i)'
        BY <1>3, <4>5 DEF Speaks, Answers
      <4>7. Told(i)'
        BY <1>3, <1>t, <3>1, <4>1, <4>2, <4>3 DEF Speaks, Told
      <4> QED BY <4>6, <4>7
    <3> QED BY <1>3, <1>c, <2>2, <3>1, <3>2 DEF Speaks, Goal
  <2> QED BY <1>q, <2>1, <2>2
<1>4. CASE Speaks(i, "ending", "TEST_RUNNING", "TEST_END", "head", "TEST_END")
  <2>1. Clean
    BY <1>d, <1>4 DEF Speaks
  <2>2. ASSUME ~Past(i)' PROVE Goal
    <3>1. Heard(i) = "TEST_RUNNING" /\ Heard(i)' = "TEST_END"
      BY <1>4 DEF Speaks, Heard
    <3>2. Chain("TEST_RUNNING", down[i])
      BY <1>c, <2>2, <3>1
    <3>3. down[i] # <<>> => down[i][1] = "SERVER_ERROR" /\ 1 \in DOMAIN down[i]
      <4>1. down[i] # <<>> => 1 \in DOMAIN down[i]
        BY <1>t, Shorter
      <4> QED BY <3>2, <4>1 DEF Chain, Follows
    <3>4. Chain("TEST_END", down[i])
      <4> SUFFICES ASSUME NEW k \in DOMAIN down[i]
                   PROVE  Follows(IF k = 1 THEN "TEST_END" ELSE down[i][k - 1], down[i][k])
        BY DEF Chain
      <4>1. CASE k = 1
        <5>1. down[i] # <<>>
          BY Empty
        <5> QED BY <3>3, <4>1, <5>1 DEF Follows
      <4>2. CASE k # 1
        BY <3>2, <4>2 DEF Chain
      <4> QED BY <4>1, <4>2
    <3>5. ASSUME sctrl = Connection(i, 0) PROVE Told(i)' /\ Answers(i)'
      <4>1. Told(i) /\ Answers(i)
        BY <1>c, <2>2, <3>5
      <4>2. down[i] = <<>>
        BY <3>3, <4>1 DEF Told
      <4>3. up[i] = <<>>
        BY <1>4, <1>r, <4>1 DEF Speaks, Answers
      <4>4. up'[i] = <<"TEST_END">> /\ down'[i] = <<>> /\ clast'[i] = "TEST_END"
        BY <1>4, <4>2, <4>3 DEF Speaks
      <4>5. Said(i) = "TEST_RUNNING"
        BY <3>1, <4>2 DEF Said, Last
      <4>6. ~(spc = "params" \/ spc = "results" \/ (spc = "select" /\ sstate = "CREATE_STREAMS"))
        BY <4>1, <4>5 DEF Told
      <4>7. Told(i)'
        BY <1>t, <4>4, <4>6, Empty DEF Told
      <4> QED BY <4>4, <4>7 DEF Answers
    <3> QED BY <1>4, <3>1, <3>4, <3>5 DEF Speaks, Goal
  <2> QED BY <1>q, <2>1, <2>2
<1>5. CASE Speaks(i, "handle", "EXCHANGE_RESULTS", "results", "results", "EXCHANGE_RESULTS")
  <2>1. Clean
    BY <1>d, <1>5 DEF Speaks
  <2>2. ASSUME ~Past(i)' PROVE Goal
    <3>1. Heard(i) = "EXCHANGE_RESULTS" /\ Heard(i)' = "EXCHANGE_RESULTS"
      BY <1>5 DEF Speaks, Heard
    <3>2. Said(i)' = Said(i)
      BY <1>5, <3>1 DEF Speaks, Said
    <3>3. ASSUME sctrl = Connection(i, 0) PROVE Told(i)' /\ Answers(i)'
      <4>1. Told(i) /\ Answers(i) /\ Chain("EXCHANGE_RESULTS", down[i])
        BY <1>c, <2>2, <3>1, <3>3
      <4>2. spc = "results" /\ Said(i) = "EXCHANGE_RESULTS"
        BY <1>5, <4>1 DEF Speaks, Told
      <4>3. down[i] = <<>>
        <5> SUFFICES ASSUME down[i] # <<>> PROVE FALSE
          OBVIOUS
        <5>1. /\ Len(down[i]) \in DOMAIN down[i] /\ down[i][Len(down[i])] = "EXCHANGE_RESULTS"
              /\ Len(down[i]) # 1 => Len(down[i]) - 1 \in DOMAIN down[i]
          <6>1. Len(down[i]) \in Nat /\ DOMAIN down[i] = 1..Len(down[i]) /\ Len(down[i]) # 0
            BY <1>t, LenProperties, EmptySeq
          <6> DEFINE n == Len(down[i])
          <6>2. n \in DOMAIN down[i] /\ (n # 1 => n - 1 \in DOMAIN down[i])
            <7> HIDE DEF n
            <7>1. n \in Nat /\ DOMAIN down[i] = 1..n /\ n # 0
              BY <6>1 DEF n
            <7> QED BY <7>1
          <6>3. down[i] # <<>>
            OBVIOUS
          <6>4. down[i][Len(down[i])] = "EXCHANGE_RESULTS"
            BY <6>3, <4>2 DEF Said, Last
          <6> QED BY <6>2, <6>4 DEF n
        <5>2. \A k \in DOMAIN down[i] : down[i][k] # "TEST_END"
          BY <1>t, <1>m
        <5> QED BY <4>1, <5>1, <5>2 DEF Chain, Follows
      <4>4. up[i] = <<>>
        BY <1>5, <4>1 DEF Speaks, Answers
      <4>5. up'[i] = <<"results">> /\ down'[i] = <<>>
        BY <1>5, <4>3, <4>4 DEF Speaks
      <4>6. Answers(i)'
        BY <1>5, <4>5 DEF Speaks, Answers
      <4>7. Told(i)'
        BY <1>5, <1>t, <3>2, <4>1, <4>2 DEF Speaks, Told
      <4> QED BY <4>6, <4>7
    <3> QED BY <1>5, <1>c, <2>2, <3>1, <3>3 DEF Speaks, Goal
  <2> QED BY <1>q, <2>1, <2>2
<1> QED BY <1>p, <1>e, <1>1, <1>2, <1>x, <1>3, <1>4, <1>5 DEF Turns

LEMMA InOrderStep == IInv /\ [Next]_vars => InOrder'
<1> SUFFICES ASSUME IInv, [Next]_vars, NEW c \in Clients PROVE InOrderAt(c)'
  BY DEF InOrder
<1>t. /\ up[c] \in Seq(ClientMessages) /\ down[c] \in Seq(Messages) /\ backlog \in Seq(Connections)
      /\ Types /\ Local /\ Serving /\ InOrderAt(c) /\ AnnouncedAt(c)
  BY DEF IInv, InOrder, Announced, Types, NetTypes
<1>m. /\ {"PARAM_EXCHANGE", "SERVER_ERROR", "ACCESS_DENIED", "CREATE_STREAMS", "TEST_START",
          "TEST_RUNNING", "EXCHANGE_RESULTS", "results", "DISPLAY_RESULTS"} \subseteq Messages
      /\ "TEST_END" \notin Messages /\ "zero" \notin Messages
  BY DEF Messages
<1>r. cpc[c] = "results" => clast[c] = "EXCHANGE_RESULTS"
  BY <1>t DEF Local
<1>a. ASSUME NEW i \in Clients, ClientStep(i) \/ ClientStops(i) \/ ClientVanishes(i)
      PROVE  InOrderAt(c)'
  <2>1. CASE i = c
    BY <1>a, <2>1, InOrderClient
  <2>2. CASE i # c
    <3>1. UNCHANGED <<cpc[c], cstate[c], clast[c], up[c], down[c], spc, sstate, sctrl>>
      BY <1>a, <1>t, <2>2, ClientFrame DEF serverVars
    <3> QED BY <1>t, <3>1 DEF InOrderAt, Past, Heard, Told, Said, Answers
  <2> QED BY <2>1, <2>2
\* A step of the server changes nothing of the client and takes what it has said.
<1>s. ASSUME UNCHANGED clientVars, up'[c] = up[c] \/ (up[c] # <<>> /\ up'[c] = Tail(up[c])),
             ~Past(c) => Chain(Heard(c), down'[c]) /\ (sctrl' = Connection(c, 0) => Told(c)' /\ Answers(c)')
      PROVE  InOrderAt(c)'
  <2>1. Past(c)' = Past(c) /\ Heard(c)' = Heard(c) /\ clast' = clast
    BY <1>s DEF clientVars, Past, Heard
  <2>2. \A k \in DOMAIN up'[c] : \E l \in DOMAIN up[c] : up'[c][k] = up[c][l]
    <3>1. up[c] # <<>> => \A k \in DOMAIN Tail(up[c]) : k + 1 \in DOMAIN up[c] /\ Tail(up[c])[k] = up[c][k + 1]
      BY <1>t, Shorter
    <3> QED BY <1>s, <3>1
  <2> QED BY <1>t, <1>s, <2>1, <2>2 DEF InOrderAt
<1>c. ASSUME ~Past(c)
      PROVE  /\ Chain(Heard(c), down[c])
             /\ sctrl = Connection(c, 0) => Told(c) /\ Answers(c)
  BY <1>t, <1>c DEF InOrderAt
\* The connection is another's, or nobody's.
<1>n. ASSUME UNCHANGED <<clientVars, up>>, sctrl' # Connection(c, 0),
             \/ down'[c] = down[c]
             \/ \E m \in {"SERVER_ERROR", "ACCESS_DENIED"} :
                  down'[c] = Append(down[c], m) /\ Follows(Said(c), m)
      PROVE  InOrderAt(c)'
  <2>1. ASSUME ~Past(c) PROVE Chain(Heard(c), down'[c])
    <3>0. Chain(Heard(c), down[c])
      BY <1>c, <2>1
    <3>1. CASE down'[c] = down[c]
      BY <3>0, <3>1
    <3>2. ASSUME NEW m \in Messages, down'[c] = Append(down[c], m), Follows(Said(c), m)
          PROVE  Chain(Heard(c), down'[c])
      <4>1. Chain(Heard(c), Append(down[c], m))
        BY <1>t, <3>0, <3>2, ChainGrows DEF Said
      <4> QED BY <3>2, <4>1
    <3> QED BY <1>m, <1>n, <3>1, <3>2
  <2> QED BY <1>s, <1>n, <2>1
\* Nothing is said, and what the server waits for stays or ends.
<1>k. ASSUME UNCHANGED <<clientVars, up>>, down'[c] = down[c], sctrl' = sctrl,
             sctrl = Connection(c, 0) =>
               \/ spc' = spc
               \/ spc = "select" /\ spc' = "leaving",
             sctrl = Connection(c, 0) /\ sstate' = "CREATE_STREAMS" => sstate = "CREATE_STREAMS"
      PROVE  InOrderAt(c)'
  <2>1. Heard(c)' = Heard(c) /\ Said(c)' = Said(c) /\ clast'[c] = clast[c] /\ cpc'[c] = cpc[c]
    BY <1>k DEF clientVars, Heard, Said
  <2>2. ASSUME ~Past(c) PROVE Chain(Heard(c), down'[c])
    BY <1>c, <1>k, <2>2
  <2>3. ASSUME ~Past(c), sctrl = Connection(c, 0) PROVE Told(c)' /\ Answers(c)'
    <3>1. Told(c) /\ Answers(c)
      BY <1>c, <2>3
    <3>2. Answers(c)'
      BY <1>k, <2>1, <3>1 DEF Answers
    <3>3. Told(c)'
      BY <1>k, <2>1, <2>3, <3>1 DEF Told
    <3> QED BY <3>2, <3>3
  <2> QED BY <1>s, <1>k, <2>2, <2>3
\* What is there to take from a client that listens was its answer.
<1>g. ASSUME NEW m \in {"params", "TEST_END", "results"}, Gets(m), Takes, ~Past(c), sctrl = Connection(c, 0)
      PROVE  /\ Told(c) /\ Chain(Heard(c), <<>>) /\ down[c] = <<>> /\ Said(c) = Heard(c)
             /\ up[c] # <<>> /\ up'[c] = <<>>
             /\ m = "params" => clast[c] = "PARAM_EXCHANGE" /\ cpc[c] # "handle"
             /\ m = "TEST_END" => clast[c] = "TEST_END"
             /\ m = "results" => cpc[c] = "results"
  <2>1. Told(c) /\ Answers(c)
    BY <1>c, <1>g
  <2>2. up[c] # <<>> /\ Head(up[c]) = m
    BY <1>g DEF Gets, Connection
  <2>3. up[c] = <<m>> /\ down[c] = <<>>
    BY <2>1, <2>2 DEF Answers
  <2>4. up'[c] = <<>>
    <3>1. up'[c] = Tail(up[c])
      BY <1>t, <1>g, TakesOne
    <3>2. Tail(<<m>>) = <<>>
      OBVIOUS
    <3> QED BY <2>3, <3>1, <3>2
  <2>5. /\ m = "params" => clast[c] = "PARAM_EXCHANGE" /\ cpc[c] # "handle"
        /\ m = "TEST_END" => clast[c] = "TEST_END"
        /\ m = "results" => cpc[c] = "results"
    BY <2>1, <2>2 DEF Answers
  <2> QED BY <2>1, <2>2, <2>3, <2>4, <2>5, Empty DEF Said, Last, Chain
<1>o. ASSUME NEW m, Gets(m), Takes
      PROVE  /\ up'[c] = up[c] \/ (up[c] # <<>> /\ up'[c] = Tail(up[c]))
             /\ sctrl # Connection(c, 0) => up'[c] = up[c]
  <2>1. sctrl = Connection(c, 0) => up[c] # <<>>
    BY <1>o DEF Gets, Connection
  <2> QED BY <1>o, <1>t, <2>1, TakesOne
<1>e. \A x : Follows(x, "SERVER_ERROR")
  BY DEF Follows
<1>f. CASE CleanupServer
  <2>1. sctrl' # Connection(c, 0) /\ UNCHANGED <<clientVars, up>>
    BY <1>f, Connected, NumStreamsAssumption DEF CleanupServer
  <2>2. down'[c] = down[c] \/ down'[c] = Append(down[c], "SERVER_ERROR")
    BY <1>f, <1>t, CleanupOne
  <2> QED BY <1>n, <1>e, <2>1, <2>2
<1>2. CASE ServerAccepts /\ ~CleanupServer
  <2>0. 1 \in DOMAIN backlog /\ Head(backlog) = backlog[1] /\ backlog[1] \in Connections
    BY <1>2, <1>t, Shorter DEF ServerAccepts
  <2>1. /\ sctrl' = backlog[1] /\ spc' = "params" /\ UNCHANGED <<up, clientVars>>
        /\ down' = IF backlog[1].stream = 0 THEN Sent(down, backlog[1].from, "PARAM_EXCHANGE") ELSE down
    BY <1>2, <2>0 DEF ServerAccepts, ServerGivesUp
  <2>2. CASE backlog[1] = Connection(c, 0)
    <3>1. clast[c] = "zero" /\ down[c] = <<>>
      BY <2>0, <2>2 DEF IInv, Placed, PlacedAt
    <3>2. down'[c] = <<"PARAM_EXCHANGE">>
      BY <2>1, <2>2, <3>1, <1>t DEF Connection, Sent, Types, NetTypes
    <3>3. ASSUME ~Past(c) PROVE Chain(Heard(c), down'[c]) /\ Told(c)' /\ Answers(c)'
      <4>1. up[c] = <<>>
        <5>1. \A k \in DOMAIN up[c] : FALSE
          BY <1>t, <3>1, <3>3 DEF AnnouncedAt, InOrderAt
        <5> QED BY <1>t, <5>1, Shorter
      <4>2. Heard(c) = "zero" /\ Last(Heard(c), down[c]) = "zero"
        BY <3>1 DEF Heard, Last
      <4>3. /\ Follows("zero", "PARAM_EXCHANGE") /\ down'[c] = Append(down[c], "PARAM_EXCHANGE")
        BY <3>1, <3>2 DEF Follows
      <4>4. Chain(Heard(c), down'[c]) /\ Last(Heard(c), down'[c]) = "PARAM_EXCHANGE"
        BY <1>c, <1>t, <1>m, <3>3, <4>2, <4>3, ChainGrows
      <4>5. Heard(c)' = Heard(c) /\ clast'[c] = "zero"
        BY <2>1, <3>1 DEF Heard, clientVars
      <4>6. Said(c)' = "PARAM_EXCHANGE"
        BY <4>4, <4>5 DEF Said
      <4>7. \A k \in DOMAIN down'[c] : down'[c][k] = "PARAM_EXCHANGE"
        BY <3>2
      <4>8. Told(c)'
        BY <2>1, <4>5, <4>6, <4>7 DEF Told
      <4> QED BY <2>1, <4>1, <4>4, <4>8 DEF Answers
    <3> QED BY <1>s, <2>1, <3>3
  <2>3. CASE backlog[1] # Connection(c, 0)
    <3>1. down'[c] = down[c]
      <4>1. ~(backlog[1].stream = 0 /\ backlog[1].from = c)
        BY <2>0, <2>3, Connected
      <4> QED BY <2>1, <4>1 DEF Sent, IInv, Types, NetTypes
    <3> QED BY <1>n, <2>1, <2>3, <3>1
  <2> QED BY <2>2, <2>3
\* What the server says next on a connection to which nothing else is under way.
<1>y. ASSUME NEW m \in Messages, NEW x, ~Past(c), down[c] = <<>>, down'[c] = Append(down[c], m),
             Heard(c) = x, Follows(x, m), UNCHANGED clientVars
      PROVE  Chain(Heard(c), down'[c]) /\ Said(c)' = m /\ down'[c] = <<m>>
  <2>1. Last(Heard(c), down[c]) = x
    BY <1>y DEF Last
  <2>2. Chain(Heard(c), down'[c]) /\ Last(Heard(c), down'[c]) = m
    <3>1. Chain(Heard(c), down[c]) /\ Follows(Last(Heard(c), down[c]), m)
      BY <1>c, <1>y, <2>1
    <3>2. Chain(Heard(c), Append(down[c], m)) /\ Last(Heard(c), Append(down[c], m)) = m
      BY <1>t, <1>y, <3>1, ChainGrows
    <3> QED BY <1>y, <3>2
  <2>3. Heard(c)' = Heard(c)
    BY <1>y DEF Heard, clientVars
  <2> QED BY <1>y, <2>2, <2>3 DEF Said
<1>3. CASE ServerGetsParams /\ ~CleanupServer
  <2>1. /\ Gets("params") /\ Takes /\ Tells("CREATE_STREAMS") /\ spc' = "select"
        /\ sstate' = "CREATE_STREAMS" /\ UNCHANGED <<sctrl, clientVars>>
    BY <1>3 DEF ServerGetsParams, ServerGivesUp
  <2>2. down'[c] = IF sctrl = Connection(c, 0) THEN Append(down[c], "CREATE_STREAMS") ELSE down[c]
    BY <1>t, <1>m, <2>1, TellsOne
  <2>3. ASSUME ~Past(c), sctrl = Connection(c, 0)
        PROVE  Chain(Heard(c), down'[c]) /\ Told(c)' /\ Answers(c)'
    <3>1. /\ Told(c) /\ down[c] = <<>> /\ up'[c] = <<>>
          /\ clast[c] = "PARAM_EXCHANGE" /\ cpc[c] # "handle"
      BY <1>g, <2>1, <2>3
    <3>2. Heard(c) = "PARAM_EXCHANGE" /\ Follows("PARAM_EXCHANGE", "CREATE_STREAMS")
      BY <3>1 DEF Heard, Follows
    <3>3. Chain(Heard(c), down'[c]) /\ Said(c)' = "CREATE_STREAMS" /\ down'[c] = <<"CREATE_STREAMS">>
      BY <1>y, <1>m, <2>1, <2>2, <2>3, <3>1, <3>2
    <3>4. \A k \in DOMAIN down'[c] : down'[c][k] = "CREATE_STREAMS"
      BY <3>3
    <3>5. clast'[c] = "PARAM_EXCHANGE" /\ cpc'[c] # "handle"
      BY <2>1, <3>1 DEF clientVars
    <3>6. Told(c)'
      BY <2>1, <3>3, <3>4, <3>5 DEF Told
    <3> QED BY <3>1, <3>3, <3>6 DEF Answers
  <2>4. ASSUME ~Past(c), sctrl # Connection(c, 0) PROVE Chain(Heard(c), down'[c])
    BY <1>c, <2>2, <2>4
  <2> QED BY <1>s, <1>o, <2>1, <2>3, <2>4
<1>d. ASSUME backlog # <<>>, Denied(Head(backlog)), spc = "select", spc' \in {"select", "leaving"},
             UNCHANGED <<sctrl, sstate, up, clientVars>>
      PROVE  InOrderAt(c)'
  <2>0. 1 \in DOMAIN backlog
    BY <1>d, <1>t, Shorter
  <2>1. down'[c] = IF backlog[1] = Connection(c, 0) THEN Append(down[c], "ACCESS_DENIED") ELSE down[c]
    BY <1>d, <1>t, DeniesOne
  <2>2. CASE backlog[1] = Connection(c, 0)
    <3>1. clast[c] = "zero" /\ down[c] = <<>> /\ sctrl # Connection(c, 0)
      BY <2>0, <2>2 DEF IInv, Placed, PlacedAt
    <3>2. Follows(Said(c), "ACCESS_DENIED")
      BY <3>1 DEF Follows, Said, Heard, Last
    <3> QED BY <1>n, <1>d, <2>1, <2>2, <3>1, <3>2
  <2>3. CASE backlog[1] # Connection(c, 0)
    BY <1>k, <1>d, <2>1, <2>3
  <2> QED BY <2>2, <2>3
<1>4. CASE ServerDenies
  BY <1>4, <1>d DEF ServerDenies
<1>6. CASE ServerDeniesStream /\ ~CleanupServer
  BY <1>6, <1>d DEF ServerDeniesStream, serverVars
<1>5. CASE ServerAcceptsStream /\ ~CleanupServer
  <2>1. /\ spc = "select" /\ sstate = "CREATE_STREAMS" /\ sctrl.stream = 0
        /\ UNCHANGED <<sctrl, spc, up, clientVars>>
        /\ StartsTest \/ UNCHANGED <<sstate, sdone, down>>
    BY <1>5, <1>t DEF ServerAcceptsStream, ServerGivesUp, Serving
  <2>2. CASE UNCHANGED <<sstate, down>>
    BY <1>k, <2>1, <2>2
  <2>3. CASE StartsTest /\ sctrl # Connection(c, 0)
    <3>1. down'[c] = down[c]
      BY <1>t, <2>1, <2>3, TellsStart
    <3> QED BY <1>n, <2>1, <2>3, <3>1
  <2>4. CASE StartsTest /\ sctrl = Connection(c, 0)
    <3> DEFINE q == Append(down[c], "TEST_START")
    <3>1. down'[c] = Append(q, "TEST_RUNNING") /\ sstate' = "TEST_RUNNING"
      BY <1>t, <2>1, <2>4, TellsStart DEF StartsTest
    <3>2. /\ q \in Seq(Messages)
          /\ \A k \in DOMAIN q : (k \in DOMAIN down[c] /\ q[k] = down[c][k]) \/ q[k] = "TEST_START"
      BY <1>t, <1>m, Longer
    <3>3. \A k \in DOMAIN Append(q, "TEST_RUNNING") :
            \/ k \in DOMAIN q /\ Append(q, "TEST_RUNNING")[k] = q[k]
            \/ Append(q, "TEST_RUNNING")[k] = "TEST_RUNNING"
      <4> HIDE DEF q
      <4> QED BY <1>m, <3>2, Longer
    <3>4. ASSUME ~Past(c) PROVE Chain(Heard(c), down'[c]) /\ Told(c)' /\ Answers(c)'
      <4>1. Told(c) /\ Answers(c) /\ Chain(Heard(c), down[c]) /\ Said(c) = "CREATE_STREAMS"
        <5>1. Told(c) /\ Answers(c) /\ Chain(Heard(c), down[c])
          BY <1>c, <2>4, <3>4
        <5> QED BY <2>1, <5>1 DEF Told
      <4>2. Chain(Heard(c), q) /\ Last(Heard(c), q) = "TEST_START"
        <5>1. Follows(Last(Heard(c), down[c]), "TEST_START")
          BY <4>1 DEF Said, Follows
        <5> QED BY <1>t, <1>m, <4>1, <5>1, ChainGrows
      <4>3. Chain(Heard(c), Append(q, "TEST_RUNNING"))
        <5>1. Follows("TEST_START", "TEST_RUNNING")
          BY DEF Follows
        <5> HIDE DEF q
        <5> QED BY <1>m, <3>2, <4>2, <5>1, ChainGrows
      <4>4. up[c] = <<>>
        BY <1>r, <4>1 DEF Answers, Said, Heard, Last
      <4>5. clast'[c] = clast[c] /\ cpc'[c] = cpc[c]
        BY <2>1 DEF clientVars
      <4>6. \A k \in DOMAIN down'[c] : (\E l \in DOMAIN down[c] : down'[c][k] = down[c][l])
                                       \/ down'[c][k] \in {"TEST_START", "TEST_RUNNING"}
        <5> HIDE DEF q
        <5> QED BY <3>1, <3>2, <3>3
      <4>7. Told(c)'
        BY <2>1, <3>1, <4>1, <4>5, <4>6 DEF Told
      <4> QED BY <2>1, <3>1, <4>3, <4>4, <4>7 DEF Answers
    <3> QED BY <1>s, <2>1, <2>4, <3>4
  <2> QED BY <2>1, <2>2, <2>3, <2>4
<1>7. CASE ServerReads
  <2>1. /\ Gets("TEST_END") /\ Takes /\ Tells("EXCHANGE_RESULTS") /\ spc' = "results"
        /\ UNCHANGED <<sctrl, clientVars>>
    BY <1>7 DEF ServerReads
  <2>2. down'[c] = IF sctrl = Connection(c, 0) THEN Append(down[c], "EXCHANGE_RESULTS") ELSE down[c]
    BY <1>t, <1>m, <2>1, TellsOne
  <2>3. ASSUME ~Past(c), sctrl = Connection(c, 0)
        PROVE  Chain(Heard(c), down'[c]) /\ Told(c)' /\ Answers(c)'
    <3>1. down[c] = <<>> /\ up'[c] = <<>> /\ clast[c] = "TEST_END"
      BY <1>g, <2>1, <2>3
    <3>2. Heard(c) = "TEST_END" /\ Follows("TEST_END", "EXCHANGE_RESULTS")
      BY <3>1 DEF Heard, Follows
    <3>3. Chain(Heard(c), down'[c]) /\ Said(c)' = "EXCHANGE_RESULTS" /\ down'[c] = <<"EXCHANGE_RESULTS">>
      BY <1>y, <1>m, <2>1, <2>2, <2>3, <3>1, <3>2
    <3>4. \A k \in DOMAIN down'[c] : down'[c][k] = "EXCHANGE_RESULTS"
      BY <3>3
    <3>5. clast'[c] = "TEST_END"
      BY <2>1, <3>1 DEF clientVars
    <3>6. Told(c)'
      BY <2>1, <3>3, <3>4, <3>5 DEF Told
    <3> QED BY <3>1, <3>3, <3>6 DEF Answers
  <2>4. ASSUME ~Past(c), sctrl # Connection(c, 0) PROVE Chain(Heard(c), down'[c])
    BY <1>c, <2>2, <2>4
  <2> QED BY <1>s, <1>o, <2>1, <2>3, <2>4
<1>8. CASE ServerExchangesResults /\ ~CleanupServer
  <2>1. /\ Gets("results") /\ Takes /\ spc' = "select" /\ sstate' = "DISPLAY_RESULTS"
        /\ UNCHANGED <<sctrl, clientVars>>
    BY <1>8 DEF ServerExchangesResults, ServerGivesUp
  <2>2. down'[c] = IF sctrl = Connection(c, 0)
                   THEN Append(Append(down[c], "results"), "DISPLAY_RESULTS") ELSE down[c]
    BY <1>t, <1>8, TellsResults
  <2>3. ASSUME ~Past(c), sctrl = Connection(c, 0)
        PROVE  Chain(Heard(c), down'[c]) /\ Told(c)' /\ Answers(c)'
    <3>1. Chain(Heard(c), <<>>) /\ down[c] = <<>> /\ up'[c] = <<>> /\ cpc[c] = "results"
      BY <1>g, <2>1, <2>3
    <3>2. clast[c] = "EXCHANGE_RESULTS" /\ Heard(c) = "EXCHANGE_RESULTS"
      BY <1>r, <3>1 DEF Heard
    <3> DEFINE q == Append(down[c], "results")
    <3>a. down'[c] = Append(q, "DISPLAY_RESULTS")
      BY <2>2, <2>3
    <3>b. /\ q \in Seq(Messages)
          /\ \A k \in DOMAIN q : (k \in DOMAIN down[c] /\ q[k] = down[c][k]) \/ q[k] = "results"
      BY <1>t, <1>m, Longer
    <3>3. Chain(Heard(c), q) /\ Last(Heard(c), q) = "results"
      <4>1. Chain(Heard(c), down[c]) /\ Follows(Last(Heard(c), down[c]), "results")
        BY <3>1, <3>2 DEF Last, Follows
      <4> QED BY <1>t, <1>m, <4>1, ChainGrows
    <3> HIDE DEF q
    <3>4. Chain(Heard(c), down'[c])
      <4>1. Follows("results", "DISPLAY_RESULTS")
        BY DEF Follows
      <4> QED BY <1>m, <3>a, <3>b, <3>3, <4>1, ChainGrows
    <3>5. \A k \in DOMAIN down'[c] : down'[c][k] \in {"results", "DISPLAY_RESULTS"}
      <4>1. \A k \in DOMAIN Append(q, "DISPLAY_RESULTS") :
              \/ k \in DOMAIN q /\ Append(q, "DISPLAY_RESULTS")[k] = q[k]
              \/ Append(q, "DISPLAY_RESULTS")[k] = "DISPLAY_RESULTS"
        BY <1>m, <3>b, Longer
      <4> QED BY <3>1, <3>a, <3>b, <4>1, Empty
    <3>6. clast'[c] = "EXCHANGE_RESULTS" /\ cpc'[c] = "results"
      BY <2>1, <3>1, <3>2 DEF clientVars
    <3>7. Told(c)'
      BY <2>1, <3>5, <3>6 DEF Told
    <3> QED BY <3>1, <3>4, <3>7 DEF Answers
  <2>4. ASSUME ~Past(c), sctrl # Connection(c, 0) PROVE Chain(Heard(c), down'[c])
    BY <1>c, <2>2, <2>4
  <2> QED BY <1>s, <1>o, <2>1, <2>3, <2>4
<1>9. CASE ServerExpires
  <2>1. sctrl' # Connection(c, 0) /\ UNCHANGED <<clientVars, up>>
    BY <1>9, Connected, NumStreamsAssumption DEF ServerExpires
  <2>2. down'[c] = down[c] \/ down'[c] = Append(down[c], "SERVER_ERROR")
    BY <1>9, <1>t, <1>m, TellsOne DEF ServerExpires
  <2> QED BY <1>n, <1>e, <2>1, <2>2
<1>10. CASE ServerStarts
  <2>1. sctrl' # Connection(c, 0) /\ UNCHANGED <<down, up, clientVars>>
    BY <1>10, <1>t, Serves DEF ServerStarts, Serving, netVars
  <2> QED BY <1>n, <2>1
<1>11. CASE ServerStops \/ UNCHANGED vars
  <2>1. /\ UNCHANGED <<up, down, spc, sctrl, clientVars>>
        /\ sstate' = "CREATE_STREAMS" => sstate = "CREATE_STREAMS"
    BY <1>11 DEF ServerStops, vars, netVars, serverVars
  <2> QED BY <1>k, <2>1
<1> QED
  BY <1>a, <1>f, <1>2, <1>3, <1>4, <1>5, <1>6, <1>7, <1>8, <1>9, <1>10, <1>11
     DEF Next, ServerStep, ServerLeaves, ServerEnds, ServerTimesOut
-----------------------------------------------------------------------------
(* Bystanders, on a server that sets no type of service.                   *)

Outside == {"zero", "ACCESS_DENIED"}

\* A server nobody disturbs goes on.
GoesOn == Server \notin disturbed => ~interrupted /\ spc # "leaving" /\ sstate # "IPERF_DONE"

\* A client nobody disturbs hears of no error, and its connection is not closed while it
\* listens, but when it was not let in.
HarmlessAt(i) ==
  i \notin disturbed /\ Server \notin disturbed =>
    /\ alive[i]
    /\ csock[i] = "closed" => Past(i)
    /\ cresult[i] = "error" => cpc[i] = "exit" /\ clast[i] \in Outside
    /\ ~Past(i) =>
         /\ clast[i] # "SERVER_ERROR"
         /\ \A k \in DOMAIN down[i] : down[i][k] # "SERVER_ERROR"
         /\ sclosed[i] =>
              clast[i] \in Outside /\ \A k \in DOMAIN down[i] : down[i][k] = "ACCESS_DENIED"

Harmless == GoesOn /\ \A i \in Clients : HarmlessAt(i)

\* Who is disturbed does not change, and only a disturbed client vanishes.
LEMMA Lives ==
  ASSUME Types, [Next]_vars
  PROVE  disturbed' = disturbed /\ \A c \in Clients \ disturbed : alive'[c] = alive[c]
<1>t. WorldTypes
  BY DEF Types
<1>1. CASE \E i \in Clients : ClientVanishes(i)
  BY <1>t, <1>1 DEF ClientVanishes, WorldTypes, Put
<1>2. CASE \E i \in Clients : ClientStep(i) \/ ClientStops(i)
  <2>1. PICK i \in Clients : ClientStep(i) \/ ClientStops(i)
    BY <1>2
  <2>2. disturbed' = disturbed /\ alive' = alive
    BY <2>1
       DEF ClientStep, ClientStarts, ClientConnect, ClientLoops, ClientLeaves, ClientRead, ClientLoses,
           ClientWakes, ClientHandle, ClientCreatesStream, ClientGetsResults, ClientBody,
           ClientSendsTestEnd, ClientStops, ClientGivesUp, ClientFail, worldVars
  <2> QED BY <2>2
<1>3. CASE ServerStep \/ ServerStarts \/ ServerStops \/ UNCHANGED vars
  BY <1>3
     DEF ServerStep, ServerStarts, ServerStops, vars, CleanupServer, ServerLeaves, ServerAccepts,
         ServerGetsParams, ServerDenies, ServerAcceptsStream, ServerDeniesStream, ServerReads,
         ServerEnds, ServerExchangesResults, ServerExpires, ServerTimesOut, ServerGivesUp, worldVars
<1> QED BY <1>1, <1>2, <1>3 DEF Next

LEMMA GoesOnStep == Types /\ GoesOn /\ [Next]_vars => GoesOn'
<1> SUFFICES ASSUME Types, GoesOn, [Next]_vars, Server \notin disturbed
             PROVE  ~interrupted' /\ spc' # "leaving" /\ sstate' # "IPERF_DONE"
  BY Lives DEF GoesOn
<1>o. ~interrupted /\ spc # "leaving" /\ sstate # "IPERF_DONE"
  BY DEF GoesOn
<1>1. CASE \E i \in Clients : ClientStep(i) \/ ClientStops(i) \/ ClientVanishes(i)
  BY <1>1, <1>o, ClientFrame DEF serverVars
<1>2. CASE CleanupServer
  BY <1>2, <1>o DEF CleanupServer
<1>3. CASE ServerStep /\ ~CleanupServer
  <2>1. CASE ServerAccepts \/ ServerGetsParams \/ ServerDenies
    BY <1>3, <1>o, <2>1 DEF ServerAccepts, ServerGetsParams, ServerDenies, ServerGivesUp
  <2>2. CASE ServerAcceptsStream \/ ServerDeniesStream
    BY <1>3, <1>o, <2>2
       DEF ServerAcceptsStream, StartsTest, ServerDeniesStream, ServerGivesUp, serverVars
  <2>3. CASE ServerReads \/ ServerExchangesResults
    BY <1>3, <1>o, <2>3 DEF ServerReads, ServerExchangesResults, ServerGivesUp
  <2>4. ~(ServerLeaves \/ ServerEnds \/ ServerExpires \/ ServerTimesOut)
    BY <1>3 DEF ServerLeaves, ServerEnds, ServerExpires, ServerTimesOut
  <2> QED BY <1>3, <2>1, <2>2, <2>3, <2>4 DEF ServerStep
<1>4. CASE ServerStarts \/ ServerStops \/ UNCHANGED vars
  BY <1>4, <1>o DEF ServerStarts, ServerStops, vars, serverVars
<1> QED BY <1>1, <1>2, <1>3, <1>4 DEF Next

\* A client nobody disturbs fails before it is let in only, and closes its connection at the end.
LEMMA HarmlessClient ==
  ASSUME IInv, GoesOn, NEW i \in Clients, i \notin disturbed, Server \notin disturbed, HarmlessAt(i),
         ClientStep(i) \/ ClientStops(i) \/ ClientVanishes(i)
  PROVE  /\ csock'[i] = "closed" => Past(i)'
         /\ cresult'[i] = "error" => cpc'[i] = "exit" /\ clast'[i] \in Outside
<1>t. /\ ClientTypes /\ Types /\ Local /\ InOrderAt(i) /\ PlacedAt(i) /\ Serving
      /\ down[i] \in Seq(Messages)
      /\ cresult[i] = "error" => cpc[i] = "exit" /\ clast[i] \in Outside
      /\ csock[i] = "closed" => Past(i)
      /\ Past(i) => Past(i)'
      /\ cstate[i] \in {clast[i], "IPERF_DONE"} /\ clast[i] # "IPERF_DONE"
  <2>1. Types /\ Local /\ InOrderAt(i) /\ PlacedAt(i) /\ Serving
    BY DEF IInv, InOrder, Placed
  <2>2. Past(i) => Past(i)'
    BY <2>1, ClientTurns
  <2>3. /\ cresult[i] = "error" => cpc[i] = "exit" /\ clast[i] \in Outside
        /\ csock[i] = "closed" => Past(i)
    BY DEF HarmlessAt
  <2>4. ClientTypes /\ NetTypes BY <2>1 DEF Types
  <2>5. down[i] \in Seq(Messages) BY <2>4 DEF NetTypes
  <2>6. cstate[i] \in {clast[i], "IPERF_DONE"} BY <2>1 DEF Local
  <2>7. clast[i] # "IPERF_DONE"
    <3>1. clast[i] \in Taken BY <2>4 DEF ClientTypes
    <3>2. "IPERF_DONE" \notin Taken BY DEF Taken, Messages
    <3> QED BY <3>1, <3>2
  <2> QED BY <2>1, <2>2, <2>3, <2>4, <2>5, <2>6, <2>7
<1> USE DEF Goes, Put
<1>n. ASSUME csock'[i] = csock[i] \/ Past(i)' \/ csock'[i] = "open", cresult'[i] # "error"
      PROVE  /\ csock'[i] = "closed" => Past(i)'
             /\ cresult'[i] = "error" => cpc'[i] = "exit" /\ clast'[i] \in Outside
  BY <1>n, <1>t
<1>f. ASSUME ClientFail(i), clast[i] \in Outside
      PROVE  /\ csock'[i] = "closed" => Past(i)'
             /\ cresult'[i] = "error" => cpc'[i] = "exit" /\ clast'[i] \in Outside
  BY <1>f, <1>t DEF ClientFail, ClientTypes, Past
<1>l. cpc[i] # "exit" => cresult[i] # "error"
  BY <1>t
\* While it listens after it was let in its connection is that of the server.
<1>c. ASSUME cpc[i] \in {"select", "handle", "streams", "results"}
      PROVE  /\ ~Past(i) /\ csock[i] # "none"
             /\ clast[i] # "SERVER_ERROR"
             /\ \A k \in DOMAIN down[i] : down[i][k] # "SERVER_ERROR"
             /\ sclosed[i] => clast[i] \in Outside
             /\ clast[i] \notin Outside => Listening
  <2>1. ~Past(i) /\ csock[i] # "none"
    BY <1>c, <1>t DEF Past, Local
  <2>2. /\ clast[i] # "SERVER_ERROR"
        /\ \A k \in DOMAIN down[i] : down[i][k] # "SERVER_ERROR"
        /\ sclosed[i] => clast[i] \in Outside
    BY <2>1 DEF HarmlessAt
  <2>3. ASSUME clast[i] \notin Outside PROVE Listening
    <3>1. sctrl = Connection(i, 0)
      BY <1>t, <2>1, <2>2, <2>3 DEF PlacedAt, Outside
    <3>2. Busy
      BY <1>t, <3>1, Serves
    <3> QED BY <1>t, <3>2 DEF Serving, Listening
  <2> QED BY <2>1, <2>2, <2>3
<1>1. CASE ClientStarts(i) \/ ClientLoops(i) \/ ClientWakes(i)
  BY <1>n, <1>l, <1>1 DEF ClientStarts, ClientLoops, ClientWakes, netVars
<1>2. CASE ClientLeaves(i)
  BY <1>n, <1>t, <1>2 DEF ClientLeaves, ClientTypes
<1>3. CASE ClientConnect(i)
  <2>1. clast[i] = "zero" /\ cresult[i] # "error"
    BY <1>3, <1>l, <1>t DEF ClientConnect, Local, PlacedAt
  <2>2. CASE ClientFail(i)
    BY <1>f, <2>1, <2>2 DEF Outside
  <2>3. CASE csock' = Put(csock, i, "open") /\ cresult' = cresult
    BY <1>n, <1>t, <2>1, <2>3 DEF ClientTypes
  <2> QED BY <1>3, <2>2, <2>3 DEF ClientConnect, ClientGivesUp
<1>4. CASE ClientRead(i)
  BY <1>n, <1>l, <1>4 DEF ClientRead
<1>5. CASE ClientLoses(i)
  BY <1>f, <1>c, <1>5 DEF ClientLoses
<1>6. CASE ClientHandle(i)
  <2>1. cpc[i] = "handle"
    BY <1>6 DEF ClientHandle, Handles
  <2>2. CASE ClientFail(i) /\ \E s \in {"ACCESS_DENIED", "SERVER_ERROR"} : Handles(i, s)
    <3>1. clast[i] = "ACCESS_DENIED"
      BY <1>c, <1>t, <2>1, <2>2 DEF Handles
    <3> QED BY <1>f, <2>2, <3>1 DEF Outside
  <2>3. CASE ClientEnd(i) /\ Goes(i, "body") /\ Handles(i, "DISPLAY_RESULTS") /\ cresult' = cresult
    <3>1. clast[i] = "DISPLAY_RESULTS"
      BY <1>t, <2>3 DEF Handles
    <3>2. cstate' = Put(cstate, i, "IPERF_DONE")
      BY <1>c, <1>t, <2>1, <2>3, <3>1 DEF ClientEnd
    <3>3. Past(i)'
      BY <1>t, <2>3, <3>2 DEF Past, ClientTypes
    <3> QED BY <1>n, <1>l, <2>1, <2>3, <3>3
  <2>4. CASE csock' = csock /\ cresult' = cresult
    BY <1>n, <1>l, <2>1, <2>4
  <2> QED BY <1>6, <2>2, <2>3, <2>4 DEF ClientHandle, ClientGivesUp
<1>7. CASE ClientCreatesStream(i)
  <2>1. cpc[i] = "streams" /\ clast[i] = "CREATE_STREAMS"
    BY <1>7, <1>t DEF ClientCreatesStream, Local
  <2>2. Listening
    BY <1>c, <2>1 DEF Outside
  <2>3. csock' = csock /\ cresult' = cresult
    BY <1>7, <2>2 DEF ClientCreatesStream, ClientGivesUp
  <2> QED BY <1>n, <1>l, <2>1, <2>3
<1>8. CASE ClientGetsResults(i)
  <2>1. cpc[i] = "results" /\ clast[i] = "EXCHANGE_RESULTS"
    BY <1>8, <1>t DEF ClientGetsResults, Local
  <2>2. ~sclosed[i]
    BY <1>c, <2>1 DEF Outside
  <2>3. down[i] # <<>> => Head(down[i]) = "results"
    <3> SUFFICES ASSUME down[i] # <<>> PROVE Head(down[i]) = "results"
      OBVIOUS
    <3>1. Chain("EXCHANGE_RESULTS", down[i])
      BY <1>c, <1>t, <2>1 DEF InOrderAt, Heard
    <3>2. Follows("EXCHANGE_RESULTS", Head(down[i]))
      BY <1>t, <3>1, ChainShrinks
    <3>3. Head(down[i]) # "SERVER_ERROR"
      <4>1. 1 \in DOMAIN down[i] /\ Head(down[i]) = down[i][1]
        BY <1>t, Shorter
      <4> QED BY <1>c, <2>1, <4>1
    <3> QED BY <3>2, <3>3 DEF Follows
  <2>4. csock' = csock /\ cresult' = cresult
    BY <1>8, <2>2, <2>3 DEF ClientGetsResults, ClientGivesUp
  <2> QED BY <1>n, <1>l, <2>1, <2>4
<1>9. CASE ClientBody(i)
  BY <1>n, <1>l, <1>9 DEF ClientBody
<1>10. CASE ClientSendsTestEnd(i)
  BY <1>n, <1>l, <1>10 DEF ClientSendsTestEnd, ClientGivesUp
<1>11. CASE ClientStops(i)
  BY <1>11 DEF ClientStops
<1>12. CASE ClientVanishes(i)
  BY <1>12 DEF ClientVanishes
<1> QED
  BY <1>1, <1>2, <1>3, <1>4, <1>5, <1>6, <1>7, <1>8, <1>9, <1>10, <1>11, <1>12 DEF ClientStep

LEMMA HarmlessStep == ~SetsTos /\ IInv /\ Harmless /\ [Next]_vars => Harmless'
<1> SUFFICES ASSUME ~SetsTos, IInv, GoesOn, NEW c \in Clients, HarmlessAt(c), [Next]_vars
             PROVE  HarmlessAt(c)'
  BY GoesOnStep DEF Harmless, IInv
<1> SUFFICES ASSUME c \notin disturbed, Server \notin disturbed
             PROVE  HarmlessAt(c)'
  BY Lives DEF HarmlessAt, IInv
<1>t. /\ up[c] \in Seq(ClientMessages) /\ down[c] \in Seq(Messages) /\ backlog \in Seq(Connections)
      /\ Types /\ Local /\ PlacedAt(c) /\ InOrderAt(c) /\ alive'[c] = alive[c] /\ alive[c]
      /\ spc # "leaving" /\ ~interrupted /\ sstate # "IPERF_DONE"
  <2>1. Types /\ Local /\ PlacedAt(c) /\ InOrderAt(c)
    BY DEF IInv, Placed, InOrder
  <2> QED BY <2>1, Lives DEF HarmlessAt, GoesOn, Types, NetTypes
<1>m. /\ {"PARAM_EXCHANGE", "ACCESS_DENIED", "CREATE_STREAMS", "TEST_START", "TEST_RUNNING",
          "EXCHANGE_RESULTS", "results", "DISPLAY_RESULTS"} \subseteq Messages
  BY DEF Messages
<1>o. /\ csock[c] = "closed" => Past(c)
      /\ cresult[c] = "error" => cpc[c] = "exit" /\ clast[c] \in Outside
      /\ ~Past(c) =>
           /\ clast[c] # "SERVER_ERROR"
           /\ \A k \in DOMAIN down[c] : down[c][k] # "SERVER_ERROR"
           /\ sclosed[c] =>
                clast[c] \in Outside /\ \A k \in DOMAIN down[c] : down[c][k] = "ACCESS_DENIED"
  BY DEF HarmlessAt
\* What the client's own steps leave to be read.
<1>a. ASSUME NEW i \in Clients, ClientStep(i) \/ ClientStops(i) \/ ClientVanishes(i)
      PROVE  HarmlessAt(c)'
  <2>u. UNCHANGED sclosed
    BY <1>a, <1>t, ClientFrame
  <2>1. CASE i # c
    <3>1. UNCHANGED <<cpc[c], cstate[c], clast[c], csock[c], cresult[c], down[c]>>
      BY <1>a, <1>t, <2>1, ClientFrame
    <3> QED BY <1>t, <1>o, <2>u, <3>1 DEF HarmlessAt, Past
  <2>2. CASE i = c
    <3>1. (Past(c) => Past(c)') /\ Turns(c)
      BY <1>a, <1>t, <2>2, ClientTurns
    <3>2. ASSUME ~Past(c)'
          PROVE  /\ clast'[c] # "SERVER_ERROR"
                 /\ \A k \in DOMAIN down'[c] : down'[c][k] # "SERVER_ERROR"
                 /\ sclosed[c] =>
                      clast'[c] \in Outside /\ \A k \in DOMAIN down'[c] : down'[c][k] = "ACCESS_DENIED"
      <4>h. down[c] # <<>> =>
              /\ 1 \in DOMAIN down[c] /\ Head(down[c]) = down[c][1]
              /\ \A k \in DOMAIN Tail(down[c]) : k + 1 \in DOMAIN down[c] /\ Tail(down[c])[k] = down[c][k + 1]
        BY <1>t, Shorter
      <4>o. /\ clast[c] # "SERVER_ERROR"
            /\ \A k \in DOMAIN down[c] : down[c][k] # "SERVER_ERROR"
            /\ sclosed[c] =>
                 clast[c] \in Outside /\ \A k \in DOMAIN down[c] : down[c][k] = "ACCESS_DENIED"
        BY <1>o, <3>1, <3>2
      <4>1. CASE Hears(c)
        BY <4>1, <4>h, <4>o DEF Hears, Outside
      <4>2. CASE \E from, last, m, to, next : Speaks(c, from, last, m, to, next) /\ next = last
        BY <4>2, <4>o DEF Speaks
      <4>3. CASE Speaks(c, "ending", "TEST_RUNNING", "TEST_END", "head", "TEST_END")
        BY <4>3, <4>o DEF Speaks, Outside
      <4> QED BY <3>1, <3>2, <4>o, <4>1, <4>2, <4>3 DEF Turns, Silent
    <3>3. /\ csock'[c] = "closed" => Past(c)'
          /\ cresult'[c] = "error" => cpc'[c] = "exit" /\ clast'[c] \in Outside
      BY <1>a, <2>2, HarmlessClient
    <3> QED BY <1>t, <2>u, <3>2, <3>3 DEF HarmlessAt
  <2> QED BY <2>1, <2>2
\* A step of the server, which says no SERVER_ERROR and closes no connection.
<1>s. ASSUME UNCHANGED clientVars,
             ~Past(c) => /\ sclosed'[c] = sclosed[c]
                         /\ \A k \in DOMAIN down'[c] : \/ k \in DOMAIN down[c] /\ down'[c][k] = down[c][k]
                                                       \/ down'[c][k] # "SERVER_ERROR"
                         /\ sclosed[c] => down'[c] = down[c]
      PROVE  HarmlessAt(c)'
  <2>1. Past(c)' = Past(c) /\ UNCHANGED <<cpc, clast, csock, cresult>>
    BY <1>s DEF clientVars, Past
  <2> QED BY <1>s, <1>t, <1>o, <2>1 DEF HarmlessAt
\* What is said to a client that is served.
<1>y. ASSUME UNCHANGED <<clientVars, sclosed>>, NEW m \in Messages, m # "SERVER_ERROR",
             down'[c] = IF sctrl = Connection(c, 0) THEN Append(down[c], m) ELSE down[c]
      PROVE  HarmlessAt(c)'
  <2>1. sctrl = Connection(c, 0) => ~sclosed[c]
    BY <1>t DEF PlacedAt
  <2>2. \A k \in DOMAIN down'[c] : (k \in DOMAIN down[c] /\ down'[c][k] = down[c][k]) \/ down'[c][k] = m
    BY <1>t, <1>y, Longer
  <2> QED BY <1>s, <1>y, <2>1, <2>2
<1>z. ASSUME UNCHANGED <<clientVars, sclosed>>, NEW m \in Messages, NEW n \in Messages,
             m # "SERVER_ERROR", n # "SERVER_ERROR",
             down'[c] = IF sctrl = Connection(c, 0) THEN Append(Append(down[c], m), n) ELSE down[c]
      PROVE  HarmlessAt(c)'
  <2>1. sctrl = Connection(c, 0) => ~sclosed[c]
    BY <1>t DEF PlacedAt
  <2> DEFINE q == Append(down[c], m)
  <2>2. q \in Seq(Messages) /\ \A k \in DOMAIN q : (k \in DOMAIN down[c] /\ q[k] = down[c][k]) \/ q[k] = m
    BY <1>t, <1>z, Longer
  <2>3. sctrl = Connection(c, 0) => down'[c] = Append(q, n)
    BY <1>z
  <2>4. sctrl # Connection(c, 0) => down'[c] = down[c]
    BY <1>z
  <2> HIDE DEF q
  <2>5. \A k \in DOMAIN Append(q, n) : (k \in DOMAIN q /\ Append(q, n)[k] = q[k]) \/ Append(q, n)[k] = n
    BY <1>z, <2>2, Longer
  <2>6. \A k \in DOMAIN down'[c] : \/ k \in DOMAIN down[c] /\ down'[c][k] = down[c][k]
                                   \/ down'[c][k] # "SERVER_ERROR"
    BY <1>z, <2>2, <2>3, <2>4, <2>5
  <2> QED BY <1>s, <1>z, <2>1, <2>4, <2>6
\* The server does not lose a client that listens.
<1>l. sctrl = Connection(c, 0) /\ (Lost \/ Gets("IPERF_DONE")) => Past(c)
  <2> SUFFICES ASSUME sctrl = Connection(c, 0), Lost \/ Gets("IPERF_DONE") PROVE Past(c)
    OBVIOUS
  <2>1. CASE Lost
    BY <1>t, <1>o, <2>1 DEF Lost, ClientClosed, Connection
  <2>2. CASE Gets("IPERF_DONE")
    <3>1. up[c] # <<>> /\ Head(up[c]) = "IPERF_DONE"
      BY <2>2 DEF Gets, Connection
    <3>2. 1 \in DOMAIN up[c] /\ up[c][1] = "IPERF_DONE"
      BY <1>t, <3>1, Shorter
    <3> QED BY <1>t, <3>2 DEF InOrderAt
  <2> QED BY <2>1, <2>2
<1>f. ASSUME CleanupServer, sctrl = Connection(c, 0) => Past(c) PROVE HarmlessAt(c)'
  <2>1. CASE Past(c)
    BY <1>s, <1>f, <2>1 DEF CleanupServer
  <2>2. CASE ~Past(c)
    <3>1. /\ down'[c] = down[c] /\ UNCHANGED clientVars
          /\ sclosed'[c] <=> sclosed[c] \/ \E n \in DOMAIN backlog : backlog[n] = Connection(c, 0)
      BY <1>f, <1>t, <2>2, CleanupOne DEF CleanupServer
    <3>2. CASE \E n \in DOMAIN backlog : backlog[n] = Connection(c, 0)
      <4>1. clast[c] = "zero" /\ down[c] = <<>>
        BY <1>t, <3>2 DEF PlacedAt
      <4>2. Past(c)' = Past(c) /\ UNCHANGED <<cpc, clast, csock, cresult>>
        BY <3>1 DEF clientVars, Past
      <4> QED BY <1>t, <1>o, <3>1, <4>1, <4>2, Empty DEF HarmlessAt, Outside
    <3>3. CASE ~\E n \in DOMAIN backlog : backlog[n] = Connection(c, 0)
      <4>1. Past(c)' = Past(c) /\ UNCHANGED <<cpc, clast, csock, cresult>>
        BY <3>1 DEF clientVars, Past
      <4> QED BY <1>t, <1>o, <3>1, <3>3, <4>1 DEF HarmlessAt
    <3> QED BY <3>2, <3>3
  <2> QED BY <2>1, <2>2
<1>g. ASSUME CleanupServer, Lost \/ Gets("IPERF_DONE") PROVE HarmlessAt(c)'
  BY <1>g, <1>f, <1>l
<1>1. CASE ServerLeaves \/ ServerTimesOut \/ ServerExpires \/ ServerStops
  BY <1>1, <1>t DEF ServerLeaves, ServerTimesOut, ServerExpires, ServerStops
<1>2. CASE ServerAccepts
  <2>1. ~Busy /\ sctrl # Connection(c, 0)
    BY <1>2, <1>t, Serves DEF ServerAccepts
  <2>2. CASE CleanupServer
    BY <1>f, <2>1, <2>2
  <2>3. CASE ~CleanupServer
    <3>0. 1 \in DOMAIN backlog /\ Head(backlog) = backlog[1] /\ backlog[1] \in Connections
      BY <1>2, <1>t, Shorter DEF ServerAccepts
    <3>1. /\ UNCHANGED <<clientVars, sclosed>>
          /\ down' = IF backlog[1].stream = 0 THEN Sent(down, backlog[1].from, "PARAM_EXCHANGE") ELSE down
      BY <1>2, <2>3, <3>0 DEF ServerAccepts, ServerGivesUp
    <3>2. CASE backlog[1] = Connection(c, 0)
      <4>1. down[c] = <<>> /\ ~sclosed[c]
        BY <1>t, <3>0, <3>2 DEF PlacedAt
      <4>2. down'[c] = Append(down[c], "PARAM_EXCHANGE")
        BY <1>t, <3>1, <3>2 DEF Connection, Sent, Types, NetTypes
      <4>3. \A k \in DOMAIN down'[c] : down'[c][k] # "SERVER_ERROR"
        BY <4>1, <4>2
      <4> QED BY <1>s, <3>1, <4>1, <4>3
    <3>3. CASE backlog[1] # Connection(c, 0)
      <4>1. ~(backlog[1].stream = 0 /\ backlog[1].from = c)
        BY <3>0, <3>3, Connected
      <4>2. down'[c] = down[c]
        BY <1>t, <3>1, <4>1 DEF Sent, Types, NetTypes
      <4> QED BY <1>s, <3>1, <4>2
    <3> QED BY <3>2, <3>3
  <2> QED BY <2>2, <2>3
<1>3. CASE ServerGetsParams
  <2>1. CASE CleanupServer /\ (Lost \/ Gets("IPERF_DONE"))
    BY <1>g, <2>1
  <2>2. CASE Tells("CREATE_STREAMS") /\ UNCHANGED <<clientVars, sclosed>>
    BY <1>y, <1>m, <1>t, <2>2, TellsOne
  <2> QED BY <1>3, <2>1, <2>2 DEF ServerGetsParams, ServerGivesUp
<1>d. ASSUME backlog # <<>>, Denied(Head(backlog)), UNCHANGED clientVars PROVE HarmlessAt(c)'
  <2>0. 1 \in DOMAIN backlog
    BY <1>d, <1>t, Shorter
  <2>1. /\ down'[c] = IF backlog[1] = Connection(c, 0) THEN Append(down[c], "ACCESS_DENIED") ELSE down[c]
        /\ sclosed'[c] = (sclosed[c] \/ backlog[1] = Connection(c, 0))
    BY <1>d, <1>t, DeniesOne
  <2>2. CASE backlog[1] = Connection(c, 0)
    <3>1. clast[c] = "zero" /\ down[c] = <<>>
      BY <1>t, <2>0, <2>2 DEF PlacedAt
    <3>2. \A k \in DOMAIN down'[c] : down'[c][k] = "ACCESS_DENIED"
      BY <2>1, <2>2, <3>1
    <3>3. Past(c)' = Past(c) /\ UNCHANGED <<cpc, clast, csock, cresult>>
      BY <1>d DEF clientVars, Past
    <3> QED BY <1>t, <1>o, <3>1, <3>2, <3>3 DEF HarmlessAt, Outside
  <2>3. CASE backlog[1] # Connection(c, 0)
    <3>1. sclosed'[c] = sclosed[c] /\ down'[c] = down[c]
      BY <2>1, <2>3, <1>t DEF Types, NetTypes
    <3> QED BY <1>s, <1>d, <3>1
  <2> QED BY <2>2, <2>3
<1>4. CASE ServerDenies \/ ServerDeniesStream
  BY <1>4, <1>d DEF ServerDenies, ServerDeniesStream
<1>5. CASE ServerAcceptsStream
  <2>1. UNCHANGED <<clientVars, sclosed>> /\ sctrl.stream = 0 /\ (StartsTest \/ UNCHANGED down)
    BY <1>5 DEF ServerAcceptsStream, ServerGivesUp, IInv, Serving
  <2>2. CASE UNCHANGED down
    BY <1>s, <2>1, <2>2
  <2>3. CASE StartsTest
    BY <1>z, <1>m, <1>t, <2>1, <2>3, TellsStart
  <2> QED BY <2>1, <2>2, <2>3
<1>6. CASE ServerReads
  BY <1>y, <1>m, <1>t, <1>6, TellsOne DEF ServerReads
<1>7. CASE ServerEnds
  BY <1>7, <1>g DEF ServerEnds
<1>8. CASE ServerExchangesResults
  <2>1. CASE CleanupServer /\ (Lost \/ Gets("IPERF_DONE"))
    BY <1>g, <2>1
  <2>2. CASE ~CleanupServer
    <3>1. UNCHANGED <<clientVars, sclosed>>
      BY <1>8, <2>2 DEF ServerExchangesResults, ServerGivesUp
    <3>2. down'[c] = IF sctrl = Connection(c, 0)
                     THEN Append(Append(down[c], "results"), "DISPLAY_RESULTS") ELSE down[c]
      BY <1>8, <1>t, <2>2, TellsResults
    <3> QED BY <1>z, <1>m, <3>1, <3>2
  <2>3. CleanupServer => Lost \/ Gets("IPERF_DONE")
    BY <1>8 DEF ServerExchangesResults, ServerGivesUp, CleanupServer
  <2> QED BY <2>1, <2>2, <2>3
<1>9. CASE ServerStarts \/ UNCHANGED vars
  <2>1. UNCHANGED <<clientVars, down, sclosed>>
    BY <1>9 DEF ServerStarts, vars, netVars
  <2> QED BY <1>s, <2>1
<1> QED BY <1>a, <1>1, <1>2, <1>3, <1>4, <1>5, <1>6, <1>7, <1>8, <1>9 DEF Next, ServerStep
-----------------------------------------------------------------------------
(* The theorems.                                                           *)

LEMMA InvariantInit == Init => IInv
<1> SUFFICES ASSUME Init PROVE IInv
  OBVIOUS
<1>n. /\ NoConnection.from \notin Clients /\ NoConnection.stream = 0
      /\ \A i \in Clients, k \in 0..NumStreams : Connection(i, k) # NoConnection
  BY ClientsAssumption DEF Connection, NoConnection
<1>1. Types
  BY TypeInit
<1>2. Local
  BY DEF Init, Local
<1>3. Serving
  BY Empty, <1>n DEF Init, Serving, Busy
<1>4. Placed
  BY Empty, <1>n, NumStreamsAssumption DEF Init, Placed, PlacedAt
<1>5. Fresh
  BY Empty DEF Init, Fresh
<1>6. Queued
  BY Empty DEF Init, Queued
<1>7. Awaited
  BY DEF Init, Awaited
<1>8. Announced
  <2>1. ASSUME NEW i \in Clients PROVE up[i] = <<>> /\ sctrl # Connection(i, 0)
    BY <1>n, NumStreamsAssumption DEF Init
  <2> QED BY <2>1, Empty DEF Announced, AnnouncedAt
<1>9. Success
  BY Empty DEF Init, Success, SuccessAt
<1>10. InOrder
  <2>1. ASSUME NEW i \in Clients
        PROVE  /\ clast[i] = "zero" /\ up[i] = <<>> /\ down[i] = <<>> /\ sctrl # Connection(i, 0)
    BY <1>n, NumStreamsAssumption DEF Init
  <2> QED BY <2>1, Empty DEF InOrder, InOrderAt, Chain
<1> QED BY <1>1, <1>2, <1>3, <1>4, <1>5, <1>6, <1>7, <1>8, <1>9, <1>10 DEF IInv

LEMMA InvariantStep == IInv /\ [Next]_vars => IInv'
BY TypeStep, LocalStep, ServingStep, PlacedStep, FreshStep, QueuedStep, AwaitedStep,
   AnnouncedStep, SuccessStep, InOrderStep
   DEF IInv

LEMMA Invariant == Spec => []IInv
BY InvariantInit, InvariantStep, PTL DEF Spec

\* Two clients are never in a test at once, its streams are those of the client that holds
\* the control connection, and a client to which the test was announced has all of them
\* accepted: iperf_accept, iperf_tcp_accept and the test that starts with the last stream.
THEOREM TestIsWholeAlways == Spec => []TestIsWhole
<1>1. IInv => TestIsWhole
  <2> SUFFICES ASSUME IInv PROVE TestIsWhole
    OBVIOUS
  <2>1. \A k \in DOMAIN accepted : accepted[k] = Connection(sctrl.from, k)
    BY DEF IInv, Serving
  <2>2. ASSUME NEW i \in Clients, Admitted(i)
        PROVE  /\ sctrl = Connection(i, 0)
               /\ clast[i] \notin {"PARAM_EXCHANGE", "CREATE_STREAMS"} =>
                    Len(accepted) = NumStreams /\ created[i] = NumStreams
    <3>1. sctrl = Connection(i, 0)
      BY <2>2 DEF IInv, Placed, PlacedAt, Admitted
    <3>2. AnnouncedAt(i) /\ created[i] \in 0..NumStreams /\ Len(accepted) \in Nat
      BY LenProperties DEF IInv, Announced, Types, ClientTypes, ServerTypes
    <3> QED BY <2>2, <3>1, <3>2, NumStreamsAssumption DEF AnnouncedAt, Early, Admitted
  <2> QED BY <2>1, <2>2 DEF TestIsWhole
<1> QED BY <1>1, Invariant, PTL

\* Nobody stopped it and it reports success: then the server has exchanged results with
\* it, whatever failed on the way (iperf_run_client and the state DISPLAY_RESULTS).
THEOREM CompletedMeansServedAlways == Spec => []CompletedMeansServed
<1>1. IInv => CompletedMeansServed
  BY DEF IInv, Success, SuccessAt, CompletedMeansServed
<1> QED BY <1>1, Invariant, PTL

\* Every variable has its type: a connection carries only the protocol's messages, what is
\* read into test->state is never results, and no more streams are created or accepted
\* than the test has (iperf_handle_message_client, iperf_create_streams, iperf_run_server).
THEOREM TypeCorrect == Spec => []TypeOK
<1>1. IInv => TypeOK
  <2> SUFFICES ASSUME IInv PROVE TypeOK
    OBVIOUS
  <2>1. Types /\ \A i \in Clients : clast[i] # "results" /\ cstate[i] \in {clast[i], "IPERF_DONE"}
    BY DEF IInv, InOrder, InOrderAt, Local
  <2>2. clast \in [Clients -> Read]
    BY <2>1 DEF Types, ClientTypes, Taken, Read
  <2>3. cstate \in [Clients -> Read \cup {"IPERF_DONE"}]
    BY <2>1, <2>2 DEF Types, ClientTypes
  <2>4. /\ cpc \in [Clients -> {"off", "enter", "head", "select", "handle", "streams",
                               "results", "body", "ending", "exit"}]
        /\ cdone \in [Clients -> BOOLEAN]
        /\ created \in [Clients -> 0..NumStreams]
        /\ cworkers \in [Clients -> {"unstarted", "running", "ended"}]
        /\ csock \in [Clients -> {"none", "open", "closed", "broken"}]
        /\ cresult \in [Clients -> {"none", "ok", "error"}]
    BY <2>1 DEF Types, ClientTypes
  <2>5. WorldTypes /\ NetTypes /\ ServerTypes
    BY <2>1 DEF Types
  <2> QED BY <2>2, <2>3, <2>4, <2>5 DEF TypeOK, WorldTypes, NetTypes, ServerTypes, ClientMessages
<1> QED BY <1>1, Invariant, PTL

\* A step of client i is one of its engine.
LEMMA ClientEngineStep ==
  ASSUME IInv, NEW i \in Clients, ClientStep(i) \/ ClientStops(i) \/ ClientVanishes(i)
  PROVE  EngineStep(i) \/ UNCHANGED Engine(i)!engVars
<1>t. /\ ClientTypes /\ WorldTypes /\ Types /\ down[i] \in Seq(Messages) /\ InOrderAt(i)
      /\ cpc[i] = "streams" => clast[i] = "CREATE_STREAMS"
      /\ cpc[i] = "results" => clast[i] = "EXCHANGE_RESULTS"
      /\ clast[i] # "IPERF_DONE"
  BY DEF IInv, Types, InOrder, Local, ClientTypes, NetTypes, Taken, Messages
<1> USE DEF Goes, Put
<1>e. ASSUME ClientEnd(i) PROVE Engine(i)!ClientEnd
  BY <1>t, <1>e DEF ClientEnd, ClientTypes, Engine!ClientEnd
<1>f. ASSUME ClientFail(i) PROVE Engine(i)!ClientFail
  BY <1>t, <1>f, <1>e DEF ClientFail, ClientTypes, Engine!ClientFail
<1>1. CASE ClientStarts(i)
  BY <1>t, <1>1 DEF ClientStarts, ClientTypes, EngineStep, Engine!EnterRun
<1>2. CASE ClientConnect(i)
  BY <1>t, <1>2, <1>f
     DEF ClientConnect, ClientGivesUp, ClientTypes, EngineStep, Engine!ClientStep, Engine!ClientConnect
<1>3. CASE ClientLoops(i)
  BY <1>t, <1>3 DEF ClientLoops, ClientTypes, EngineStep, Engine!LoopAgain
<1>4. CASE ClientLeaves(i)
  BY <1>t, <1>4 DEF ClientLeaves, ClientTypes, EngineStep, Engine!LeaveLoop
<1>5. CASE ClientRead(i)
  <2>1. /\ cpc[i] = "select" /\ down[i] # <<>> /\ ~Past(i)
        /\ UNCHANGED <<cdone, cworkers, csock, cresult>>
        /\ cpc'[i] = "handle" /\ cstate'[i] = Head(down[i]) /\ clast'[i] = Head(down[i])
    BY <1>t, <1>5 DEF ClientRead, ClientTypes, Past
  <2>2. Follows(Heard(i), Head(down[i])) /\ Head(down[i]) \in Messages
    BY <1>t, <2>1, ChainShrinks DEF InOrderAt
  <2>3. Engine(i)!ServerSends(Head(down[i])) /\ Head(down[i]) # "results"
    BY <1>t, <2>1, <2>2 DEF InOrderAt, Follows, Heard, Engine!ServerSends
  <2>4. Head(down[i]) \in Engine(i)!TestStates
    BY <2>2, <2>3 DEF Messages, Engine!TestStates, Engine!Refusals
  <2>5. Engine(i)!ClientRead
    BY <2>1, <2>3, <2>4 DEF Engine!ClientRead
  <2> QED BY <2>5 DEF EngineStep, Engine!ClientStep
<1>6. CASE ClientLoses(i)
  BY <1>6, <1>f DEF ClientLoses, EngineStep, Engine!ClientStep, Engine!ClientLoses
<1>7. CASE ClientWakes(i)
  BY <1>t, <1>7 DEF ClientWakes, ClientTypes, EngineStep, Engine!ClientStep, Engine!ClientWakes
<1>8. CASE ClientHandle(i)
  BY <1>t, <1>8, <1>f, <1>e
     DEF ClientHandle, ClientGivesUp, Handles, ClientTypes, EngineStep, Engine!ClientStep,
         Engine!ClientHandle, Engine!Refusals, Engine!engVars
<1>9. CASE ClientCreatesStream(i)
  BY <1>t, <1>9, <1>f
     DEF ClientCreatesStream, ClientGivesUp, ClientTypes, EngineStep, Engine!ClientStep,
         Engine!ClientHandle, Engine!Refusals, Engine!engVars
<1>10. CASE ClientGetsResults(i)
  BY <1>t, <1>10, <1>f
     DEF ClientGetsResults, ClientGivesUp, ClientTypes, EngineStep, Engine!ClientStep,
         Engine!ClientHandle, Engine!Refusals
<1>11. CASE ClientBody(i)
  BY <1>t, <1>11 DEF ClientBody, ClientTypes, EngineStep, Engine!ClientStep, Engine!ClientBody
<1>12. CASE ClientSendsTestEnd(i)
  BY <1>t, <1>12, <1>f
     DEF ClientSendsTestEnd, ClientGivesUp, ClientTypes, EngineStep, Engine!ClientStep,
         Engine!ClientSendsTestEnd
<1>13. CASE ClientStops(i)
  BY <1>t, <1>13 DEF ClientStops, ClientTypes, EngineStep, Engine!Interrupt
<1>14. CASE ClientVanishes(i)
  BY <1>14 DEF ClientVanishes, clientVars, Engine!engVars
<1> QED
  BY <1>1, <1>2, <1>3, <1>4, <1>5, <1>6, <1>7, <1>8, <1>9, <1>10, <1>11, <1>12, <1>13, <1>14
     DEF ClientStep

\* Every client with this server as its peer is a client of IperfEngine: it is sent the
\* messages in the order the session modules assume (iperf_run_server, set_send_state).
THEOREM ClientsAreEngines == Spec => ClientIsEngine
<1>1. IInv /\ [Next]_vars => [\A i \in Clients : EngineStep(i) \/ UNCHANGED Engine(i)!engVars]_vars
  <2> SUFFICES ASSUME IInv, [Next]_vars, NEW c \in Clients
               PROVE  EngineStep(c) \/ UNCHANGED Engine(c)!engVars
    OBVIOUS
  <2>t. Types
    BY DEF IInv
  <2>1. ASSUME NEW i \in Clients, ClientStep(i) \/ ClientStops(i) \/ ClientVanishes(i)
        PROVE  EngineStep(c) \/ UNCHANGED Engine(c)!engVars
    <3>1. CASE i = c
      BY <2>1, <3>1, ClientEngineStep
    <3>2. CASE i # c
      BY <2>1, <2>t, <3>2, ClientFrame DEF Engine!engVars
    <3> QED BY <3>1, <3>2
  <2>2. CASE UNCHANGED clientVars
    BY <2>2 DEF clientVars, Engine!engVars
  <2>3. ServerStep \/ ServerStarts \/ ServerStops \/ UNCHANGED vars => UNCHANGED clientVars
    BY DEF ServerStep, ServerStarts, ServerStops, vars, CleanupServer, ServerLeaves, ServerAccepts,
           ServerGetsParams, ServerDenies, ServerAcceptsStream, ServerDeniesStream, ServerReads,
           ServerEnds, ServerExchangesResults, ServerExpires, ServerTimesOut, ServerGivesUp
  <2> QED BY <2>1, <2>2, <2>3 DEF Next
<1> QED BY <1>1, Invariant, PTL DEF Spec, ClientIsEngine

\* On a server that sets no type of service the test of a client that was let in does not
\* fail when neither is disturbed, whoever else connects, vanishes or is turned away
\* (iperf_accept): what the run with a type of service finds is the only way it can.
THEOREM BystandersAreHarmless == ~SetsTos => (Spec => []BystanderHarmless)
<1>1. Init => Harmless
  BY Empty DEF Init, Harmless, GoesOn, HarmlessAt, Past
<1>2. ~SetsTos /\ IInv /\ Harmless /\ [Next]_vars => Harmless'
  BY HarmlessStep
<1>3. Harmless => BystanderHarmless
  BY DEF Harmless, HarmlessAt, Outside, BystanderHarmless
<1> QED
  <2> SUFFICES ASSUME ~SetsTos PROVE Spec => []BystanderHarmless
    OBVIOUS
  <2>1. IInv /\ Harmless /\ [Next]_vars => Harmless'
    BY <1>2
  <2> QED BY <1>1, <1>3, <2>1, Invariant, PTL DEF Spec
===============================================================================
