---------------------------- MODULE IperfControl ----------------------------
(***************************************************************************)
(* The control protocol of a TCP test: iperf_run_client on several hosts   *)
(* against iperf_run_server on one, joined by control connections (a queue *)
(* of messages in each direction) and the server's backlog of connections  *)
(* that were not accepted yet.  Any host may stop its user's test, a       *)
(* client may vanish with its process, and every send may fail.  Stream    *)
(* data, the contents of parameters and results and the time a timeout     *)
(* takes are abstracted: it may expire whenever its wait is on.            *)
(***************************************************************************)
EXTENDS Naturals, Sequences

CONSTANTS
  Clients,     \* hosts that each run one client test
  NumStreams,  \* the parallel streams of a test
  MaxTests,    \* bound: how often the server's user starts it
  SetsTos,     \* whether a client's parameters set the type of service
  Disturbances \* sets of hosts: in each test it is one of them whose sends fail, waits
               \* time out, users stop and processes vanish

ASSUME NumStreamsAssumption == NumStreams \in Nat \ {0}
ASSUME MaxTestsAssumption == MaxTests \in Nat
Server == "server"

ASSUME SetsTosAssumption == SetsTos \in BOOLEAN
ASSUME DisturbancesAssumption ==
  Server \notin Clients /\ Disturbances \subseteq SUBSET (Clients \cup {Server})

\* A connection: of whom, and which stream (0: the control connection).
Connection(i, k) == [from |-> i, stream |-> k]
NoConnection == [from |-> "nobody", stream |-> 0]

ASSUME ClientsAssumption == NoConnection.from \notin Clients

VARIABLES
  \* per client: its place in iperf_run_client, test->state, test->done, the last
  \* control message read or TEST_END, streams created, their threads, the control
  \* socket, the result, and whether its process lives and its user stopped it
  cpc, cstate, cdone, clast, created, cworkers, csock, cresult, alive, stopped,
  disturbed,  \* the hosts that are disturbed
  \* the network: control messages under way, whether the server has closed the
  \* control connection, and the connections to be accepted
  up, down, sclosed, backlog,
  \* the server: its place in iperf_run_server, test->state, test->done, the pipe,
  \* the connection that is ctrl_sck, the streams, and how often it was started
  spc, sstate, sdone, interrupted, sctrl, accepted, tests,
  \* history: the clients with whom the server has exchanged results
  served

clientVars == <<cpc, cstate, cdone, clast, created, cworkers, csock, cresult>>
worldVars == <<disturbed, alive, stopped>>
netVars == <<up, down, sclosed, backlog>>
serverVars == <<spc, sstate, sdone, interrupted, sctrl, accepted, tests, served>>
vars == <<clientVars, worldVars, netVars, serverVars>>

Listening == spc # "off"

Init ==
  /\ cpc = [i \in Clients |-> "off"]
  /\ cstate = [i \in Clients |-> "zero"]
  /\ cdone = [i \in Clients |-> FALSE]
  /\ clast = [i \in Clients |-> "zero"]
  /\ created = [i \in Clients |-> 0]
  /\ cworkers = [i \in Clients |-> "unstarted"]
  /\ csock = [i \in Clients |-> "none"]
  /\ cresult = [i \in Clients |-> "none"]
  /\ disturbed \in Disturbances
  /\ alive = [i \in Clients |-> TRUE]
  /\ stopped = [i \in Clients |-> FALSE]
  /\ up = [i \in Clients |-> <<>>]
  /\ down = [i \in Clients |-> <<>>]
  /\ sclosed = [i \in Clients |-> FALSE]
  /\ backlog = <<>>
  /\ spc = "off"
  /\ sstate = "zero"
  /\ sdone = FALSE
  /\ interrupted = FALSE
  /\ sctrl = NoConnection
  /\ accepted = <<>>
  /\ tests = 0
  /\ served = {}
-----------------------------------------------------------------------------
(* The client.                                                             *)

Put(f, i, x) == [f EXCEPT ![i] = x]
Sent(q, i, m) == [q EXCEPT ![i] = Append(@, m)]

\* Client i goes on at pc; nothing else of it changes but what the action names.
Goes(i, pc) == alive[i] /\ cpc' = Put(cpc, i, pc)

\* Nothing the client has sent can follow once it has closed or died.
ClientClosed(i) == csock[i] = "closed" \/ ~alive[i]

\* iperf_client_end: IPERF_DONE is sent unless the state is zero or negative; when
\* that fails the socket stays open.
ClientEnd(i) ==
  LET tells == csock[i] # "none" /\ cstate[i] \notin {"zero", "ACCESS_DENIED", "SERVER_ERROR"}
  IN /\ cstate' = IF tells THEN Put(cstate, i, "IPERF_DONE") ELSE cstate
     /\ \/ /\ csock' = IF csock[i] = "open" THEN Put(csock, i, "closed") ELSE csock
           /\ up' = IF tells /\ csock[i] = "open" THEN Sent(up, i, "IPERF_DONE") ELSE up
        \/ /\ i \in disturbed /\ tells /\ csock[i] = "open"
           /\ csock' = Put(csock, i, "broken")
           /\ UNCHANGED up

FailsQuietly(i) == \* mutant
  /\ Goes(i, "exit")
  /\ ClientEnd(i)
  /\ cworkers' = IF cworkers[i] = "running" THEN Put(cworkers, i, "ended") ELSE cworkers
  /\ cresult' = Put(cresult, i, "ok")
  /\ UNCHANGED <<cdone, clast, created, down, sclosed, backlog, worldVars, serverVars>>

\* cleanup_and_fail.
ClientFail(i) ==
  /\ Goes(i, "exit")
  /\ ClientEnd(i)
  /\ cworkers' = IF cworkers[i] = "running" THEN Put(cworkers, i, "ended") ELSE cworkers
  /\ cresult' = Put(cresult, i, "error")
  /\ UNCHANGED <<cdone, clast, created, down, sclosed, backlog, worldVars, serverVars>>

\* A call fails by a disturbance, or because it has to.
ClientGivesUp(i, must) == (i \in disturbed \/ must) /\ ClientFail(i)

ClientStarts(i) ==
  /\ cpc[i] = "off"
  /\ Goes(i, "enter")
  /\ UNCHANGED <<cstate, cdone, clast, created, cworkers, csock, cresult, worldVars,
                 netVars, serverVars>>

\* iperf_connect: the connection waits in the backlog, its cookie in the connection.
ClientConnect(i) ==
  /\ cpc[i] = "enter"
  /\ \/ /\ Listening
        /\ Goes(i, "head")
        /\ csock' = Put(csock, i, "open")
        /\ backlog' = Append(backlog, Connection(i, 0))
        /\ UNCHANGED <<cstate, cdone, clast, created, cworkers, cresult, up, down,
                       sclosed, worldVars, serverVars>>
     \/ ClientGivesUp(i, ~Listening)

ClientLoops(i) ==
  /\ cpc[i] = "head"
  /\ cstate[i] # "IPERF_DONE"
  /\ Goes(i, "select")
  /\ UNCHANGED <<cstate, cdone, clast, created, cworkers, csock, cresult, worldVars,
                 netVars, serverVars>>

ClientLeaves(i) ==
  /\ cpc[i] = "head"
  /\ cstate[i] = "IPERF_DONE"
  /\ Goes(i, "exit")
  /\ cresult' = Put(cresult, i, "ok")
  /\ UNCHANGED <<cstate, cdone, clast, created, cworkers, csock, worldVars, netVars,
                 serverVars>>

\* iperf_handle_message_client: read() into test->state.
ClientRead(i) ==
  /\ cpc[i] = "select"
  /\ down[i] # <<>>
  /\ Goes(i, "handle")
  /\ cstate' = Put(cstate, i, Head(down[i]))
  /\ clast' = Put(clast, i, Head(down[i]))
  /\ down' = Put(down, i, Tail(down[i]))
  /\ UNCHANGED <<cdone, created, cworkers, csock, cresult, up, sclosed, backlog,
                 worldVars, serverVars>>

\* IECTRLCLOSE.
ClientLoses(i) ==
  /\ cpc[i] = "select"
  /\ down[i] = <<>>
  /\ sclosed[i]
  /\ ClientFail(i)

\* Timers exist from TEST_START on.
ClientWakes(i) ==
  /\ cpc[i] = "select"
  /\ clast[i] \in {"TEST_START", "TEST_RUNNING", "TEST_END", "EXCHANGE_RESULTS"}
  /\ Goes(i, "body")
  /\ UNCHANGED <<cstate, cdone, clast, created, cworkers, csock, cresult, worldVars,
                 netVars, serverVars>>

\* The switch sees what was read, or what an interrupt has written over it since.
Handles(i, s) == cpc[i] = "handle" /\ s \in {cstate[i], clast[i]}

ClientHandle(i) ==
  \/ /\ \E s \in {"TEST_RUNNING", "IPERF_DONE"} : Handles(i, s)
     /\ Goes(i, "body")
     /\ UNCHANGED <<cstate, cdone, clast, created, cworkers, csock, cresult, netVars,
                    worldVars, serverVars>>
  \/ /\ Handles(i, "PARAM_EXCHANGE")
     /\ \/ /\ Goes(i, "body")
           /\ up' = Sent(up, i, "params")
           /\ UNCHANGED <<cstate, cdone, clast, created, cworkers, csock, cresult, down,
                          sclosed, backlog, worldVars, serverVars>>
        \/ ClientGivesUp(i, FALSE)
  \/ /\ Handles(i, "CREATE_STREAMS")
     /\ Goes(i, "streams")
     /\ UNCHANGED <<cstate, cdone, clast, created, cworkers, csock, cresult, netVars,
                    worldVars, serverVars>>
  \/ /\ Handles(i, "TEST_START")
     /\ \/ /\ Goes(i, "body")
           /\ cdone' = Put(cdone, i, FALSE)
           /\ UNCHANGED <<cstate, clast, created, cworkers, csock, cresult, netVars,
                          worldVars, serverVars>>
        \/ ClientGivesUp(i, FALSE)
  \/ /\ Handles(i, "EXCHANGE_RESULTS")
     /\ \/ /\ Goes(i, "results")
           /\ up' = Sent(up, i, "results")
           /\ UNCHANGED <<cstate, cdone, clast, created, cworkers, csock, cresult, down,
                          sclosed, backlog, worldVars, serverVars>>
        \/ ClientGivesUp(i, FALSE)
  \/ /\ Handles(i, "DISPLAY_RESULTS")
     /\ Goes(i, "body")
     /\ ClientEnd(i)
     /\ UNCHANGED <<cdone, clast, created, cworkers, cresult, down, sclosed, backlog,
                    worldVars, serverVars>>
  \/ /\ \E s \in {"ACCESS_DENIED", "SERVER_ERROR"} : Handles(i, s)
     /\ ClientFail(i)

CreatesOneMore(i) == \* mutant
  /\ cpc[i] = "streams"
  /\ \/ /\ created[i] <= NumStreams
        /\ Listening
        /\ Goes(i, "streams")
        /\ created' = Put(created, i, created[i] + 1)
        /\ backlog' = Append(backlog, Connection(i, created[i] + 1))
        /\ UNCHANGED <<cstate, cdone, clast, cworkers, csock, cresult, up, down, sclosed,
                       worldVars, serverVars>>
     \/ created[i] <= NumStreams /\ ClientGivesUp(i, ~Listening)

\* iperf_create_streams: connect, and the cookie, once for every stream.
ClientCreatesStream(i) ==
  /\ cpc[i] = "streams"
  /\ \/ /\ created[i] < NumStreams
        /\ Listening
        /\ Goes(i, "streams")
        /\ created' = Put(created, i, created[i] + 1)
        /\ backlog' = Append(backlog, Connection(i, created[i] + 1))
        /\ UNCHANGED <<cstate, cdone, clast, cworkers, csock, cresult, up, down, sclosed,
                       worldVars, serverVars>>
     \/ /\ created[i] = NumStreams
        /\ Goes(i, "body")
        /\ UNCHANGED <<cstate, cdone, clast, created, cworkers, csock, cresult, netVars,
                       worldVars, serverVars>>
     \/ created[i] < NumStreams /\ ClientGivesUp(i, ~Listening)

\* get_results: what comes next is parsed as results, or does not come in time.
ClientGetsResults(i) ==
  /\ cpc[i] = "results"
  /\ \/ /\ down[i] # <<>> /\ Head(down[i]) = "results"
        /\ Goes(i, "body")
        /\ down' = Put(down, i, Tail(down[i]))
        /\ UNCHANGED <<cstate, cdone, clast, created, cworkers, csock, cresult, up,
                       sclosed, backlog, worldVars, serverVars>>
     \/ ClientGivesUp(i, IF down[i] = <<>> THEN sclosed[i] ELSE Head(down[i]) # "results")

\* The rest of the loop: threads, timers and, when the test is done, TEST_END.
ClientBody(i) ==
  /\ cpc[i] = "body"
  /\ \/ /\ cstate[i] # "TEST_RUNNING"
        /\ Goes(i, "head")
        /\ UNCHANGED <<cdone, cworkers>>
     \/ /\ cstate[i] = "TEST_RUNNING"
        /\ cworkers' = IF cworkers[i] = "unstarted" THEN Put(cworkers, i, "running")
                       ELSE cworkers
        /\ \E done \in {cdone[i], TRUE} :
             /\ cdone' = Put(cdone, i, done)
             /\ Goes(i, IF done THEN "ending" ELSE "head")
  /\ UNCHANGED <<cstate, clast, created, csock, cresult, netVars, worldVars, serverVars>>

ClientSendsTestEnd(i) ==
  /\ cpc[i] = "ending"
  /\ \/ /\ Goes(i, "head")
        /\ cworkers' = Put(cworkers, i, "ended")
        /\ cdone' = Put(cdone, i, TRUE)
        /\ cstate' = Put(cstate, i, "TEST_END")
        /\ clast' = Put(clast, i, "TEST_END")
        /\ up' = Sent(up, i, "TEST_END")
        /\ UNCHANGED <<created, csock, cresult, down, sclosed, backlog, worldVars,
                       serverVars>>
     \/ ClientGivesUp(i, FALSE)

\* iperf_interrupt by the client's user.
ClientStops(i) ==
  /\ i \in disturbed
  /\ cpc[i] \notin {"off", "exit"}
  /\ alive[i]
  /\ ~stopped[i]
  /\ stopped' = Put(stopped, i, TRUE)
  /\ cdone' = Put(cdone, i, TRUE)
  /\ cstate' = Put(cstate, i, "IPERF_DONE")
  /\ UNCHANGED <<cpc, clast, created, cworkers, csock, cresult, disturbed, alive, netVars,
                 serverVars>>

\* The client's process ends; the system closes its connections.
ClientVanishes(i) ==
  /\ i \in disturbed
  /\ alive[i]
  /\ cpc[i] # "off"
  /\ alive' = Put(alive, i, FALSE)
  /\ UNCHANGED <<clientVars, disturbed, stopped, netVars, serverVars>>
-----------------------------------------------------------------------------
(* The server.                                                             *)

\* set_send_state to the connection that is ctrl_sck: what goes to a connection that
\* was made for a stream is never read.
Tells(m) == down' = IF sctrl.stream = 0 THEN Sent(down, sctrl.from, m) ELSE down

\* Nread on ctrl_sck: what comes next, and that nothing will ever come.
Gets(m) == sctrl.stream = 0 /\ up[sctrl.from] # <<>> /\ Head(up[sctrl.from]) = m
Lost == sctrl.stream # 0 \/ (up[sctrl.from] = <<>> /\ ClientClosed(sctrl.from))
Takes == up' = Put(up, sctrl.from, Tail(up[sctrl.from]))

\* ctrl_sck is not -1.
Busy == sctrl # NoConnection

\* iperf_server_listen and the start of iperf_run_server.
ServerStarts ==
  /\ spc = "off"
  /\ tests < MaxTests
  /\ tests' = tests + 1
  /\ spc' = "select"
  /\ sstate' = "IPERF_START"
  /\ sdone' = FALSE
  /\ interrupted' = FALSE
  /\ UNCHANGED <<sctrl, accepted, served, clientVars, worldVars, netVars>>

CleanupKeepsControl == \* mutant
  /\ spc' = "off"
  /\ sctrl' = NoConnection
  /\ accepted' = <<>>
  /\ backlog' = <<>>
  /\ UNCHANGED <<up, down, sclosed, sstate, sdone, interrupted, tests, served, clientVars,
                 worldVars>>

\* cleanup_server: SERVER_ERROR to the client if i_errno says so, then all sockets are
\* closed; the connections nobody has accepted are reset.
CleanupServer ==
  /\ spc' = "off"
  /\ sctrl' = NoConnection
  /\ accepted' = <<>>
  /\ \/ UNCHANGED <<sstate, down>>
     \/ Busy /\ sstate' = "SERVER_ERROR" /\ Tells("SERVER_ERROR")
  /\ sclosed' = [i \in Clients |->
                   \/ sclosed[i]
                   \/ sctrl = Connection(i, 0)
                   \/ \E n \in DOMAIN backlog : backlog[n] = Connection(i, 0)]
  /\ backlog' = <<>>
  /\ UNCHANGED <<up, sdone, interrupted, tests, served, clientVars, worldVars>>

ServerGivesUp(must) == (Server \in disturbed \/ must) /\ CleanupServer

\* The interrupt pipe, the end of the loop, or a select() that fails on the control
\* socket an expired test has closed.
ServerLeaves ==
  /\ \/ spc = "select" /\ interrupted
     \/ spc = "leaving"
  /\ CleanupServer

\* iperf_accept on a free server, whatever the connection was made for: the cookie is
\* read, PARAM_EXCHANGE is sent.
ServerAccepts ==
  /\ spc = "select"
  /\ ~Busy
  /\ backlog # <<>>
  /\ \/ /\ backlog' = Tail(backlog)
        /\ sctrl' = Head(backlog)
        /\ sstate' = "PARAM_EXCHANGE"
        /\ down' = IF sctrl'.stream = 0 THEN Sent(down, sctrl'.from, "PARAM_EXCHANGE")
                   ELSE down
        /\ spc' = "params"
        /\ UNCHANGED <<up, sclosed, sdone, interrupted, accepted, tests, served,
                       clientVars, worldVars>>
     \/ ServerGivesUp(~alive[Head(backlog).from])

\* get_parameters, the listener for streams, CREATE_STREAMS.
ServerGetsParams ==
  /\ spc = "params"
  /\ \/ /\ Gets("params")
        /\ Takes
        /\ sstate' = "CREATE_STREAMS"
        /\ Tells("CREATE_STREAMS")
        /\ spc' = "select"
        /\ UNCHANGED <<sclosed, backlog, sdone, interrupted, sctrl, accepted, tests,
                       served, clientVars, worldVars>>
     \/ ServerGivesUp(Lost \/ Gets("IPERF_DONE"))

\* A connection that is turned away: ACCESS_DENIED, and it is closed.
Denied(c) ==
  /\ backlog' = Tail(backlog)
  /\ down' = IF c.stream = 0 THEN Sent(down, c.from, "ACCESS_DENIED") ELSE down
  /\ sclosed' = IF c.stream = 0 THEN Put(sclosed, c.from, TRUE) ELSE sclosed

TakesOver == \* mutant
  /\ spc = "select"
  /\ Busy
  /\ sstate # "CREATE_STREAMS"
  /\ backlog # <<>>
  /\ backlog' = Tail(backlog)
  /\ sctrl' = Head(backlog)
  /\ spc' = "params"
  /\ sstate' = "PARAM_EXCHANGE"
  /\ down' = IF sctrl'.stream = 0 THEN Sent(down, sctrl'.from, "PARAM_EXCHANGE") ELSE down
  /\ UNCHANGED <<up, sclosed, sdone, interrupted, accepted, tests, served, clientVars,
                 worldVars>>

\* iperf_accept on a busy server, which may even be a stream's connection if an
\* interrupt has changed the state; then the loop ends.
ServerDenies ==
  /\ spc = "select"
  /\ Busy
  /\ sstate # "CREATE_STREAMS"
  /\ backlog # <<>>
  /\ Denied(Head(backlog))
  /\ spc' = IF sstate = "IPERF_DONE" THEN "leaving" ELSE "select"
  /\ UNCHANGED <<up, sstate, sdone, interrupted, sctrl, accepted, tests, served,
                 clientVars, worldVars>>

StartsAtOnce == \* mutant
  /\ sdone' = FALSE
  /\ sstate' = "TEST_RUNNING"
  /\ Tells("TEST_RUNNING")

\* TEST_START, the timers (done = 0), TEST_RUNNING.
StartsTest ==
  /\ sdone' = FALSE
  /\ sstate' = "TEST_RUNNING"
  /\ down' = [down EXCEPT ![sctrl.from] = @ \o <<"TEST_START", "TEST_RUNNING">>]

\* iperf_tcp_accept of a connection with the cookie of the test.
ServerAcceptsStream ==
  /\ spc = "select"
  /\ sstate = "CREATE_STREAMS"
  /\ backlog # <<>>
  /\ Head(backlog).from = sctrl.from
  /\ \/ /\ backlog' = Tail(backlog)
        /\ accepted' = Append(accepted, Head(backlog))
        /\ IF Len(accepted') = NumStreams THEN StartsTest
           ELSE UNCHANGED <<sstate, sdone, down>>
        /\ UNCHANGED <<up, sclosed, spc, interrupted, sctrl, tests, served, clientVars,
                       worldVars>>
     \/ ServerGivesUp(FALSE)

CountsDenied == \* mutant
  /\ spc = "select"
  /\ sstate = "CREATE_STREAMS"
  /\ backlog # <<>>
  /\ Head(backlog).from # sctrl.from
  /\ accepted' = Append(accepted, Head(backlog))
  /\ Denied(Head(backlog))
  /\ UNCHANGED <<up, spc, sstate, sdone, interrupted, sctrl, tests, served, clientVars,
                 worldVars>>

\* iperf_tcp_accept of any other connection: it is denied and closed, but the closed
\* descriptor is returned and given to iperf_common_sockopts.
ServerDeniesStream ==
  /\ spc = "select"
  /\ sstate = "CREATE_STREAMS"
  /\ backlog # <<>>
  /\ Head(backlog).from # sctrl.from
  /\ \/ ~SetsTos /\ Denied(Head(backlog)) /\ UNCHANGED <<up, serverVars, clientVars, worldVars>>
     \/ SetsTos /\ CleanupServer

\* iperf_handle_message_server, TEST_END.
ServerReads ==
  /\ spc = "select"
  /\ Busy
  /\ Gets("TEST_END")
  /\ Takes
  /\ sdone' = TRUE
  /\ sstate' = "EXCHANGE_RESULTS"
  /\ Tells("EXCHANGE_RESULTS")
  /\ spc' = "results"
  /\ UNCHANGED <<sclosed, backlog, interrupted, sctrl, accepted, tests, served,
                 clientVars, worldVars>>

\* iperf_handle_message_server: IPERF_DONE, or the client has closed (IECTRLCLOSE).
ServerEnds ==
  /\ spc = "select"
  /\ Busy
  /\ Gets("IPERF_DONE") \/ Lost
  /\ CleanupServer

\* get_results, send_results, DISPLAY_RESULTS.
ServerExchangesResults ==
  /\ spc = "results"
  /\ \/ /\ Gets("results")
        /\ Takes
        /\ down' = [down EXCEPT ![sctrl.from] = @ \o <<"results", "DISPLAY_RESULTS">>]
        /\ sstate' = "DISPLAY_RESULTS"
        /\ spc' = "select"
        /\ served' = served \cup {sctrl.from}
        /\ UNCHANGED <<sclosed, backlog, sdone, interrupted, sctrl, accepted, tests,
                       clientVars, worldVars>>
     \/ ServerGivesUp(Lost \/ Gets("IPERF_DONE"))

\* server_timer_proc: the client is told and its connection closed.
ServerExpires ==
  /\ Server \in disturbed
  /\ spc = "select"
  /\ Busy
  /\ sstate = "TEST_RUNNING"
  /\ ~sdone
  /\ sdone' = TRUE
  /\ sstate' = "SERVER_ERROR"
  /\ Tells("SERVER_ERROR")
  /\ sclosed' = Put(sclosed, sctrl.from, TRUE)
  /\ sctrl' = NoConnection
  /\ accepted' = <<>>
  /\ spc' = "leaving"
  /\ UNCHANGED <<up, backlog, interrupted, tests, served, clientVars, worldVars>>

TimesOutRunning == \* mutant
  /\ Server \in disturbed
  /\ spc = "select"
  /\ sstate = "TEST_RUNNING"
  /\ Busy
  /\ CleanupServer

\* Nothing received for rcv_timeout.
ServerTimesOut ==
  /\ Server \in disturbed
  /\ spc = "select"
  /\ Busy
  /\ CleanupServer

\* iperf_interrupt by the server's user.
ServerStops ==
  /\ Server \in disturbed
  /\ spc # "off"
  /\ ~interrupted
  /\ interrupted' = TRUE
  /\ sdone' = TRUE
  /\ sstate' = "IPERF_DONE"
  /\ UNCHANGED <<spc, sctrl, accepted, tests, served, clientVars, worldVars, netVars>>
-----------------------------------------------------------------------------
ClientStep(i) ==
  \/ ClientStarts(i) \/ ClientConnect(i) \/ ClientLoops(i) \/ ClientLeaves(i)
  \/ ClientRead(i) \/ ClientLoses(i) \/ ClientWakes(i) \/ ClientHandle(i)
  \/ ClientCreatesStream(i) \/ ClientGetsResults(i) \/ ClientBody(i)
  \/ ClientSendsTestEnd(i)

ServerStep ==
  \/ ServerLeaves \/ ServerAccepts \/ ServerGetsParams \/ ServerDenies
  \/ ServerAcceptsStream \/ ServerDeniesStream \/ ServerReads \/ ServerEnds
  \/ ServerExchangesResults \/ ServerExpires \/ ServerTimesOut

Next ==
  \/ \E i \in Clients : ClientStep(i) \/ ClientStops(i) \/ ClientVanishes(i)
  \/ ServerStep
  \/ ServerStarts
  \/ ServerStops

Spec == Init /\ [][Next]_vars
-----------------------------------------------------------------------------
(* Fairness.  Every host runs its threads.  A client that keeps waking for *)
(* its timers still reads a message that waits for it, and its test timer  *)
(* expires.  Nobody is forced to start, to stop or to vanish.              *)

TestTimerFires(i) == ClientBody(i) /\ ~cdone[i] /\ cdone'[i]

FairSpec ==
  /\ Spec
  /\ WF_vars(ServerStep)
  /\ \A i \in Clients :
       /\ WF_vars(ClientStep(i) /\ cpc[i] # "off")
       /\ SF_vars(ClientRead(i) \/ ClientLoses(i) \/ TestTimerFires(i))
-----------------------------------------------------------------------------
(* Properties.                                                             *)

Messages == {"PARAM_EXCHANGE", "CREATE_STREAMS", "TEST_START", "TEST_RUNNING",
             "EXCHANGE_RESULTS", "results", "DISPLAY_RESULTS", "ACCESS_DENIED",
             "SERVER_ERROR"}
Read == {"zero", "TEST_END"} \cup (Messages \ {"results"})
Connections == [from : Clients, stream : 0..NumStreams]

\* Every variable has its type; a connection carries only the protocol's messages and
\* nobody creates or accepts more streams than the test has.
TypeOK ==
  /\ cpc \in [Clients -> {"off", "enter", "head", "select", "handle", "streams",
                          "results", "body", "ending", "exit"}]
  /\ cstate \in [Clients -> Read \cup {"IPERF_DONE"}]
  /\ clast \in [Clients -> Read]
  /\ cdone \in [Clients -> BOOLEAN]
  /\ created \in [Clients -> 0..NumStreams]
  /\ cworkers \in [Clients -> {"unstarted", "running", "ended"}]
  /\ csock \in [Clients -> {"none", "open", "closed", "broken"}]
  /\ cresult \in [Clients -> {"none", "ok", "error"}]
  /\ disturbed \in Disturbances
  /\ alive \in [Clients -> BOOLEAN]
  /\ stopped \in [Clients -> BOOLEAN]
  /\ up \in [Clients -> Seq({"params", "TEST_END", "results", "IPERF_DONE"})]
  /\ down \in [Clients -> Seq(Messages)]
  /\ sclosed \in [Clients -> BOOLEAN]
  /\ backlog \in Seq(Connections)
  /\ spc \in {"off", "select", "params", "results", "leaving"}
  /\ sstate \in {"zero", "IPERF_START", "PARAM_EXCHANGE", "CREATE_STREAMS", "TEST_RUNNING",
                 "EXCHANGE_RESULTS", "DISPLAY_RESULTS", "IPERF_DONE", "SERVER_ERROR"}
  /\ sdone \in BOOLEAN
  /\ interrupted \in BOOLEAN
  /\ sctrl \in Connections \cup {NoConnection}
  /\ accepted \in Seq(Connections)
  /\ Len(accepted) <= NumStreams
  /\ tests \in 0..MaxTests
  /\ served \subseteq Clients

\* A client that was let in and whose connection the server has not closed.
Admitted(i) ==
  /\ csock[i] = "open" /\ alive[i] /\ ~sclosed[i]
  /\ clast[i] \notin {"zero", "ACCESS_DENIED"}

\* Two clients are never in a test at once; its streams are those of the client that holds
\* the control connection, in the order it made them, whoever else connected while they were
\* accepted (iperf_tcp_accept and the cookie); and a client whose server has announced the
\* test (TEST_START and all that follows) has all its streams accepted by it.
TestIsWhole ==
  /\ \A k \in DOMAIN accepted : accepted[k] = Connection(sctrl.from, k)
  /\ \A i \in Clients : Admitted(i) =>
       /\ sctrl = Connection(i, 0)
       /\ clast[i] \notin {"PARAM_EXCHANGE", "CREATE_STREAMS"} =>
            Len(accepted) = NumStreams /\ created[i] = NumStreams

\* A client nobody stopped reports success only when the server has exchanged results
\* with it, whatever failed and whoever vanished on the way.
CompletedMeansServed ==
  \A i \in Clients : cresult[i] = "ok" /\ ~stopped[i] => i \in served

\* The test of a client that was let in does not fail when neither it nor the server is
\* disturbed: whoever connects meanwhile is turned away, whatever becomes of them.  Of
\* such a request iperf_accept says that it is not related to the ongoing test.
BystanderHarmless ==
  Server \notin disturbed => \A i \in Clients \ disturbed :
    cresult[i] = "error" => clast[i] \in {"zero", "ACCESS_DENIED"}

\* Every client that has connected, or failed to, comes back, unless its process ends: with
\* a server whose waits may time out, whatever else goes wrong.
ClientEnds ==
  \A i \in Clients :
    cpc[i] = "enter" /\ Server \in disturbed ~> cpc[i] = "exit" \/ ~alive[i]

\* A server whose waits may time out is not kept by a client that vanished, went silent or
\* was stopped.
ServerIsFreed == Busy /\ Server \in disturbed ~> ~Busy

\* If neither it nor the server is disturbed, a client that was let in is served and
\* reports success.
AdmittedIsServed ==
  \A i \in Clients :
    sctrl = Connection(i, 0) /\ {i, Server} \cap disturbed = {} ~> i \in served /\ cresult[i] = "ok"

\* IperfEngine with the variables of client i.
\* Every client, with this server as its peer, is a client of IperfEngine: what the
\* session modules assume of the peer (the order of its messages) holds.
Engine(i) == INSTANCE IperfEngine WITH
  epc <- IF cpc[i] \in {"streams", "results"} THEN "handle" ELSE cpc[i],
  role <- "client", tstate <- cstate[i], tdone <- cdone[i], progress <- clast[i],
  pipe <- "none", workers <- cworkers[i], ctrl <- csock[i], result <- cresult[i]

EngineStep(i) ==
  \/ Engine(i)!EnterRun("client") \/ Engine(i)!LoopAgain \/ Engine(i)!LeaveLoop
  \/ Engine(i)!ClientStep \/ Engine(i)!Interrupt

ClientIsEngine ==
  [][\A i \in Clients : EngineStep(i) \/ UNCHANGED Engine(i)!engVars]_vars
=============================================================================
