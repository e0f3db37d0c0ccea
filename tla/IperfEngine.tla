---------------------------- MODULE IperfEngine ----------------------------
(***************************************************************************)
(* The blocking calls iperf_run_client and iperf_run_server as the session *)
(* runtimes see them, for the P0 configuration the apps use (TCP, client   *)
(* upload, ten seconds).  What is kept is everything that decides whether  *)
(* a call of iperf_interrupt from another thread is noticed: the loop over *)
(* test->state, the select() that blocks between two looks at it, the      *)
(* assignments that overwrite it, test->done, the server's interrupt pipe, *)
(* and the resources the call leaves behind (stream threads, the control   *)
(* socket).  The peer, message contents and statistics are abstracted.     *)
(***************************************************************************)
EXTENDS Naturals

Kinds == {"client", "server"}

\* Control states, iperf_api.h:112-129 (those a P0 test goes through).
Refusals == {"ACCESS_DENIED", "SERVER_ERROR", "SERVER_TERMINATE"}

TestStates ==
  {"zero", "IPERF_START", "PARAM_EXCHANGE", "CREATE_STREAMS", "TEST_START",
   "TEST_RUNNING", "TEST_END", "EXCHANGE_RESULTS", "DISPLAY_RESULTS",
   "IPERF_DONE"} \cup Refusals

VARIABLES
  epc,       \* where the thread inside iperf_run_* is
  role,      \* test->role
  tstate,    \* test->state
  tdone,     \* test->done
  progress,  \* the last control message exchanged with the peer
  pipe,      \* interrupt pipe: "none" (fd -1), "empty" or "full"
  workers,   \* stream threads: "unstarted", "running", "ended", or "lost" when
             \* they run on streams that were freed
  ctrl,      \* control socket: "none" (fd -1), "open", "closed" or "broken"
  result     \* what iperf_run_* returns: "none" while it runs

engVars == <<epc, role, tstate, tdone, progress, pipe, workers, ctrl, result>>

EnginePCs == {"off", "enter", "listening", "head", "select", "handle", "body",
              "ending", "exit"}

EngineTypeOK ==
  /\ epc \in EnginePCs
  /\ role \in Kinds
  /\ tstate \in TestStates
  /\ tdone \in BOOLEAN
  /\ progress \in TestStates
  /\ pipe \in {"none", "empty", "full"}
  /\ workers \in {"unstarted", "running", "lost", "ended"}
  /\ ctrl \in {"none", "open", "closed", "broken"}
  /\ result \in {"none", "ok", "error"}

EngineInit ==
  /\ epc = "off"
  /\ role = "client"
  /\ tstate = "zero"
  /\ tdone = FALSE
  /\ progress = "zero"
  /\ pipe = "none"
  /\ workers = "unstarted"
  /\ ctrl = "none"
  /\ result = "none"

\* iperf_new_test and iperf_defaults: a zeroed test without descriptors.
NewTest ==
  /\ tstate' = "zero"
  /\ tdone' = FALSE
  /\ progress' = "zero"
  /\ pipe' = "none"
  /\ workers' = "unstarted"
  /\ ctrl' = "none"
  /\ result' = "none"
  /\ UNCHANGED <<epc, role>>

EnterRun(kind) ==
  /\ epc' = "enter"
  /\ role' = kind
  /\ UNCHANGED <<tstate, tdone, progress, pipe, workers, ctrl, result>>

\* iperf_interrupt, called from a thread that is not inside iperf_run_*.
Interrupt ==
  /\ tdone' = TRUE
  /\ tstate' = "IPERF_DONE"
  /\ pipe' = IF pipe = "empty" THEN "full" ELSE pipe
  /\ UNCHANGED <<epc, role, progress, workers, ctrl, result>>

\* The server is told IPERF_DONE, unless test->state is one of the negative states
\* or zero, and the control socket is closed, unless that message cannot be sent.
ClientEnd ==
  LET tells == ctrl # "none" /\ tstate \notin {"zero", "ACCESS_DENIED", "SERVER_ERROR"}
  IN /\ tstate' = IF tells THEN "IPERF_DONE" ELSE tstate
     /\ \/ ctrl' = IF ctrl = "open" THEN "closed" ELSE ctrl
        \/ tells /\ ctrl = "open" /\ ctrl' = "broken"

\* cleanup_and_fail: the stream threads are joined, then iperf_client_end.
ClientFail ==
  /\ ClientEnd
  /\ workers' = IF workers = "running" THEN "ended" ELSE workers
  /\ result' = "error"
  /\ epc' = "exit"
  /\ UNCHANGED <<role, tdone, progress, pipe>>

\* cleanup_server: the client is told of an error, the threads of the streams in
\* the list are joined, the sockets closed.
CleanupServer(res) ==
  /\ workers' = IF workers = "running" THEN "ended" ELSE workers
  /\ tstate' \in {tstate} \cup IF ctrl = "open" THEN {"SERVER_ERROR"} ELSE {}
  /\ ctrl' = IF ctrl = "open" THEN "closed" ELSE ctrl
  /\ result' = res
  /\ epc' = "exit"
  /\ UNCHANGED <<role, tdone, progress, pipe>>
-----------------------------------------------------------------------------
(* Both roles: while (test->state != IPERF_DONE).                          *)

LoopAgain ==
  /\ epc = "head"
  /\ tstate # "IPERF_DONE"
  /\ epc' = "select"
  /\ UNCHANGED <<role, tstate, tdone, progress, pipe, workers, ctrl, result>>

\* The client leaves the loop joining its receiver threads only: the sender
\* threads of an upload are joined where TEST_END is sent, and nowhere here.
LeaveLoop ==
  /\ epc = "head"
  /\ tstate = "IPERF_DONE"
  /\ \/ /\ role = "server"
        /\ CleanupServer("ok")
     \/ /\ role = "client"
        /\ result' = "ok"
        /\ epc' = "exit"
        /\ UNCHANGED <<role, tstate, tdone, progress, pipe, workers, ctrl>>

\* A stream thread sees test->done and returns; it may do so at any later time.
WorkersEnd ==
  /\ workers \in {"running", "lost"}
  /\ tdone
  /\ workers' = "ended"
  /\ UNCHANGED <<epc, role, tstate, tdone, progress, pipe, ctrl, result>>
-----------------------------------------------------------------------------
(* The client.                                                             *)

\* The control message the server sends after the one in progress.
ServerSends(m) ==
  \/ progress = "zero" /\ m \in {"PARAM_EXCHANGE", "ACCESS_DENIED"}
  \/ progress = "PARAM_EXCHANGE" /\ m = "CREATE_STREAMS"
  \/ progress = "CREATE_STREAMS" /\ m = "TEST_START"
  \/ progress = "TEST_START" /\ m = "TEST_RUNNING"
  \/ progress = "TEST_END" /\ m = "EXCHANGE_RESULTS"
  \/ progress = "EXCHANGE_RESULTS" /\ m = "DISPLAY_RESULTS"
  \/ m \in {"SERVER_ERROR", "SERVER_TERMINATE"}

ClientConnect ==
  /\ epc = "enter"
  /\ role = "client"
  /\ \/ /\ ctrl' = "open"
        /\ epc' = "head"
        /\ UNCHANGED <<role, tstate, tdone, progress, pipe, workers, result>>
     \/ ClientFail

\* select() returns with a message, and read() overwrites test->state with it.
ClientRead ==
  /\ epc = "select"
  /\ role = "client"
  /\ \E m \in TestStates :
       /\ ServerSends(m)
       /\ tstate' = m
       /\ progress' = m
  /\ epc' = "handle"
  /\ UNCHANGED <<role, tdone, pipe, workers, ctrl, result>>

\* select() fails, or the server closed the connection (IECTRLCLOSE).
ClientLoses ==
  /\ epc = "select"
  /\ role = "client"
  /\ ClientFail

ClientWakesBeforeTest == \* mutant
  /\ epc = "select"
  /\ role = "client"
  /\ progress = "TEST_START"
  /\ epc' = "body"
  /\ UNCHANGED <<role, tstate, tdone, progress, pipe, workers, ctrl, result>>

\* select() returns at the next timer.  Before TEST_START there is no timer and
\* the timeout is NULL: only the server can wake the client.
ClientWakes ==
  /\ epc = "select"
  /\ role = "client"
  /\ progress \in {"TEST_START", "TEST_RUNNING", "TEST_END", "EXCHANGE_RESULTS"}
  /\ epc' = "body"
  /\ UNCHANGED <<role, tstate, tdone, progress, pipe, workers, ctrl, result>>

\* The switch on test->state: it sees what was read, or what an interrupt has
\* written over it, and an interrupt may also come while the case is executed.
ClientHandle ==
  /\ epc = "handle"
  /\ \E s \in {tstate, progress} :
       \/ /\ s \in {"PARAM_EXCHANGE", "CREATE_STREAMS", "EXCHANGE_RESULTS",
                    "TEST_RUNNING", "IPERF_DONE"}
          /\ epc' = "body"
          /\ UNCHANGED <<role, tstate, tdone, progress, pipe, workers, ctrl, result>>
       \/ /\ s = "TEST_START"
          /\ tdone' = FALSE
          /\ epc' = "body"
          /\ UNCHANGED <<role, tstate, progress, pipe, workers, ctrl, result>>
       \/ /\ s = "DISPLAY_RESULTS"
          /\ ClientEnd
          /\ epc' = "body"
          /\ UNCHANGED <<role, tdone, progress, pipe, workers, result>>
       \/ /\ s \in Refusals \cup {"PARAM_EXCHANGE", "CREATE_STREAMS", "TEST_START",
                                "EXCHANGE_RESULTS"}
          /\ ClientFail

\* The rest of the loop body: in TEST_RUNNING the threads are started once, the
\* timers run (test_timer_proc sets done), and done leads to TEST_END.
ClientBody ==
  /\ epc = "body"
  /\ \/ /\ tstate # "TEST_RUNNING"
        /\ epc' = "head"
        /\ UNCHANGED <<tdone, workers>>
     \/ /\ tstate = "TEST_RUNNING"
        /\ workers' = IF workers = "unstarted" THEN "running" ELSE workers
        /\ tdone' \in {tdone, TRUE}
        /\ epc' = IF tdone' THEN "ending" ELSE "head"
  /\ UNCHANGED <<role, tstate, progress, pipe, ctrl, result>>

\* The sender threads are joined and set_send_state overwrites test->state.
ClientSendsTestEnd ==
  /\ epc = "ending"
  /\ \/ /\ workers' = "ended"
        /\ tdone' = TRUE
        /\ tstate' = "TEST_END"
        /\ progress' = "TEST_END"
        /\ epc' = "head"
        /\ UNCHANGED <<role, pipe, ctrl, result>>
     \/ ClientFail
-----------------------------------------------------------------------------
(* The server.                                                             *)

\* The interrupt pipe exists only once the listening socket does.
ServerListen ==
  /\ epc = "enter"
  /\ role = "server"
  /\ \/ /\ pipe' = "empty"
        /\ epc' = "listening"
        /\ UNCHANGED <<role, tstate, tdone, progress, workers, ctrl, result>>
     \/ CleanupServer("error")

ServerEntersLoop ==
  /\ epc = "listening"
  /\ tstate' = "IPERF_START"
  /\ epc' = "head"
  /\ UNCHANGED <<role, tdone, progress, pipe, workers, ctrl, result>>

\* Where the server waits, or goes on after select() has returned: an interrupt may
\* come in between, so that what was ready before it is still served.
AtServerSelect == epc = "select" /\ role = "server"

\* server_timer_proc has closed the control socket, whose number is still in the
\* set given to select().
Expired == ctrl = "none" /\ progress # "zero"

ServerSelectFails ==
  /\ AtServerSelect
  /\ Expired
  /\ CleanupServer("error")

\* select() returns for a timer or for a second client, who is refused.
ServerTurns ==
  /\ AtServerSelect
  /\ pipe # "full"
  /\ ~Expired
  /\ epc' = "head"
  /\ UNCHANGED <<role, tstate, tdone, progress, pipe, workers, ctrl, result>>

\* server_timer_proc: the streams are freed under their threads.
ServerExpires ==
  /\ AtServerSelect
  /\ ctrl = "open"
  /\ progress \in {"TEST_RUNNING", "DISPLAY_RESULTS"}
  /\ ~tdone
  /\ tdone' = TRUE
  /\ tstate' = "SERVER_ERROR"
  /\ workers' = IF workers = "running" THEN "lost" ELSE workers
  /\ ctrl' = "none"
  /\ epc' = "head"
  /\ UNCHANGED <<role, progress, pipe, result>>

ServerDrainsPipe == \* mutant
  /\ AtServerSelect
  /\ pipe = "full"
  /\ ~Expired
  /\ pipe' = "empty"
  /\ epc' = "head"
  /\ UNCHANGED <<role, tstate, tdone, progress, workers, ctrl, result>>

\* The pipe is looked at before everything else select() reports.
ServerReadsPipe ==
  /\ AtServerSelect
  /\ pipe = "full"
  /\ ~Expired
  /\ pipe' = "empty"
  /\ tstate' = "IPERF_DONE"
  /\ epc' = "head"
  /\ UNCHANGED <<role, tdone, progress, workers, ctrl, result>>

\* A client connects: cookie, parameters, then CREATE_STREAMS is sent.
ServerAccept ==
  /\ AtServerSelect
  /\ progress = "zero"
  /\ \/ /\ ctrl' = "open"
        /\ tstate' = "CREATE_STREAMS"
        /\ progress' = "CREATE_STREAMS"
        /\ epc' = "head"
        /\ UNCHANGED <<role, tdone, pipe, workers, result>>
     \/ CleanupServer("error")

\* The last stream is accepted: TEST_START, timers (done = 0), TEST_RUNNING.
ServerStartsTest ==
  /\ AtServerSelect
  /\ progress = "CREATE_STREAMS"
  /\ tdone' = FALSE
  /\ tstate' = "TEST_RUNNING"
  /\ progress' = "TEST_RUNNING"
  /\ workers' = "running"
  /\ epc' = "head"
  /\ UNCHANGED <<role, pipe, ctrl, result>>

\* iperf_handle_message_server: TEST_END, then IPERF_DONE; a closed connection
\* and CLIENT_TERMINATE end the loop as IPERF_DONE does.
ServerHandle ==
  /\ AtServerSelect
  /\ ctrl = "open"
  /\ \/ /\ progress = "TEST_RUNNING"
        /\ tdone' = TRUE
        /\ tstate' = "DISPLAY_RESULTS"
        /\ progress' = "DISPLAY_RESULTS"
     \/ /\ tstate' = "IPERF_DONE"
        /\ UNCHANGED <<tdone, progress>>
  /\ epc' = "head"
  /\ UNCHANGED <<role, pipe, workers, ctrl, result>>

\* A protocol error or the receive timeout.
ServerFails ==
  /\ AtServerSelect
  /\ ctrl = "open"
  /\ CleanupServer("error")
-----------------------------------------------------------------------------
ClientStep ==
  \/ ClientConnect \/ ClientRead \/ ClientLoses \/ ClientWakes \/ ClientHandle
  \/ ClientBody \/ ClientSendsTestEnd

ServerStep ==
  \/ ServerListen \/ ServerEntersLoop \/ ServerReadsPipe \/ ServerAccept
  \/ ServerStartsTest \/ ServerHandle \/ ServerFails \/ ServerExpires
  \/ ServerSelectFails \/ ServerTurns

\* One step of the thread inside iperf_run_*.
EngineStep == LoopAgain \/ LeaveLoop \/ ClientStep \/ ServerStep
-----------------------------------------------------------------------------
(* What the sessions assume fairness of.  Waiting for the first client of a *)
(* server is the only wait nothing bounds, so ServerAccept is not among it; *)
(* an accepted client is bounded by the receive timeout and the test timer. *)

\* The steps that need nothing of the peer.
EngineOwnStep ==
  \/ LoopAgain \/ LeaveLoop \/ ClientConnect \/ ClientWakes \/ ClientHandle
  \/ ClientBody \/ ClientSendsTestEnd \/ ServerListen \/ ServerEntersLoop
  \/ ServerReadsPipe \/ ServerSelectFails

\* The server a client talks to answers or closes the connection when it owes an
\* answer, which it does not while the test runs.
PeerAnswers == progress # "TEST_RUNNING" /\ (ClientRead \/ ClientLoses)

\* The ten second timer expires in a running client test.
TestTimerFires == ClientBody /\ tdone'

\* A server that has a client is answered, or runs into a timeout.
ServerServes == ServerStartsTest \/ ServerHandle \/ ServerFails \/ ServerExpires
============================================================================
