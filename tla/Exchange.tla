------------------------------- MODULE Exchange -------------------------------
(***************************************************************************)
(* A client and a server that a command line or an app has set up, and     *)
(* the whole conversation on their control connection, byte by byte:       *)
(* cookie, parameters, the states of a test, results, and the error a      *)
(* server reports.  The data streams appear as the fact that the client    *)
(* has connected them (see IperfControl and UdpStream).                    *)
(***************************************************************************)
EXTENDS TestOptions, ControlChannel, FiniteSets

CONSTANTS
  Setups,       \* pairs of a server's and a client's setup: the options of a command line, or
                \* an app's number of streams
  FileBytes,    \* the size of the file of -F
  Mss           \* the MSS the control connection may have, 0 for unknown

\* A command line says which side it is, with options getopt_long knows; numbers below zero
\* where the code stores unsigned ones are left out (the conversion is undefined).
ASSUME SetupsAssumption ==
  \A l \in Setups : DOMAIN l = Sides /\ \A s \in Sides :
    /\ l[s].app \in BOOLEAN /\ IsFiniteSet(l[s].options) /\ l[s].streams \in Int
    /\ \A o \in l[s].options :
         o.opt \in Opts /\ o.n \in Int /\ o.second \in Int /\ (o.opt \in Unsigned => o.n >= 0)
    /\ l[s].app \/ \E o \in l[s].options : o.opt \in DOMAIN Roles /\ Roles[o.opt] = s
ASSUME WorldAssumption == FileBytes \in Nat /\ Mss \subseteq Nat

VARIABLES
  line,    \* the setups
  left,    \* per side: the options that getopt_long has not returned yet
  test,    \* per side: the test
  pc,      \* per side: where it is
  state,   \* per side: test->state
  streams, \* the client has connected its streams
  errno,   \* per side: i_errno
  told     \* the server's error code the client has read
vars == <<line, left, test, pc, state, streams, errno, told, channelVars>>

Params == Json("params")
Results(s) == Json(IF s = "client" THEN "clientResults" ELSE "serverResults")

Init ==
  /\ line \in Setups
  /\ left = [s \in Sides |-> line[s].options]
  /\ test = [s \in Sides |-> Defaults]
  /\ pc = [s \in Sides |-> "options"]
  /\ state = [s \in Sides |-> "none"]
  /\ streams = FALSE
  /\ errno = [s \in Sides |-> "none"]
  /\ told = "none"
  /\ ChannelInit

Goes(s, to) == pc' = [pc EXCEPT ![s] = to]
Enters(s, st) == state' = [state EXCEPT ![s] = st]
Fails(s, code) == Goes(s, "failed") /\ errno' = [errno EXCEPT ![s] = code]

lineVars == <<line, left>>
-----------------------------------------------------------------------------
(* The setup.  An app sets its test up by itself; of a command line,           *)
(* iperf_parse_arguments takes one option after another.                       *)

SetsUp(s) == pc[s] = "options" /\ (s = "client" => pc["server"] # "options")

Prepares(s) ==
  /\ SetsUp(s) /\ line[s].app
  /\ test' = [test EXCEPT ![s] = Prepared(s, line[s].streams)]
  /\ Goes(s, IF test'[s].ok THEN "ready" ELSE "off")
  /\ UNCHANGED <<lineVars, state, streams, errno, told, channelVars>>

TakesOption(s) ==
  /\ SetsUp(s)
  /\ \E o \in left[s] :
       /\ left' = [left EXCEPT ![s] = @ \ {o}]
       /\ test' = [test EXCEPT ![s] = IF @.ok THEN Takes(@, o) ELSE @]
  /\ UNCHANGED <<line, pc, state, streams, errno, told, channelVars>>

EndsParsing(s) ==
  /\ SetsUp(s) /\ ~line[s].app /\ left[s] = {}
  /\ test' = [test EXCEPT ![s] = Checked(@, FileBytes)]
  /\ Goes(s, IF test'[s].ok THEN "ready" ELSE "off")
  /\ UNCHANGED <<lineVars, state, streams, errno, told, channelVars>>
-----------------------------------------------------------------------------
(* The client.                                                             *)

\* iperf_connect.
Connects ==
  /\ pc = [s \in Sides |-> "ready"]
  /\ pc' = [client |-> "select", server |-> "cookie"]
  /\ \E mss \in Mss : test' = [test EXCEPT !["client"] = WithMss(@, mss)]
  /\ Writes("client", <<"cookie">>, Integer("cookie"))
  /\ UNCHANGED <<lineVars, state, streams, errno, told, shut, closed, readVars, heard>>

\* iperf_handle_message_client and iperf_handle_message_server read one byte, select has
\* seen it.  The end of the stream is an error, and so is a reset, which may come before what
\* there is to read.
ReadsState(s) ==
  /\ pc[s] = "select"
  /\ \/ /\ wire[s] # <<>>
        /\ wire' = [wire EXCEPT ![s] = Tail(@)]
        /\ Enters(s, Head(wire[s])[1])
        /\ Hears(s, <<Head(wire[s])[1]>>)
        /\ Goes(s, "handle")
        /\ UNCHANGED errno
     \/ /\ \/ AtEnd(s) /\ Fails(s, "IECTRLCLOSE")
           \/ s \in reset /\ Fails(s, "IERECVMESSAGE")
        /\ UNCHANGED <<wire, state, heard>>
  /\ UNCHANGED <<lineVars, test, streams, told, shut, closed, reset, readVars, sent>>

\* rcv-timeout: a side that receives gets no data.  The client looks only while the test runs.
GivesUp(s) ==
  /\ pc[s] = "select" /\ test[s].mode # "sender"
  /\ s = "client" => state[s] = "TEST_RUNNING"
  /\ Fails(s, "IENOMSG")
  /\ UNCHANGED <<lineVars, test, state, streams, told, channelVars>>

Handles(s, st) == pc[s] = "handle" /\ state[s] = st

\* Sending, or failing to; state is what iperf_set_send_state leaves.
Says(s, names, bytes, to, st) ==
  IF CanWrite(s)
    THEN Writes(s, names, bytes) /\ Goes(s, to) /\ Enters(s, st) /\ UNCHANGED errno
    ELSE Fails(s, "IESENDMESSAGE") /\ Enters(s, st) /\ UNCHANGED <<sent, wire, reset>>

\* Saying it, and failing then.
SaysAndFails(s, names, bytes, st, code) == Writes(s, names, bytes) /\ Enters(s, st) /\ Fails(s, code)

unread == <<lineVars, test, streams, told, shut, closed, readVars, heard>>

SendsParameters ==
  /\ Handles("client", "PARAM_EXCHANGE")
  /\ Says("client", <<"params">>, Params, "select", "PARAM_EXCHANGE")
  /\ UNCHANGED unread

\* iperf_create_streams, which may fail.
CreatesStreams ==
  /\ Handles("client", "CREATE_STREAMS")
  /\ \/ streams' = TRUE /\ Goes("client", "select") /\ UNCHANGED errno
     \/ Fails("client", "IESTREAMCONNECT") /\ UNCHANGED streams
  /\ UNCHANGED <<lineVars, test, state, told, channelVars>>

\* TEST_START: iperf_init_test and the timers; TEST_RUNNING: the threads.
GoesOn ==
  /\ Handles("client", "TEST_START") \/ Handles("client", "TEST_RUNNING")
  /\ \/ Goes("client", "select") /\ UNCHANGED errno
     \/ Fails("client", IF state["client"] = "TEST_START" THEN "IEINITTEST" ELSE "IEPTHREADCREATE")
  /\ UNCHANGED <<lineVars, test, state, streams, told, channelVars>>

\* select of iperf_run_client fails.
SelectFails ==
  /\ pc["client"] = "select" /\ Fails("client", "IESELECT")
  /\ UNCHANGED <<lineVars, test, state, streams, told, channelVars>>

\* The client's end of the test.
EndsTest ==
  /\ pc["client"] = "select" /\ state["client"] = "TEST_RUNNING"
  /\ Says("client", <<"TEST_END">>, Control("TEST_END"), "select", "TEST_END")
  /\ UNCHANGED unread

\* iperf_exchange_results: the client sends first and then reads.
SendsResults ==
  /\ Handles("client", "EXCHANGE_RESULTS")
  /\ Says("client", <<"clientResults">>, Results("client"), "results", "EXCHANGE_RESULTS")
  /\ UNCHANGED unread

ReadsServerResults ==
  /\ pc["client"] = "results" /\ Returned("client", Len(Results("server")))
  /\ IF Whole("client", Results("server"))
       THEN Goes("client", "select") /\ Hears("client", <<"serverResults">>) /\ UNCHANGED errno
       ELSE Fails("client", "IERECVRESULTS") /\ UNCHANGED heard
  /\ ReadIsOver("client")
  /\ UNCHANGED <<lineVars, test, state, streams, told, wire, shut, closed, reset, sent>>

Forgets == "select" \* mutant

\* DISPLAY_RESULTS: the summary, and iperf_client_end.
AfterDisplay == "ending"

ShowsResults ==
  /\ Handles("client", "DISPLAY_RESULTS")
  /\ Goes("client", AfterDisplay)
  /\ UNCHANGED <<lineVars, test, state, streams, errno, told, channelVars>>

\* SERVER_ERROR: two integers follow.  Only a hard error of Nread is noticed: whatever
\* else is there is taken for the code.
ReadsServerError ==
  /\ Handles("client", "SERVER_ERROR")
  /\ Goes("client", "code")
  /\ UNCHANGED <<lineVars, test, state, streams, errno, told, channelVars>>

ReadsCode ==
  /\ pc["client"] = "code" /\ Returned("client", IntSize)
  /\ IF ended["client"] = "error"
       THEN Fails("client", "IECTRLREAD") /\ UNCHANGED <<told, heard>>
       ELSE /\ Goes("client", "errno") /\ UNCHANGED errno
            /\ IF ended["client"] = "no"
                 THEN told' = got["client"][1][1] /\ Hears("client", <<got["client"][1][1]>>)
                 ELSE told' = "garbage" /\ UNCHANGED heard
  /\ ReadIsOver("client")
  /\ UNCHANGED <<lineVars, test, state, streams, wire, shut, closed, reset, sent>>

ReadsErrno ==
  /\ pc["client"] = "errno" /\ Returned("client", IntSize)
  /\ Fails("client", IF ended["client"] = "error" THEN "IECTRLREAD" ELSE told)
  /\ ReadIsOver("client")
  /\ UNCHANGED <<lineVars, test, state, streams, told, wire, shut, closed, reset, sent, heard>>

\* iperf_client_end, of a test that is over or has failed: IPERF_DONE unless the server has
\* reported an error, and then the control socket is closed.  When IPERF_DONE cannot be sent
\* it returns before that, and nobody closes the socket any more.
ClientEnds ==
  /\ pc["client"] \in {"ending", "failed"}
  /\ IF state["client"] \in {"SERVER_ERROR", "none"}
       THEN Shuts("client") /\ Goes("client", "drain") /\ UNCHANGED <<state, errno, sent, wire, reset>>
       ELSE /\ Enters("client", "IPERF_DONE")
            /\ IF CanWrite("client")
                 THEN /\ Writes("client", <<"IPERF_DONE">>, Control("IPERF_DONE"))
                      /\ Shuts("client") /\ Goes("client", "drain") /\ UNCHANGED errno
                 ELSE /\ errno' = [errno EXCEPT !["client"] = "IESENDMESSAGE"]
                      /\ Goes("client", "off") /\ UNCHANGED <<sent, wire, reset, shut>>
  /\ UNCHANGED <<lineVars, test, streams, told, closed, readVars, heard>>
-----------------------------------------------------------------------------
(* The server.                                                             *)

\* iperf_accept.
ReadsCookie ==
  /\ pc["server"] = "cookie" /\ Returned("server", IntSize)
  /\ IF Whole("server", Integer("cookie"))
       THEN Says("server", <<"PARAM_EXCHANGE">>, Control("PARAM_EXCHANGE"), "params", "PARAM_EXCHANGE")
            /\ Hears("server", <<"cookie">>)
       ELSE Fails("server", "IERECVCOOKIE") /\ UNCHANGED <<state, heard, sent, wire, reset>>
  /\ ReadIsOver("server")
  /\ UNCHANGED <<lineVars, test, streams, told, shut, closed>>

\* iperf_exchange_parameters: what is stored may be refused; the data listener may fail.
ReadsParameters ==
  /\ pc["server"] = "params" /\ Returned("server", Len(Params))
  /\ IF Whole("server", Params)
       THEN LET t == Adopted(test["server"], Parameters(test["client"]))
            IN /\ test' = [test EXCEPT !["server"] = t]
               /\ Hears("server", <<"params">>)
               /\ IF Refusal(t) # "none"
                    THEN Fails("server", Refusal(t)) /\ UNCHANGED <<state, sent, wire, reset>>
                    ELSE \/ Says("server", <<"CREATE_STREAMS">>, Control("CREATE_STREAMS"),
                                 "select", "CREATE_STREAMS")
                         \/ Fails("server", "IESTREAMLISTEN") /\ UNCHANGED <<state, sent, wire, reset>>
       ELSE Fails("server", "IERECVPARAMS") /\ UNCHANGED <<test, state, heard, sent, wire, reset>>
  /\ ReadIsOver("server")
  /\ UNCHANGED <<lineVars, streams, told, shut, closed>>

\* cleanup_server where i_errno is set only afterwards: the client is not told.
EndsUntold(code) ==
  /\ errno' = [errno EXCEPT !["server"] = code]
  /\ Shuts("server") /\ Goes("server", "drain")
  /\ UNCHANGED <<state, sent, wire, reset>>

\* select of iperf_run_server fails.
ServerSelectFails ==
  /\ pc["server"] = "select" /\ EndsUntold("IESELECT")
  /\ UNCHANGED <<lineVars, test, streams, told, closed, readVars, heard>>

\* As many streams are there as there should be, which fewer than none never are.
AllAccepted == test["server"].streams = 0 \/ (test["server"].streams > 0 /\ streams)

\* The listener is opened anew for what a test has asked of the data sockets.
Reopens(t) == t.protocol = "tcp" /\ (t.nodelay \/ t.mss # 0 \/ t.window # 0)

\* The streams are accepted and the test is started, unless a stream, the listener, the
\* test, whose start has been said by then, or a thread fails.
StartsTest ==
  LET start == Control("TEST_START")
      running == start \o Control("TEST_RUNNING")
  IN
  /\ pc["server"] = "select" /\ state["server"] = "CREATE_STREAMS" /\ AllAccepted
  /\ \/ Fails("server", "IESTREAMCONNECT") /\ UNCHANGED <<state, sent, wire, reset, shut>>
     \/ Reopens(test["server"]) /\ EndsUntold("IELISTEN")
     \/ SaysAndFails("server", <<"TEST_START">>, start, "TEST_START", "IEINITTEST") /\ UNCHANGED shut
     \/ SaysAndFails("server", <<"TEST_START", "TEST_RUNNING">>, running, "TEST_RUNNING", "IEPTHREADCREATE")
          /\ UNCHANGED shut
     \/ Says("server", <<"TEST_START", "TEST_RUNNING">>, running, "select", "TEST_RUNNING") /\ UNCHANGED shut
  /\ UNCHANGED <<lineVars, test, streams, told, closed, readVars, heard>>

Error(code) == <<"SERVER_ERROR", code, "errno">>
ErrorBytes(code) == Control("SERVER_ERROR") \o Integer(code) \o Integer("errno")

\* An error that is sent where it comes up, before cleanup_server.
Reports(code) ==
  /\ pc["server"] = "select" /\ state["server"] = "TEST_RUNNING"
  /\ Enters("server", "SERVER_ERROR")
  /\ IF CanWrite("server") THEN Writes("server", Error(code), ErrorBytes(code))
                           ELSE UNCHANGED <<sent, wire, reset>>
  /\ UNCHANGED <<lineVars, test, streams, told, shut, closed, readVars, heard>>

\* The bitrate limit is exceeded: cleanup_server sends the error again.
RefusesRate ==
  /\ test["server"].limit # 0 /\ Reports("IETOTALRATE")
  /\ Fails("server", IF CanWrite("server") THEN "IETOTALRATE" ELSE "IESENDMESSAGE")

\* server_timer_proc: a test of a given time takes too long.
Expires ==
  /\ test["server"].duration # 0 /\ Reports("IESERVERTESTDURATIONEXPIRED")
  /\ Goes("server", "expired") /\ UNCHANGED errno

\* It closes the connection at once, whatever the client has written; select then fails on
\* that, and cleanup_server has nothing left to send an error on.
ClosesExpired ==
  /\ pc["server"] = "expired"
  /\ ClosesSocket("server") /\ late' = late
  /\ Goes("server", "off") /\ errno' = [errno EXCEPT !["server"] = "IESELECT"]
  /\ UNCHANGED <<lineVars, test, state, streams, told>>

AsksForResults ==
  /\ Handles("server", "TEST_END")
  /\ Says("server", <<"EXCHANGE_RESULTS">>, Control("EXCHANGE_RESULTS"), "results", "EXCHANGE_RESULTS")
  /\ UNCHANGED unread

\* get_results, send_results, and DISPLAY_RESULTS.
ReadsClientResults ==
  /\ pc["server"] = "results" /\ Returned("server", Len(Results("client")))
  /\ IF Whole("server", Results("client"))
       THEN /\ Hears("server", <<"clientResults">>)
            /\ Says("server", <<"serverResults", "DISPLAY_RESULTS">>,
                    Results("server") \o Control("DISPLAY_RESULTS"), "select", "DISPLAY_RESULTS")
       ELSE Fails("server", "IERECVRESULTS") /\ UNCHANGED <<state, heard, sent, wire, reset>>
  /\ ReadIsOver("server")
  /\ UNCHANGED <<lineVars, test, streams, told, shut, closed>>

Finishes ==
  /\ Handles("server", "IPERF_DONE")
  /\ Goes("server", "failed")
  /\ UNCHANGED <<lineVars, test, state, streams, errno, told, channelVars>>

\* cleanup_server: an error is sent, if there is one, before the socket is drained and closed.
CleansUp ==
  /\ pc["server"] = "failed"
  /\ IF errno["server"] = "none"
       THEN UNCHANGED <<state, errno, sent, wire, reset>>
       ELSE /\ Enters("server", "SERVER_ERROR")
            /\ IF CanWrite("server")
                 THEN Writes("server", Error(errno["server"]), ErrorBytes(errno["server"])) /\ UNCHANGED errno
                 ELSE /\ errno' = [errno EXCEPT !["server"] = "IESENDMESSAGE"]
                      /\ UNCHANGED <<sent, wire, reset>>
  /\ Shuts("server") /\ Goes("server", "drain")
  /\ UNCHANGED <<lineVars, test, streams, told, closed, readVars, heard>>
-----------------------------------------------------------------------------
\* The Nread of either side that is under way.
Wanted(s) ==
  CASE pc[s] = "cookie"         -> IntSize
    [] pc[s] = "params"         -> Len(Params)
    [] pc[s] = "results"        -> Len(Results(Peer(s)))
    [] pc[s] \in {"code", "errno"} -> IntSize
    [] OTHER                    -> 0

Nread(s) == Receives(s, Wanted(s)) \/ ReturnsEarly(s, Wanted(s))

\* iperf_sync_close_socket.
SyncClose(s) ==
  /\ pc[s] = "drain"
  /\ \/ Drains(s) /\ UNCHANGED pc
     \/ Closes(s) /\ Goes(s, "off")
  /\ UNCHANGED <<lineVars, test, state, streams, errno, told>>

\* The path between the two breaks.
Breaks ==
  /\ pc["client"] \notin {"options", "ready"} /\ closed = {} /\ reset # Sides
  /\ reset' = Sides /\ late' = TRUE
  /\ UNCHANGED <<lineVars, test, pc, state, streams, errno, told, wire, shut, closed, got, ended, sent, heard>>

SideStep(s) ==
  \/ Prepares(s) \/ TakesOption(s) \/ EndsParsing(s) \/ ReadsState(s) \/ GivesUp(s)
  \/ SyncClose(s)
  \/ Nread(s) /\ UNCHANGED <<lineVars, test, pc, state, streams, errno, told>>

ClientStep ==
  \/ Connects \/ SendsParameters \/ CreatesStreams \/ GoesOn \/ EndsTest \/ SendsResults
  \/ ReadsServerResults \/ ShowsResults \/ ReadsServerError \/ ReadsCode \/ ReadsErrno
  \/ ClientEnds \/ SideStep("client")

ServerStep ==
  \/ ReadsCookie \/ ReadsParameters \/ StartsTest \/ Expires \/ ClosesExpired \/ AsksForResults
  \/ ReadsClientResults \/ Finishes \/ CleansUp \/ SideStep("server")

\* What may happen and need not.
Mishap == SelectFails \/ ServerSelectFails \/ RefusesRate \/ Breaks

Next == ClientStep \/ ServerStep \/ Mishap

Spec == Init /\ [][Next]_vars

\* Both sides run on: time passes, and a test is ended (one without an end by a stop).  Nothing
\* is assumed of the network but that a broken path is noticed.
FairSpec == Spec /\ WF_vars(ClientStep) /\ WF_vars(ServerStep)
-----------------------------------------------------------------------------
TypeOK ==
  /\ line \in Setups /\ \A s \in Sides : left[s] \subseteq line[s].options
  /\ \A s \in Sides :
       /\ test[s].streams \in Int /\ test[s].streams <= MaxStreams /\ test[s].omit \in 0..MaxOmit
       /\ test[s].ok \in BOOLEAN
       /\ pc[s] \in {"options", "ready", "off", "select", "handle", "cookie", "params", "results",
                     "code", "errno", "ending", "failed", "drain", "expired"}
       /\ ended[s] \in {"no", "short", "error"}
       /\ Len(got[s]) <= Wanted(s)
  /\ streams \in BOOLEAN /\ late \in BOOLEAN
  /\ shut \subseteq Sides /\ closed \subseteq shut /\ reset \subseteq Sides

\* The test a command line asks for does not depend on the order of its options, although
\* -s and -c, -R and --bidir look at each other while they are read and the defaults
\* depend on all of them.  (Of -S and --dscp, which set the same field, and of an option
\* that is there twice the later one wins.)
OptionsCommute ==
  \A s \in Sides :
    (/\ pc[s] # "options" /\ ~line[s].app
     /\ \A o, p \in line[s].options : o.opt = p.opt => o = p
     /\ ~{"-S", "--dscp"} \subseteq {o.opt : o \in line[s].options}) =>
      LET all == FoldSet(LAMBDA o, t : IF t.ok THEN Takes(t, o) ELSE t, Defaults, line[s].options)
          one == Checked(all, FileBytes)
      IN test[s].ok = one.ok /\ (pc[s] = "ready" => test[s] = one)

Agreed == {"protocol", "omit", "duration", "bytes", "blocks", "streams", "mss", "window", "blksize",
           "rate", "burst", "tos", "nodelay", "reverse", "bidirectional", "serverOutput",
           "counters64", "repeating", "zerocopy", "skipRxCopy"}

\* Segmentation offload is a matter of UDP tests.
AgreedBy(t) == Agreed \cup (IF t.protocol = "udp" THEN {"gso", "gsoSize"} ELSE {})

Running == state["client"] \in {"CREATE_STREAMS", "TEST_START", "TEST_RUNNING", "TEST_END"}

\* A test runs within what the server allows and ends by at most one of time, bytes and
\* blocks, which is what the client's line says; only -t 0 has no end.  (A total rate no
\* size can hold is checked as what is left of it.)
IsBounded(t) ==
  LET ends == {f \in {"duration", "bytes", "blocks"} : t[f] # 0}
      total == t.rate * t.streams * (IF t.bidirectional THEN 2 ELSE 1)
  IN /\ Cardinality(ends) <= 1
     /\ ends = {} => \E o \in line["client"].options : o.opt = "-t"
     /\ t.maxDuration # 0 => ends = {"duration"} /\ t.duration + t.omit <= t.maxDuration
     /\ t.limit # 0 /\ total \in 0..SizeValues - 1 => total <= t.limit

\* When a client creates its streams, the server has the same test in mind: every
\* setting the two need is the same, where one sends the other receives, and the test is
\* within bounds.  (And every variable has its type.)
SameTest ==
  /\ TypeOK
  /\ Running =>
       /\ \A f \in AgreedBy(test["client"]) : test["client"][f] = test["server"][f]
       /\ <<test["client"].mode, test["server"].mode>>
            \in {<<"sender", "receiver">>, <<"receiver", "sender">>, <<"both", "both">>}
       /\ IsBounded(test["server"])

ClientExpects == {"PARAM_EXCHANGE", "CREATE_STREAMS", "TEST_START", "TEST_RUNNING",
                  "EXCHANGE_RESULTS", "DISPLAY_RESULTS", "SERVER_ERROR"}
ServerExpects == {"TEST_END", "IPERF_DONE"}

Expects(s) == IF s = "client" THEN ClientExpects ELSE ServerExpects

\* What one side reads as a message is what the other has written, whole, in its order,
\* none left out and nothing that was meant as something else; so that no state comes to a
\* side that does not know it (IEMESSAGE, which is not modelled for that reason).
HeardIsSent ==
  \A s \in Sides :
    /\ IsPrefix(heard[s], sent[Peer(s)])
    /\ pc[s] = "handle" => state[s] \in Expects(s)

\* What the server has reported, and why a client fails of its own accord.
Reported == {sent["server"][k + 1] : k \in {j \in 1..Len(sent["server"]) - 1 : sent["server"][j] = "SERVER_ERROR"}}
OwnFailures == {"IESTREAMCONNECT", "IEINITTEST", "IEPTHREADCREATE", "IENOMSG", "IESELECT"}

\* A client whose server reports an error, because it refuses the test or gives it up, comes
\* to know why: unless a message takes too long, the path breaks or the client itself fails
\* first, it fails with the code the server has sent.  Only of a test that has expired it may
\* get a reset instead, as that server does not wait until the client has read the error.
RefusalIsTold ==
  (/\ pc = [s \in Sides |-> "off"] /\ ~late
   /\ errno["client"] \notin OwnFailures \cup {"none"}) =>
    \A code \in Reported :
      \/ errno["client"] = code
      \/ code = "IESERVERTESTDURATIONEXPIRED" /\ "client" \in reset

\* The server waits, without a timeout, for streams that a client of a negative number of
\* them waits to be told to start.
Stalls == test["client"].streams < 0 /\ test["client"].reverse

\* The conversation comes to an end on both sides: no side waits for one that has gone.  What
\* stays open is the socket of a client that could not say IPERF_DONE any more.
ExchangeEnds ==
  [](pc = [s \in Sides |-> "ready"] /\ ~Stalls =>
       <>(/\ pc = [s \in Sides |-> "off"]
          /\ Sides \ closed = {} \/ (Sides \ closed = {"client"} /\ errno["client"] = "IESENDMESSAGE")))
=============================================================================
