----------------------------- MODULE Descriptors -----------------------------
(***************************************************************************)
(* The descriptors and address lists of one test, over all the calls that  *)
(* may fail: the functions that make sockets (net.c, iperf_tcp.c,          *)
(* iperf_udp.c, iperf_new_stream) and the ways a client's or a server's    *)
(* test ends.  A function is the sequence of its calls, each with what is  *)
(* closed or freed when it fails; a C variable keeps a number after the    *)
(* descriptor is closed; and another thread of the process opens and       *)
(* closes descriptors in between, given the lowest free number as we are.  *)
(***************************************************************************)
EXTENDS Integers, Sequences, FiniteSets

CONSTANTS
  Tests,       \* the tests: role, protocol and the options that change what is called
  NumStreams,  \* the streams of a test
  MaxFd,       \* bound: the highest descriptor
  MaxOthers    \* bound: descriptors the rest of the process holds

Roles == {"client", "server"}
ASSUME TestsAssumption == Tests \subseteq
  [role : Roles, protocol : {"tcp", "udp"}, local : BOOLEAN, device : BOOLEAN, cport : BOOLEAN,
   tuned : BOOLEAN, file : BOOLEAN, endsAgain : BOOLEAN]
ASSUME BoundsAssumption == NumStreams \in Nat \ {0} /\ MaxFd \in Nat /\ MaxOthers \in Nat

Numbers == 0..MaxFd
None == -1

\* The C variables that hold descriptors: those of the test, those of a stream, and the s
\* of the function that runs.
Ctrl == <<"ctrl_sck", 0>>
Listener == <<"listener", 0>>
Prot == <<"prot_listener", 0>>
Pipe == <<"interrupt_fds", 0>>
S == <<"s", 0>>
Socket(k) == <<"socket", k>>
Buffer(k) == <<"buffer_fd", k>>
File(k) == <<"diskfile_fd", k>>

Fds == {Ctrl, Listener, Prot, Pipe, S} \cup UNION {{Socket(k), Buffer(k), File(k)} : k \in 1..NumStreams}

\* The address lists of the function that runs.
LocalRes == <<"local_res", 0>>
Res == <<"res", 0>>
Lists == {LocalRes, Res}

VARIABLES
  opts,     \* the test
  owner,    \* per number: whose descriptor it is, if it is open
  var,      \* the C variables
  lists,    \* the address lists: none, held, freed
  streams,  \* how many streams are in test->streams
  at,       \* what the client or the server is doing, and
  code,     \* the calls that are left of it
  fn,       \* the function that runs, if it is one a caller relies on, and
  before,   \* the test's descriptors when it was called
  failures, \* history: the functions that have failed
  strays    \* history: what was not the test's any more and was closed, freed or used, and when

vars == <<opts, owner, var, lists, streams, at, code, fn, before, failures, strays>>

Owned == {n \in Numbers : owner[n] = "test"}
-----------------------------------------------------------------------------
(* Calls.  "undo" is what is released when the call fails, "into" the      *)
(* variable that is then -1.                                               *)

Call(does, into, what, undo) == [does |-> does, into |-> into, what |-> what, undo |-> undo]
Opens(v, undo) == Call("open", v, v, undo)            \* socket, accept, mkstemp, open, pipe
Resolves(list, v, undo) == Call("list", v, list, undo) \* getaddrinfo
Tries(v, undo) == Call("try", v, v, undo)             \* any other call that may fail
Drops(name) == Call("drop", S, name, {})              \* close or freeaddrinfo
Clears(v) == Call("clear", v, v, {})                  \* close, and v = -1
Unsupported(v, undo) == Call("never", v, v, undo)     \* a call this build does not have
Copies(v, from) == Call("copy", v, from, {})          \* v = from
Forgets(v) == Call("forget", v, v, {})                \* v = -1
Does(what) == Call(what, S, S, {})
If(b, call) == IF b THEN <<call>> ELSE <<>>

\* A function whose callers rely on what it leaves open.
Function(name, calls) == <<Call("enter", S, <<name, 0>>, {})>> \o calls \o <<Does("leave")>>
-----------------------------------------------------------------------------
(* net.c                                                                   *)

CreateSocket(v) ==
  If(opts.local, Resolves(LocalRes, v, {}))
    \o <<Resolves(Res, v, {LocalRes}), Opens(v, {LocalRes, Res})>>
    \o If(opts.device, Unsupported(v, {v, LocalRes, Res}))
    \o If(opts.local, Tries(v, {v, LocalRes, Res})) \o If(opts.local, Drops(LocalRes))
    \o If(opts.cport /\ ~opts.local, Tries(v, {v, Res}))

KeepsSocket(v) == CreateSocket(v) \o <<Tries(v, {Res}), Drops(Res)>> \* mutant

Netdial(v) == CreateSocket(v) \o <<Tries(v, {v, Res}), Drops(Res)>>

\* SO_REUSEADDR, IPV6_V6ONLY and bind, then listen.
Netannounce(v, stream) ==
  <<Resolves(Res, v, {}), Opens(v, {Res})>> \o If(opts.device, Unsupported(v, {v, Res}))
    \o <<Tries(v, {v, Res}), Drops(Res)>> \o If(stream, Tries(v, {v}))
-----------------------------------------------------------------------------
(* iperf_tcp.c                                                             *)

\* A client with the wrong cookie is refused: the socket that is returned is closed.
TcpAccept(refused) == <<Opens(S, {}), Tries(S, {S})>> \o If(refused, Drops(S))

\* With options for its sockets the listener is made anew; the sizes are read back.
TcpListen ==
  <<Copies(S, Listener)>>
    \o (IF opts.tuned
          THEN <<Drops(S), Resolves(Res, S, {}), Opens(S, {Res}), Tries(S, {S, Res})>>
                 \o <<Drops(Res), Tries(S, {S}), Copies(Listener, S)>>
          ELSE <<>>)
    \o <<Tries(S, {S})>>

\* The options, the sizes and the connection; then the cookie.
TcpConnect == CreateSocket(S) \o <<Tries(S, {S, Res}), Drops(Res), Tries(S, {S})>>
-----------------------------------------------------------------------------
(* iperf_udp.c                                                             *)

\* iperf_udp_buffercheck: whichever size cannot be set, read or kept.
BufferCheck == <<Tries(S, {})>>

\* When the check of the buffers, the message or its reply fails the socket stays open.
UdpConnect == Netdial(S) \o BufferCheck \o <<Tries(S, {})>>

UdpAccept ==
  <<Copies(S, Prot), Tries(S, {})>> \o BufferCheck \o Netannounce(Prot, FALSE) \o <<Tries(S, {})>>

UdpListen == Netannounce(S, FALSE)
-----------------------------------------------------------------------------
(* iperf_api.c: streams.                                                   *)

\* iperf_common_sockopts, which closes nothing.
CommonSockopts == <<Tries(S, {})>>

\* unlink, ftruncate and mmap leave the file open when they fail; so does the opening of
\* the disk file.  iperf_init_stream leaves the disk file.
NewStream(k) ==
  <<Opens(Buffer(k), {}), Tries(Buffer(k), {})>> \o If(opts.file, Opens(File(k), {}))
    \o <<Tries(Buffer(k), {Buffer(k)}), Does("add")>>

ClosesSocketToo(k) == <<Drops(Socket(k)), Drops(Buffer(k)), Drops(File(k))>> \* mutant

FreeStream(k) == <<Drops(Buffer(k)), Drops(File(k))>>

\* F for each of n streams; it makes as many calls for one as for another.
Each(n, F(_)) ==
  LET m == Len(F(1)) IN [i \in 1..n * m |-> (F(((i - 1) \div m) + 1))[((i - 1) % m) + 1]]

KeepsPipe == Each(streams, FreeStream) \o <<Forgets(Pipe)>> \* mutant

FreeTest == Each(streams, FreeStream) \o <<Clears(Pipe)>>
-----------------------------------------------------------------------------
(* iperf_client_api.c                                                      *)

\* iperf_connect: the control connection, its option and the cookie.
Connect == Function("netdial", Netdial(Ctrl)) \o <<Tries(S, {})>>

\* One round of iperf_create_streams.
ConnectStream(k) ==
  (IF opts.protocol = "tcp" THEN Function("tcp_connect", TcpConnect)
                            ELSE Function("udp_connect", UdpConnect))
    \o Function("new_stream", NewStream(k))

DropSocket(k) == <<Drops(Socket(k))>>

\* iperf_client_end; IPERF_DONE is sent when the server has been heard.
ClientEnd(heard) ==
  Each(streams, DropSocket) \o (IF heard THEN Function("client_end", <<Tries(S, {})>>) ELSE <<>>)
    \o <<Drops(Ctrl)>>
-----------------------------------------------------------------------------
(* iperf_server_api.c                                                      *)

\* The listener and, if it can be made, the pipe.
Listen == Function("netannounce", Netannounce(Listener, TRUE)) \o <<Call("pipe", Pipe, Pipe, {})>>

\* iperf_accept and iperf_exchange_parameters.
Accept ==
  <<Opens(Ctrl, {}), Tries(S, {})>>
    \o (IF opts.protocol = "tcp" THEN Function("tcp_listen", TcpListen)
                                 ELSE Function("udp_listen", UdpListen))
    \o <<Copies(Prot, S), Tries(S, {})>>

\* Another client is refused while a test is on.
AcceptOther == <<Opens(S, {}), Drops(S)>>

AcceptStream(k, refused) ==
  (IF opts.protocol = "tcp" THEN Function("tcp_accept", TcpAccept(refused))
                            ELSE Function("udp_accept", UdpAccept))
    \o Function("sockopts", CommonSockopts) \o <<Does("is_closed")>>
    \o Function("new_stream", NewStream(k))

\* All streams are there.
Reopen ==
  (IF opts.protocol = "udp" THEN <<Clears(Prot)>>
     ELSE IF opts.tuned
       THEN <<Clears(Listener)>> \o Function("netannounce", Netannounce(S, TRUE)) \o <<Copies(Listener, S)>>
       ELSE <<>>)
    \o <<Forgets(Prot), Tries(S, {})>>

\* server_timer_proc frees the streams as well.
ClearStream(k) == <<Clears(Socket(k))>> \o FreeStream(k)
Expire == Each(streams, ClearStream) \o <<Does("no_streams"), Clears(Ctrl)>>

ClearSocket(k) == <<Clears(Socket(k))>>
\* TEST_END, with the exchange of the results.
EndTest == Each(streams, DropSocket) \o <<Tries(S, {})>>

CleanUp == Each(streams, ClearSocket) \o <<Clears(Ctrl), Clears(Listener), Clears(Prot)>>
-----------------------------------------------------------------------------
(* The machine that runs the calls.                                        *)

Init ==
  /\ opts \in Tests
  /\ owner = [n \in Numbers |-> "free"]
  /\ var = [v \in Fds |-> None]
  /\ lists = [l \in Lists |-> "null"]
  /\ streams = 0
  /\ at = "start"
  /\ code = <<>>
  /\ fn = "none" /\ before = {}
  /\ failures = {} /\ strays = {}

Free == {n \in Numbers : owner[n] = "free"}
Lowest == CHOOSE n \in Free : \A m \in Free : n <= m

Takes(v, n) == owner' = [owner EXCEPT ![n] = "test"] /\ var' = [var EXCEPT ![v] = n]

\* close and freeaddrinfo, whoever the number or the list belongs to by now.
Releases(names) ==
  LET fds == {var[v] : v \in names \cap Fds} \ {None}
      gone == {v \in names \cap Fds : var[v] # None /\ owner[var[v]] # "test"}
      freed == {l \in names \cap Lists : lists[l] = "freed"}
  IN /\ owner' = [n \in Numbers |-> IF n \in fds THEN "free" ELSE owner[n]]
     /\ lists' = [l \in Lists |-> IF l \in names /\ lists[l] = "held" THEN "freed" ELSE lists[l]]
     /\ strays' = strays \cup {<<at, v[1]>> : v \in gone \cup freed}

IsClosed(v) == var[v] = None \/ owner[var[v]] = "free"

\* A number that was closed is taken for an open socket since another thread has it.
Stolen == <<"is_closed", "s">>

Succeeds ==
  /\ code # <<>>
  /\ LET c == Head(code) IN
       /\ code' = IF c.does = "is_closed" /\ IsClosed(S) THEN <<>> ELSE Tail(code)
       /\ \/ /\ c.does \in {"open", "pipe"} /\ Free # {}
             /\ Takes(c.into, Lowest)
             /\ UNCHANGED <<lists, streams, fn, before, strays>>
          \/ /\ c.does = "list"
             /\ lists' = [lists EXCEPT ![c.what] = "held"]
             /\ UNCHANGED <<owner, var, streams, fn, before, strays>>
          \/ /\ c.does = "try"
             /\ UNCHANGED <<owner, var, lists, streams, fn, before, strays>>
          \/ /\ c.does = "is_closed"
             /\ strays' = IF ~IsClosed(S) /\ owner[var[S]] = "other" THEN strays \cup {Stolen} ELSE strays
             /\ UNCHANGED <<owner, var, lists, streams, fn, before>>
          \/ /\ c.does \in {"drop", "clear"}
             /\ Releases({c.what})
             /\ var' = IF c.does = "clear" THEN [var EXCEPT ![c.into] = None] ELSE var
             /\ UNCHANGED <<streams, fn, before>>
          \/ /\ c.does \in {"copy", "forget"}
             /\ var' = [var EXCEPT ![c.into] = IF c.does = "copy" THEN var[c.what] ELSE None]
             /\ UNCHANGED <<owner, lists, streams, fn, before, strays>>
          \/ /\ c.does \in {"enter", "leave"}
             /\ fn' = IF c.does = "enter" THEN c.what[1] ELSE "none"
             /\ before' = IF c.does = "enter" THEN Owned ELSE {}
             /\ lists' = [l \in Lists |-> IF lists[l] = "held" THEN "held" ELSE "null"]
             /\ UNCHANGED <<owner, var, streams, strays>>
          \/ /\ c.does = "add"
             /\ streams' = streams + 1
             /\ var' = [var EXCEPT ![Socket(streams')] = var[S]]
             /\ UNCHANGED <<owner, lists, fn, before, strays>>
          \/ /\ c.does = "no_streams"
             /\ streams' = 0
             /\ UNCHANGED <<owner, var, lists, fn, before, strays>>
  /\ UNCHANGED <<opts, at, failures>>

\* The failure of a call ends what the test was doing.
AfterFailure ==
  IF at = "connect" THEN "refused" ELSE IF at \in {"display", "end", "again"} THEN "ended" ELSE "failed"

Fails ==
  /\ code # <<>>
  /\ LET c == Head(code) IN
       /\ c.does \in {"open", "list", "try", "never"}
       /\ Releases(c.undo)
       /\ var' = [var EXCEPT ![c.into] = None]
  /\ code' = <<>> /\ at' = AfterFailure
  /\ fn' = "none" /\ before' = {}
  /\ failures' = failures \cup {fn}
  /\ UNCHANGED <<opts, streams>>

\* A pipe that cannot be made is done without.
GoesOn ==
  /\ code # <<>> /\ Head(code).does = "pipe"
  /\ code' = Tail(code)
  /\ UNCHANGED <<opts, owner, var, lists, streams, at, fn, before, failures, strays>>
-----------------------------------------------------------------------------
(* What a client and a server do next.                                     *)

Idle(phases) == code = <<>> /\ at \in phases
Becomes(phase, calls) ==
  /\ at' = phase /\ code' = calls
  /\ UNCHANGED <<opts, owner, var, lists, streams, fn, before, failures, strays>>

AllThere == streams = NumStreams

ClientStep ==
  /\ opts.role = "client"
  /\ \/ Idle({"start"}) /\ Becomes("connect", Connect)
     \/ Idle({"connect", "streams"}) /\ ~AllThere /\ Becomes("streams", ConnectStream(streams + 1))
     \/ Idle({"streams"}) /\ AllThere /\ (Becomes("display", ClientEnd(TRUE)) \/ Becomes("failed", <<>>))
     \/ Idle({"refused"}) /\ Becomes("end", ClientEnd(FALSE))
     \/ Idle({"failed"}) /\ Becomes("end", ClientEnd(TRUE))
     \/ Idle({"display", "end", "ended"}) /\ opts.endsAgain /\ Becomes("again", ClientEnd(TRUE))
     \/ Idle({"display", "end", "ended", "again"}) /\ Becomes("free", FreeTest)

ServerStep ==
  /\ opts.role = "server"
  /\ \/ Idle({"start"}) /\ Becomes("listen", Listen)
     \/ Idle({"listen"}) /\ Becomes("accept", Accept)
     \/ /\ Idle({"accept", "streams"}) /\ ~AllThere
        /\ \E refused \in {FALSE, opts.protocol = "tcp"} :
             Becomes("streams", AcceptStream(streams + 1, refused))
     \/ Idle({"streams"}) /\ AllThere /\ Becomes("reopen", Reopen)
     \/ Idle({"reopen", "busy"}) /\ (Becomes("busy", AcceptOther) \/ Becomes("test_end", EndTest)
                                       \/ Becomes("expire", Expire))
     \/ /\ Idle({"listen", "accept", "streams", "reopen", "busy", "test_end", "expire", "failed"})
        /\ Becomes("cleanup", CleanUp)
     \/ Idle({"cleanup"}) /\ Becomes("free", FreeTest)

\* The rest of the process.
OthersOpen ==
  /\ Cardinality({n \in Numbers : owner[n] = "other"}) < MaxOthers /\ Free # {}
  /\ owner' = [owner EXCEPT ![Lowest] = "other"]
  /\ UNCHANGED <<opts, var, lists, streams, at, code, fn, before, failures, strays>>

OthersClose ==
  /\ \E n \in Numbers : owner[n] = "other" /\ owner' = [owner EXCEPT ![n] = "free"]
  /\ UNCHANGED <<opts, var, lists, streams, at, code, fn, before, failures, strays>>

Next ==
  \/ Succeeds \/ Fails \/ GoesOn \/ ClientStep \/ ServerStep
  \/ ~Idle({"free"}) /\ (OthersOpen \/ OthersClose)

Spec == Init /\ [][Next]_vars
-----------------------------------------------------------------------------
\* Type correctness: a test has its streams and no more.
TypeOK ==
  /\ opts \in Tests
  /\ owner \in [Numbers -> {"free", "test", "other"}]
  /\ var \in [Fds -> Numbers \cup {None}]
  /\ lists \in [Lists -> {"null", "held", "freed"}]
  /\ streams \in 0..NumStreams
  /\ before \subseteq Numbers

\* The functions that leave nothing behind when they fail.
Tidy == {"netdial", "netannounce", "tcp_connect", "tcp_listen", "tcp_accept", "udp_listen"}

\* Whichever of its calls fails, a function of net.c or iperf_tcp.c closes what it has
\* opened: the test then has no descriptor it did not have before.
FailureReleases == [][failures' # failures /\ fn \in Tidy => Owned' \subseteq before]_vars

\* What a failure of the other functions may leave open: the stream's socket and a file,
\* the stream's socket, or the control connection.
LeftBy(f) ==
  IF f = "new_stream" THEN {"socket", "file"}
  ELSE IF f \in {"udp_connect", "udp_accept", "sockopts"} THEN {"socket"}
  ELSE IF f = "client_end" THEN {"ctrl_sck"} ELSE {}

\* However a test ends, when it has been freed nothing of it is open, but for what the
\* failures of iperf_new_stream, iperf_udp_connect, iperf_udp_accept, iperf_common_sockopts
\* on the server, and of the client's last message are known to leave.  No address list
\* outlives the function that resolved it, and none is freed twice.
LeaksAreKnown ==
  /\ TypeOK
  /\ Idle({"free"}) => Cardinality(Owned) <= Cardinality(UNION {LeftBy(f) : f \in failures})
  /\ fn = "none" => \A l \in Lists : lists[l] # "held"
  /\ \A l \in Lists, x \in strays : x[2] # l[1]

\* A test closes only descriptors of its own, although other threads are given the numbers
\* of those it has closed.  Exempt are a client that is stopped on iOS and so ends a second
\* time, and the server's cleanup, for stream sockets closed at TEST_END and for a listener
\* known under two names.  (Not once is_closed was asked about the number of a refused
\* client's socket that another thread had been given: the server then takes it for a stream.)
ClosesOwn ==
  Stolen \notin strays =>
    \A x \in strays :
      IF opts.role = "client"
        THEN x[1] = "again" /\ x[2] \in {"socket", "ctrl_sck"}
        ELSE x[1] = "cleanup" /\ x[2] \in {"socket", "listener", "prot_listener"}

=============================================================================
