# Sparxie in TLA+

Sparxie is a bandwidth tester for Android and iOS around a vendored copy of
iperf 3. A user starts a client or a server session, watches its JSON events and
stops it. The hard part is not the measurement but the life cycle: one blocking
call of a C library that keeps its state in process-wide variables, driven from
user interface threads that may stop it at any instant.

These modules model that life cycle from the buttons down to the loop of the
iperf engine, the control protocol between engines on several hosts, and what an engine
does in a test: its options and parameters, the bytes of its control connection, its UDP
streams, its timers and statistics, and its descriptors. TLC checks them; TLAPS proves the
safety of both session runtimes, of the control protocol and its connection, that both sides
run the same test, whatever the order of its options, the counters of the UDP streams, and the
timers, statistics and limits of a test, for every instance.
References such as `iperf3_jni.c:327` are to files under `src/`.

## Inventory

| Component | State it keeps | Operations | Interacts with |
|---|---|---|---|
| Android session runtime, `runtime/IperfSessionRuntime.kt` | `activeKind`, `stopRequested`, observed `state`, `jsonEvents`, one executor thread | `startClient`, `startServer`, `stop`, `runSession`, `finishSession`, `handleJsonEvent` | screens (any thread), JNI bridge |
| Android JNI bridge, `iperf3_jni.c` | `g_prepared_test`, `g_active_test`, `g_stop_requested`, last error, the JSON listener | `reset`, `prepareClient`/`prepareServer`, `run`, `interrupt`, last error | runtime (two threads), engine, callback into the runtime |
| iOS session runtime, `IperfSessionRuntime.swift` | main actor: `state`, `jsonEvents`; executor under a lock: `isActive`, `stopRequested`, `activeTest`; callback registry; retry queue | `start`, `stop`, `handle`, `run`, `retryInterruptUntilStopped`, `complete` | screens, engine, tasks posted to the main actor |
| iperf client, `iperf_client_api.c` | `test->state`, `test->done`, streams and threads, timers, control socket | `iperf_connect`, `iperf_handle_message_client`, `iperf_run_client`, `iperf_client_end` | the server (control messages), stream threads, timers |
| iperf server, `iperf_server_api.c` | the same, listeners, interrupt pipe, expiry timer, counters of accepted streams | `iperf_server_listen`, `iperf_accept`, `iperf_handle_message_server`, `iperf_run_server`, `cleanup_server` | clients, stream threads, timers |
| Test object, `iperf_api.c` | `struct iperf_test`, results of streams and intervals, `i_errno` | create, defaults, setters, command line, interrupt, free, parameter and result exchange, statistics, throttling, rate limit | all of the above |
| Timer list, `timer.c` | one sorted list for the process | create, run, reset, cancel, next timeout | callbacks of client, server and statistics |
| UDP and TCP streams, `iperf_udp.c`, `iperf_tcp.c` | packet counters, loss, jitter | send, receive, connect, accept | network, stream threads |
| Clock, `iperf_time.c` | none | add, compare, difference of instants | timers, intervals, throttling |
| Network I/O, `net.c` | none (descriptors) | `Nread`, `Nwrite`, timed variants, `netdial`, `netannounce` | kernel |
| Screens, navigation, settings | form fields, back stacks, stored preferences | validation, start, stop, navigate, save | session runtimes |

### What is hard in it

- **Interleaving.** A stop may come at any point between the lock of `startSession`
  and the return of `iperf_run_*`. `iperf_interrupt` writes `test->state` and
  `test->done` from another thread, unsynchronised, while the control loop
  overwrites both.
- **Stale state.** The stop flag, the last error and the JSON callback are
  process-wide and survive a session. On iOS a retry loop outlives its session.
- **Ordering.** The observed state is written by the user's thread and by the worker.
- **Waiting.** A client blocks in `select()` without a timeout before `TEST_START`; a
  server waits for its first client for ever, and only the interrupt pipe wakes it.
- **Release.** Tests, callbacks and stream threads have different owners and ends.
- **Numbers and order on the wire.** Losses are counted from sequence numbers the network
  reorders and repeats; senders and receivers take counts back; the two sides read their
  counters at different times, and while threads still move them.
- **Time.** Timers of one instant run in the order of one list and cancel one another; an
  interval, the omitted part and the test may end together.
- **Order of what is given.** Some defaults depend on several options; the server takes
  over a test from what the client sends, and refuses it over the same connection.
- **Failure between two steps.** Every socket is made by several calls; a C variable keeps
  the number of a descriptor after it was closed, and other threads are given that number.

### What makes each component correct

| Component | Properties |
|---|---|
| Android runtime and bridge | one session at a time down to the native layer; no pointer another thread reaches is dangling; outcome and error belong to the session; an early stop prevents the run; the observed state follows the life cycle; a delivered stop ends the session |
| iOS runtime | the same, with the retries; the screens are never refused a start they offer; a stop always settles |
| Engine | a client ends if its peer answers or closes; Finished means results were exchanged; no thread works on freed streams (not kept: see the findings) |
| Control protocol | one test at a time with the streams of its own client; success means results were exchanged; nobody waits for ever and nobody keeps the server; a second client does nothing to the first |
| Options, parameters, control connection | the order of options does not matter; both sides run the same test within the server's bounds; a message arrives whole or the call fails; an error the server reports reaches its client; the conversation ends |
| UDP streams | sockets are paired; counters are those of the packets; the printed report adds up; a lost datagram keeps nobody waiting |
| Timers, statistics, limits | no cancelled timer is run and none is lost; each interval is printed once; intervals and summary agree; the limit trips exactly when an average exceeds it; senders keep to rate and size; the test ends |
| Descriptors | a failure closes what was opened before it; nothing is open when the test is freed; no foreign number is closed. The code keeps this but for a known list, which is what is checked |

## Modules

| Module | Models |
|---|---|
| `SessionLifecycle` | The abstract specification: what a runtime promises to the screens that observe it. Six steps over `phase` and `kind`. |
| `IperfEngine` | `iperf_run_client` and `iperf_run_server` as a runtime sees them: the loop over `test->state`, `select()`, the messages that overwrite the state, `done`, the interrupt pipe, what the call leaves behind. Actions only; the sessions compose it. |
| `AndroidSession` | `IperfSessionRuntime.kt` and `iperf3_jni.c`, composed with `IperfEngine`. |
| `IosSession` | `IperfSessionRuntime.swift`, composed with `IperfEngine`. |
| `IperfControl` | The control protocol: several clients and one server, the control connections as queues of messages, the server's backlog, streams and cookies, second clients, failing sends, timeouts, stops, vanishing processes, a server started again. |
| `TestOptions` | Operators: the setters, the options of the command line with the checks behind the loop, what a client sends as parameters and a server adopts or refuses. |
| `ControlChannel` | The control connection as bytes: `Nread` in pieces and with its timeout, `Nwrite`, JSON messages, draining and closing. Actions only. |
| `Exchange` | A client and a server that are set up by `TestOptions` and talk over `ControlChannel`, from the cookie to the results or the refusal. |
| `UdpStream` | The handshake that pairs sockets, sending and receiving threads with their counters, and the report, over a network that loses, reorders and duplicates. |
| `Reporting` | One side of a running test: the control loop, the list of timers with its callbacks, interval statistics, throttling, the server's rate limit, the end of the test. |
| `Descriptors` | Every descriptor and address list a test opens, as the sequences of the calls that make them, each of which may fail. |
| `IperfTime` | Operators: the arithmetic of instants, on words of any width. |
| `MC...` | Instances for TLC. |
| `AndroidSessionProofs`, `IosSessionProofs`, `IperfControlProofs`, `ExchangeProofs`, `UdpStreamProofs`, `ReportingProofs`, `DescriptorsProofs` | The theorems about `AndroidSession`, `IosSession`, `IperfControl`, `Exchange`, `UdpStream`, `Reporting` (with `IperfTime`) and `Descriptors`. |
| `TestOptionsProofs` | What the operators of `TestOptions` keep, and that their order does not matter: lemmas for `ExchangeProofs`. |

An action is what one thread does while it holds one lock, or what it does between
two locks; everything a critical section changes is in one action. Reading code and
model side by side:

- `AndroidSession`: `StartSession` is `startSession` inside `sessionLock`, `Submit` the
  `executor.execute` after it, `Stop` the whole of `stop`, including the native call
  made inside the lock. `wpc` is the place of the executor's thread in `runSession`:
  `check`, `create`, `publish` are the three parts of `prepare_test`, `mark` the update
  to Running, `claim` the first critical section of `run`, `install` and `engine` the
  call of iperf, `clear`, `free` the end of `run`, `returned`, `failed`, `finish` the
  rest of `runSession`. The globals of the bridge are `prepared`, `active`, `gStop`,
  `lastError`, `listener`; `rstopped` is the local `stopped` of `run`.
- `IosSession`: the main actor runs `StartSession`/`StartReturns` (the two halves of
  `start`, between which the worker may already run but no posted task can), `Stop` and
  `Deliver`. `mailbox` is what the worker posted to the main actor, in order. `rpc` is
  the place of the closure on the stop-retry queue.
- Every test is a natural number given out once, the number of its session; a callback
  owner, an event or a pointer therefore says whose it is, and `heap` says whether it is
  allocated. The number 0 is the null pointer.
- `IperfEngine`: `epc` is the place of the thread inside `iperf_run_*`. `Interrupt` is
  `iperf_interrupt`; it interleaves with every step. `progress` is the last control
  message and stands for the peer's side of the protocol.
- `IperfControl`: `cpc[i]` is the place of client `i` in `iperf_run_client`, `spc` that of
  the server in `iperf_run_server`; an action is what one side does between two waits.
  `up` and `down` are the control connection of each client, `backlog` the connections
  no one has accepted, each with its owner (the cookie) and the stream it is for.
  `sctrl` is the connection that became `ctrl_sck`, which may be one made for a stream
  of an earlier test: nothing sent to it is ever read. `disturbed` says whose sends may
  fail, waits time out, users stop and processes vanish, so that a run can ask what a
  disturbed party does to an undisturbed one; a client or server that is not in it fails
  only when the code has no other way (nobody listens, the peer has closed, what comes
  is not what is expected). What timeouts measure is not modelled: a timeout may expire
  whenever its wait is on. Of `cleanup_server`, whether `SERVER_ERROR` is sent rests on
  `i_errno`, which other threads write; both happen. A client with a negative state does
  not announce its end. One step of an exchange stands for a whole JSON object.
- The client of `IperfControl` is shown to be a client of `IperfEngine`
  (`ClientIsEngine`): the order of messages the session modules allow a peer is the order
  the server really sends.
- `Exchange`: `pc[s]` is where a side is in its conversation, `state[s]` its `test->state`,
  `errno[s]` its `i_errno`. A byte is the message it belongs to and its place there, so that
  a read at the wrong place shows. `got` is what the `Nread` under way has, `ended` why it
  returned early. `iperf_parse_arguments` has no caller in the apps: it is the library's
  way to set a test up, the setters (`Prepared`) are the apps'; a setup is either.
  `HeardIsSent` shows that no state comes to a side that does not know it, so the branch
  `IEMESSAGE` of the two switches is not modelled. A server that fails ends in one of three
  ways: `CleansUp` reports the error it has, drains the connection and closes it;
  `EndsUntold` is a `cleanup_server` that comes before `i_errno` is set (`select`, the
  listener), which reports nothing; `Expires` and `ClosesExpired` are `server_timer_proc`,
  which reports and closes by itself without reading what is there, after which `select`
  fails with another error. A client ends with `ClientEnds`, which leaves the socket open
  when `IPERF_DONE` cannot be sent.
- `UdpStream`: `snd[i].pc` and `rcv[i].pc` are the places of the threads between two
  accesses to a counter another thread reads. `net` holds the datagrams not yet read; one
  that is lost is never read. `written` and `got` are history: what really was sent and
  which numbers were counted. The control connection appears as the order it puts on the
  states of the two sides.
- `Reporting`: `pc` is the place of the control loop, `cur` and `next` the two pointers of
  `tmr_run`, `clock` the time it was called with. The statistics callback takes three
  steps a stream (it reads the interval's counter, adds it, clears it), since threads
  count in between. `ivals` keeps all intervals as history; the code keeps the last (`add_to_interval_list`), which
  is what `Last` reads. Data is counted in blocks, time in ticks.
- `Descriptors`: a function is the sequence of its calls, each with what is released when it
  fails; `Succeeds` and `Fails` execute them. `owner` says whose a number is, `var` what
  the C variables hold, and `OthersOpen` gives the lowest free number to another thread.
  `strays` records what was closed or used although it was no longer the test's. An address
  list is a local variable of the function that resolves it: a list still held when the function
  is left stays held (`Does("leave")`), which `LeaksAreKnown` rules out together with a list freed
  twice. `LeftBy` says which variables the failure of a function leaves open; `LeaksAreKnown`
  allows, when the test has been freed, as many descriptors as the functions that did fail leave.

Abstracted throughout: the texts of errors, contents of JSON events, names and addresses.
The engine under the session modules and `IperfControl` is the one the apps configure: TCP,
an upload of ten seconds with the defaults of `iperf_defaults`. The other modules take the
options they depend on as constants (`Tests`, `Setups`).

## Runs

| Run | Question | Instance |
|---|---|---|
| `android_session` | The safety invariants of the Android runtime and bridge in every interleaving of two callers, the worker, JSON callbacks, stream threads and the engine; `RefinesLifecycle`, `StopPreventsRun`, and under fairness `DeliveredStopEnds` and `ClientSettles`. | 2 callers, 2 sessions, list of 2 |
| `android_stop_settles` | Does every stop settle? No: see the findings. | 1 caller, 1 session |
| `android_final_release` | Have all stream threads ended when the test is freed? No. | 1 caller, 1 session |
| `ios_session` | The safety invariants of the iOS runtime, `RefinesLifecycle`, and under fairness `StopSettles`. | 2 sessions, list of 2, a JSON event posted to an empty mailbox only |
| `ios_finished_means_completed` | Is a Finished client always a completed one? No. | 2 sessions |
| `control_safety` | Can tests or streams of two clients be mixed up, or success be reported without results, when anything may fail? | 2 clients (symmetric), 2 streams, server started twice, everybody or one client disturbed |
| `control_progress` | Under fairness: does every client come back, is the server always freed, is a client that nobody disturbs served whatever the other does, and is a client always a client of `IperfEngine`? | 2 clients, 2 streams, 1 server run; one client, or it and the server, disturbed |
| `control_tos` | Is the test of an undisturbed client safe from the other when it sets the type of service? No: see the findings. | 2 clients, 2 streams, 1 server run |
| `udp_stream` | Are sockets paired, counters exact and the report consistent on a network that loses, reorders and duplicates, and does the test end? | 2 streams, both directions, 3 packets or 1 with an omitted part, 1 duplicate |
| `reporting` | Are timers, intervals, limits and the end of the test right in every interleaving of the control loop, the threads and the clock? | 10 tests of about two ticks, one or two streams |
| `exchange` | Do options commute, do both sides run the same test, are messages read whole, are reported errors told, and does the conversation end? | 26 setups; messages of two-byte parts |
| `descriptors` | What do failures leave open, and what is closed twice? Exactly the known list. | 10 tests, 2 streams, 1 descriptor of another thread |

**Bounds.** `MaxSessions` is a bound of the model: after it no start is accepted, so the
runs switch deadlock checking off (the system may then rest for ever). Two sessions are
enough to see anything a session leaves to the next, which is what all hazards about
stale flags, callbacks and retries need: the state a session starts from does not depend
on how many came before it, as the invariants `SettledIsReleased` and `StartIsAccepted`
say. Two callers are enough because the code distinguishes only "this caller" from
"some other" and all of them pass one lock. `MaxJsonEvents` stands for the
events the lists keep, 100 on Android and 200 on iOS; 2 lets the list be empty, partly filled, full and shifted. `MaxPending`
bounds how far JSON events run ahead of the main actor; terminal and running states are
always posted. The safety runs of both sessions are also covered by the proofs below,
where none of these bounds is fixed.

In `IperfControl` two clients are the one in the test and the one that should not be; the
server knows a single control connection, so a third can only be denied as the second
is. Two streams let the first, a middle place and the last of the accepted streams
differ, and another client's connection come between them. A second start of the server
(`MaxTests`) is what lets connections meant for an earlier run reach a later one. Each
client runs one test: a host that starts again is another client, with another cookie.

In `UdpStream` three packets leave a gap, repair it and leave another; a second stream is
what a repeated handshake message can be mistaken for; one duplicate may hit any kind of
datagram. The proofs below cover any number of each. In `Reporting` the ten tests
(`MCReporting`) have each kind of end (time, blocks, idle receiver, refusal by the server),
omitted parts, intervals, rates with and without bursts, and a limit averaged over two
intervals or over two streams; `DataUntil`, `cap` and `Horizon` bound data and time beyond
the point where every such test has ended, `MaxLag` lets the control loop be late by one
tick. In `Exchange` the setups contain every kind of option, the refusals of either side, apps on
either side, and numbers nobody refuses: no streams or a negative number of them, a negative
segment size or window, a total rate that no size can hold (`Odd`; `SizeValues` is 2^28 there, so
that it wraps within TLC's integers). Lengths, texts and integers have two bytes, so each can be
cut and followed by part of the next. In `Descriptors` two streams let a failure come with a stream already
there, and `MaxFd` leaves a number free in every state.

**Symmetry** is used in `control_safety` only, which has no temporal property; clients
are interchangeable in the code.

**Fairness.** Threads are scheduled preemptively and every lock is held for a bounded
time, so a caller between lock and executor, the worker, the main actor and the dispatch
queues have weak fairness. `WorkerOwnStep` contains exactly the steps of the engine that
wait for nobody. Strong fairness is assumed of three waits, because a stop may disable
and enable them again: `PeerAnswers` (the peer of a client answers or closes the
connection whenever it owes a message; TCP and its server do one or the other),
`TestTimerFires` (the ten-second timer of a running client test) and `ServerServes` (an
accepted client of a server is bounded by the receive timeout and by
`server_timer_proc`). Nothing is assumed of `ServerAccept`: a server may wait for its
first client for ever, which is why a lost stop matters. On iOS tasks posted by one
queue to the main actor are taken in the order they were posted. In `IperfControl` every
started client and the server have weak fairness: their threads run, and their timeouts
expire. Strong fairness of `ClientRead \/ ClientLoses \/ TestTimerFires` says that a
client which wakes for its timers again and again does not pass over a message that
waits, nor its test timer. Starting, stopping and vanishing are not fair. In `UdpStream`
only the control threads are fair (`ControlStep`: their waits have timeouts); neither the
network nor the threads of the streams. In `Reporting` time goes on and the control loop
wakes; no thread, peer or network is fair. In `Exchange` both sides run on: every read has
its timeout or its end, and a test ends, one of `-t 0` by a stop. Nothing is assumed of what may
happen and need not (`Mishap`: a failing `select`, a limit that is exceeded, a path that breaks).
`ExchangeEnds` is about all tests but reverse ones of a negative number of streams (`Stalls`),
where the code waits on both sides without a timeout.

**Every property has a mutant**, an operator next to the code it mutates and marked
`\* mutant`: a forgotten reset, a pointer not cleared, a guard that looks at the wrong
thing. With it in place TLC finds the property violated.

### Findings

Three statements of `MIGRATION.md`, and one of a comment, that the code does not keep:

1. `android_stop_settles`: on Android a stop calls `iperf_interrupt` once. If that falls
   between the claim of the test and `iperf_server_listen`, the pipe does not exist yet
   and `iperf_run_server` overwrites `test->state`: the server listens on, and the screen
   stays in Stopping. (iOS retries, and `ios_session` shows that it helps.)
2. `android_final_release`: a client that was stopped leaves its loop joining the receiver
   threads only; the test and its streams are freed while sender threads use them. (The
   property is about a stopped client, which is what the document speaks of. A server has a
   defect of the same kind in `server_timer_proc`, which frees the streams under their
   threads; `AndroidSession` has those threads run on, too.)
3. `ios_finished_means_completed`: the retry loop asks whether some session is active,
   not whether its own is. A retry that sleeps across the end of its session interrupts
   the next one, which is then reported as finished.
4. `control_tos`: `iperf_accept` takes care that a request which is not related to the
   ongoing test does not end it. `iperf_tcp_accept`, which receives such a request while
   streams are created, closes it and returns the closed descriptor, and
   `iperf_run_server` calls `iperf_common_sockopts` on it before it asks `is_closed`. If
   the parameters of the test set the type of service, that fails, and the server ends
   the test of its client with `SERVER_ERROR`. The apps do not set it as clients, but any
   iperf client may when it tests against their server. Without it, `AdmittedIsServed` in
   `control_progress` shows the intention kept.

Facts about the code that the models rest on and that have no run of their own:

- `iperf_run_server` returns after one test and nothing runs it again, so a server session
  finishes after its first client, while `MIGRATION.md:48` says it runs until stopped.
  `AndroidSession` and `IosSession` show such a session as Finished.
- The number of a refused stream connection is closed in `iperf_tcp_accept` and tested by
  `is_closed` afterwards (`iperf_server_api.c:802`). If another thread was given the number
  in between, the server takes that thread's descriptor for a stream. `Descriptors` has
  this (`Stolen`), and `ClosesOwn` is stated for executions without it.
- At `TEST_END` the server closes its stream sockets and keeps their numbers
  (`iperf_server_api.c:285`); `cleanup_server` closes them again. A client that is stopped on
  iOS is ended twice. Both are in the list of `ClosesOwn`.
- `iperf_new_stream`, `iperf_udp_connect`, `iperf_udp_accept` and, on the server,
  `iperf_common_sockopts` leave open what was opened when they fail; a client whose last
  message fails leaves its control socket open. That is the list of `LeaksAreKnown`.
- A receiver repairs a loss whenever an older number comes, so a duplicate makes the loss
  count too low, never too high (`LossIsExact`).
- A sender of a limited number of blocks may send two more for each thread (`KeepsToLimits`).
- A client takes whatever an early end of the connection leaves it with for the server's
  error code (`ReadsCode`): only a hard error of `Nread` is noticed there.
- Where `cleanup_server` comes before `i_errno` is set (`iperf_server_api.c:692`, `:916`) the
  client is not told of the error. A server whose test has expired
  (`server_timer_proc`) tells it and closes at once, so that a client that has written meanwhile
  may be reset before it reads the error; that server itself returns with the error of the
  `select` that fails next. `RefusalIsTold` is about reported errors, and names this exception.
- `-P` and `-M` (and the window of `-w`) are checked against their upper bound only. `-P -1` is
  accepted, sent and adopted: a client of an upload then creates no stream and waits, its server
  waits for streams it never counts, until the receive timeout of the server; with `-R` neither side
  has a timeout and the two wait for ever (`Stalls`).
- The total rate that `get_parameters` and `iperf_run_server` check against the server's limit is
  taken modulo 2^64, so a rate that wraps passes the check (`Requested`). `IsBounded` claims the
  limit only for a total that the type can hold. The second check (`iperf_server_api.c:929`) never
  fails, since the first has refused what it would.

## Proofs

`AndroidSessionProofs` proves, for any non-empty set of callers, any number of sessions
and any list length (`CallersAssumption`, `MaxSessionsAssumption`,
`MaxJsonEventsAssumption`), that `Spec` implies every safety invariant `android_session`
checks, the action property `StopPreventsRun`, and `RefinesLifecycle`, the refinement of
`SessionLifecycle`. None of these is inductive. The inductive invariant `IInv` has six
parts, each preserved with the help of `TypeOK`, `Carried` and `Held`:

- `Carried`: a session under way is in exactly one place, a submitting caller, the queue
  or the worker. It rules out that a second start finds the worker busy.
- `Held`: the position of the worker says exactly what the native globals and the heap
  hold; for instance a test is allocated just from its creation to its release, and it is
  the active one just while `run` is between its two critical sections.
- `Stops`: during a session the native stop flag and the runtime's `stopRequested` agree,
  and the native outcome rests on them. It needs `Held`: the reset at the start of a
  session clears the flag only because nothing is prepared or active then.
- `Shown`: the observed phase follows from the worker's position and `stopRequested`.
- `Completes`: a client's loop ends by itself only after `DISPLAY_RESULTS`. It follows
  `test->state` through every step of the engine in which an interrupt may overwrite it.

`OwnSession` and `RightOutcome` state the two invariants that combine several of these;
`KeepLastType` and `KeepLastSame` are the lemmas about the bounded event list.

`IosSessionProofs` proves every safety invariant of `ios_session` and its `RefinesLifecycle`,
for any number of sessions, any list length and any number of events on their way to the
main actor (`MaxSessionsAssumption`, `MaxJsonEventsAssumption`, `MaxPendingAssumption`). The
main actor learns late what the worker did, so the invariant has to say what is still in the
mailbox; it is about `Current`, the kind of the session a start or the screens have under way:

- `Carried`: that session is in the queue, with the worker, or in what the worker posted, and
  the executor calls itself active just while it is in one of the first two.
- `Held`: as on Android, here for the executor's pointer, the registry and the heap.
- `Posted`: every message is of the current session, and one that ends it is the last and
  finds the worker idle. Hence a late message never reaches the next session.
- `Shown`: the screens have been or will be told that the session runs (`Announced`) before
  they are told that it finished, and it may end (`MayEnd`) in what the worker will post.
- `Closes`: in the first session nobody interrupts before a stop was asked for, so a client
  that comes back by itself has closed its control connection; a stopped one is ended by
  `EndStoppedClient`. From it follows the second half of `SettledIsReleased`.

Unlike on Android `TypeOK` is not inductive alone: that the registry only holds tests needs
`Held`. `Delivered` sorts the messages into the three kinds, and `AnnouncedIsShown` and
`StillAnnounced` follow an announcement through the mailbox.

`IperfControlProofs` proves the invariants of `control_safety` and the refinement `ClientIsEngine`
for any set of clients, number of streams and number of tests (`NumStreamsAssumption`,
`MaxTestsAssumption`, `DisturbancesAssumption`, `ClientsAssumption`), and `BystanderHarmless`
for a server that sets no type of service. The queues in both directions are of any length
there, so `IInv` has to say what may be in them:

- `Types`, `Local`, `Serving`: types, and what the places of a client and of the server say of
  their sockets and of the streams accepted.
- `Placed`: a control connection is in the backlog, where its client has heard nothing yet,
  with the server, or closed by it. From it follows that an admitted client is the one served.
- `Fresh`, `Queued`, `Awaited`: a client that has read at most `PARAM_EXCHANGE` has created no
  stream; the backlog has its connections in order, and while streams are accepted those and
  no others that are still to come. Hence the next stream is the one with the next number.
- `Announced`: before the last stream is accepted nothing later than `CREATE_STREAMS` is heard
  or under way. With `Placed` and `Serving` it gives `TestIsWhole`.
- `Success`: `DISPLAY_RESULTS` is only heard by, or under way to, a client in `served`; it is
  `CompletedMeansServed` before the client has returned.
- `InOrder`: the messages to a client that still listens follow each other from the last it
  heard (`Chain`), and the two sides talk in turns: while an answer is under way nothing else is
  (`Told`, `Answers`). What a client reads next is therefore what its state calls for, which is
  what `ClientIsEngine` asks, and that a parameter or result is never read as a state.

`Harmless` is preserved next to it: a server nobody disturbs goes on, and a client nobody
disturbs is told of no error and loses no connection it was let in with. Its proof uses that
`ServerDeniesStream` cleans up only when a type of service is set, which is what `control_tos`
reports.

`ExchangeProofs` proves `HeardIsSent`, `RefusalIsTold`, `SameTest` and `OptionsCommute` for any
setups of the two sides, any size of the file of `-F`, any MSS the kernel may report and any sizes of integers and
messages (`SetupsAssumption`, `WorldAssumption`, `SizesAssumption`). It rests on four
invariants.

`Conversation` relates bytes to messages. A message has a `Code`, and `Coded(b, q)` says that
the bytes `b` are the codes of the messages `q`, one after the other; `CodedAppend` and
`CodedHead` say what writing at one end and reading at the other does to it. Its parts:

- `ChannelTypes`, `ControlTypes`, `Quiet`, `Fresh`: types; a buffer has no more than is wanted
  and is empty outside a read; nothing is on the connection before the client connects.
- `ServerSays`, `ClientSays`: what a side has said is the beginning of its script, then errors
  (a server may report two: `RefusesRate` and `CleansUp`) or `IPERF_DONE`.
- `ServerPlace`, `ClientPlace`: where a side is in its code tells how much of both scripts has
  been said and heard. From it follows that a side only ever waits for what comes next.
- `Prefix`, `Streams`: what was heard is the beginning of what was said, and what is in the
  buffer and on the wire of a side that still listens codes the rest.

The step that needs all of them is a side reading one byte as a state or a whole message: the
rest of the stream begins with a message, by `ClientPlace` or `ServerPlace` it is the one
expected, so as many bytes are read as it has. A read that is cut short ends the conversation,
so what is left of a message is never read as another.

`Refusals` adds what a client needs to learn its server's error. The server reports at most one:
its own or, from `server_timer_proc`, that the test has expired (`ServerErrs`, `Reason`; `Codes` are
those it has reported). While nothing is late, nobody but such a server has reset the connection
(`Unreset`, `Cut`), and without a reset a read ends early only at the end of the stream (`EndsAt`); a
server with an error has written it before it shuts the connection (`SaysWhy`), unless its
`cleanup_server` came before `i_errno` was set, in which case it has reported nothing at all
(`Untold`); and one that a client waits on for results sends them or has an error
(`SaysResults`). Hence the client's own error is the server's, or of its own making, or the server
has gone without a word (`IsTold`). `RefusalsHold` is this invariant, `RefusalsAreTold` what
follows: a reported error is the one the client fails with, but for the reset of an expired test.

`Setting` follows the two tests from their defaults to the exchange: while options are read a
test keeps `Parsing` (its mode is that of role and direction, nothing of a client is set on a
server, only `-t` sets the time), the checks behind the loop or an app's setters make it
`ClientReady` or `ServerReady`, and once `CREATE_STREAMS` has been said `OneTest` holds: the
server has adopted what the client sent and has not refused it. `Setting` needs `Conversation`:
that the parameters the server stores are those of a client that is set up, and that a client
hears `CREATE_STREAMS` only after the server said it. The lemmas of `TestOptionsProofs` say this
of each operator: one for every kind of option (`TakesKeeps`), the checks (`CheckedIs`), the
setters (`PreparedIs`), the connected MSS (`MssKeeps`), and adopting parameters (`AdoptedIs`).
That a server is set up by options of a server alone is not assumed but follows from
`ClientMarked` and the check that refuses options of the other side. `SameTest` compares the
settings of segmentation offload only for UDP tests, where they are used.

`Ordered` says what a test is while its line is read, whatever was taken first: `IsOf(T, t)`
describes the test `t` of a set of options `T` without their order. It is refused just if one of
`T` is bad by itself or `T` has both of `-s` and `-c` or of `-R` and `--bidir`; otherwise every
option's fields are set, all others are as in a new test, and role, direction and mode are those
of the names in `T` (`RoleOf`, `ModeOf`). `StepIsOf` preserves it: an option other than those four
is `Plain`, that is refused in every test or setting the same fields in each (`PlainStep`), and
those four are gone through one by one (`TurnStep`). Two tests of the same options are alike
(`OfIsOne`), and the fold of `OptionsCommute` gives one of them (`FoldedIsOf`, an induction over
the subsets), so what is checked behind the loop is the same. `OptionsCommute` is about lines that
give no option twice: of two values for one field the later wins, as with `-S` and `--dscp`.

`UdpStreamProofs` proves every invariant of `udp_stream`, for any number of streams,
packets, sends of a call, looks for a reply and duplicates (`NumStreamsAssumption`,
`TestsAssumption`, `LimitsAssumption`). Its `IInv` has these parts:

- `Typed`: types, in particular that no counter is negative. It needs that a call of
  `iperf_send_mt` under way has sends left.
- `SenderCountsWhatItSends`: a counter is ahead of the packets sent by the one in hand.
- `Handshake`: `PairedStreams` together with what handshake datagrams may be under way. Without
  duplicates a message is only of a stream not accepted, a reply only of one not confirmed;
  with them, of one already there, which the listener never sees.
- `Packets`: what is under way has been sent; and while nothing was duplicated, no number
  is counted, in hand and in the network at the same time.
- `Losses`: between its two updates of a packet a receiver's loss counter is `Ahead` by the
  gap; otherwise it is the number of packets missing up to the highest. The step that takes
  a loss back needs `Packets`: an older number that was not counted is one of the missing.
- `Omissions`, `Received`, `ResultsFit`: what the omitted part left, how many packets the
  bytes stand for, and that results the server has sent fit what the client still counts.
  From these follows `ReportAddsUp`.

The lemmas about `Upto` give the cardinalities of the sets of numbers, from `FiniteSetTheorems`.

`ReportingProofs` proves every invariant of `reporting`, for any tests, number of streams,
number of sends of a call, lag and horizon (`TestsAssumption`, `LimitsAssumption`). There is
one invariant for each property, which rests on those before it:

- `Loop`: the list of timers is `Good` (sorted, each name once) however callbacks cancel timers
  (`CancelIs`, `CancelHas`) or queue them again (`InsertIs`, `InsertHas`, `ResortHas`). `Turns`:
  the two pointers of `tmr_run` are in the list, and where the loop is in the callback of the
  statistics. `Pair`: the timer of the statistics stands directly before that of the reporter, at
  one time, but while the first has fired and the other has not (`Ahead`). It is the reason why
  no interval is lost: list_add puts a timer behind those of its time (`InsertPair`), and the end
  of the omitted part resets the two in the order in which they have to stand (`PairIsReset`).
- `Data`: types and `ThreadOK`; `Lengths`: how far the callback has come with the streams of this
  round (`Fresh`), and that the reporter is at most one interval behind (`Handled`).
- `Reported`: what has been handled is printed once, or was short and empty. With `Pair` it gives
  `EveryIntervalIsReported`.
- `Ring`: from its place backwards the ring holds the last totals, the rest is zero, so what
  `iperf_check_total_rate` adds up is the traffic of the last window (`RecentIs`, `Slot`).
- `Paced`: what a thread has sent and may still send before it looks at the clock again, where it
  is in its call: it starts a call only when not ahead (`green`), sleeps until its blocks are due
  (`RoundedUp`), and a call has at most a burst.
- `Blocks`: blocks sent are those of the counter all threads share plus one of each that has not
  added its own yet (`Credit`). Once the number is reached each thread may add what is left of its
  call (`Quota`); the bound of two a thread needs both.
- `Marks`, `Balance`: intervals are omitted just until the omitted part ends. The counter of a
  stream and its interval's are read, added and cleared in steps of their own; `Balanced` says what
  each stream's intervals, what the callback holds (`temp`) and what a thread is between the
  two updates of (`Counting`) add up to.
- `Prints`: the lines printed add up to no more than the intervals handled, and the summary is that of
  the counters at the end. These give `IntervalsAddUp`.

A step of a thread changes one stream (`ThreadMoves` lists how), and of the other steps only the
end of the omitted part and the callback change the threads' counters (`ThreadsLeft`,
`RestartIs`, `ClearIs`). The section on sums proves what the folds of `Functions` compute: the sum
over a set with one element more, of sums, of equal or bounded summands (`SumMore`, `SumAdds`,
`SumAtMost`). It goes by induction on the number of elements. The library's induction rules take
an operator as a parameter; `FiniteInduction` takes the set of the sets for which a claim
holds instead, and rests on the well-foundedness of `<` on the natural numbers.

The proofs corrected the model in one point. `KeepsToLimits` bounded by the rate what any stream
had moved, also a receiver's, which is only true when its sender keeps to the same rate; it is now
about senders. `Cancel`, `CountsTest` and the sums were restated without changing what they say:
`tmr_cancel` removes one place of the list, which is what `list_remove` does, and sums are over
functions.

The end of `ReportingProofs` proves of `IperfTime` that comparison, difference and addition of instants are those of the
microseconds they stand for, of any `Million` and any word width that holds two seconds
of them (`Clock`, a hypothesis of each theorem; a `uint32_t` and 1,000,000 satisfy it). No run has
`IperfTime`, since nothing in it takes steps.

`DescriptorsProofs` proves `LeaksAreKnown`, `ClosesOwn` and the action property `FailureReleases`
for any tests, number of streams, number of descriptors and of descriptors of other threads
(`TestsAssumption`, `BoundsAssumption`). The state of `Descriptors` has the calls that are left, so
the invariant is about sequences of calls. `Leads(p, g, calls, e)` is an outline of one, as in a
proof of a program: what is known before it, `g`, what is known after it, `e`, and for each call
that what is known before it allows the call and yields what is known after it (`Step`).
Outlines are composed: of one call (`LeadsOne`), one sequence after the other (`LeadsOn`,
`LeadsFirst` takes them apart again), a call on a condition (`LeadsIf`), and the loops over the
streams (`LeadsLoop`). There are two kinds of knowledge, each with its invariant:

- `Keeps`, a `Ghost`: variables that between them hold every descriptor of the test that is not
  known to be lost (`kept`), and every one the running function opened (`new`); which lists may be
  held or freed. A call that may fail asks that what it releases leaves nothing behind but what
  `LeftBy` says, and nothing of a function of `Tidy` (`MayFail`). `KInv` says that the calls that
  are left have such an outline, that it fits the descriptors that are open, and that it ends in
  what the place the client or server has reached asks for (`Post`); descriptors no variable
  holds are no more than the failures so far leave (`Fits`). `KeepsIsInvariant` gives
  `LeaksAreKnown` and `FailureReleases`.
- `Owns`, `Marks`: which variables hold a descriptor of the test or none, no two the same
  (`good`) except a known pair (`twins`: the TCP listener has two names while streams are accepted,
  three inside `iperf_tcp_listen`); which may hold a number that was closed, and that another
  thread may have been given, but not that of a good variable of the `Core`, those that are
  closed only at the very end (`safe`); which hold a number that is not the test's any more
  (`gone`, the socket of a refused client). `Closes` is what a `close` asks: its variable is good,
  or the place is one that `ClosesOwn` exempts (`Spared`). `Must`, `Spare` and `Twins` say what is
  known between the sequences, where the marks are weaker the more has been closed. `OInv` holds as
  long as `Stolen` does not occur, and rests on `KInv` (`OwnsIsInvariant`).

Neither property is inductive, since what a later call may close depends on every call before it.
For each kind of call one lemma says that `Succeeds` and `Fails` keep the invariant
(`SucceedsKeeps`, `FailsKeeps`, `SucceedsOwns`, `FailsOwns`), whatever the sequence; and one lemma
for each function and each phase gives its outline (`NetdialKeeps`, `TcpListenOwns`,
`CleanUpOwns`, ...). What other threads do changes no descriptor of the test (`OthersKeep`,
`OthersOwn`). The counting of `LeaksAreKnown` goes by `LossCounts`: what one failure loses is at most
what `LeftBy` adds, and `InPhase` says that after one failure nothing but the client's last message
can fail.

The proofs corrected two points of `Descriptors`. Leaving a function cleared the lists, so that a
list that was never freed went unnoticed; it now keeps one that is held, and `LeaksAreKnown` asks
that there is none. And `LeaksAreKnown` added up what each failed function leaves, counting the
stream's socket several times over; it now allows one descriptor for each different variable.

TLC has checked each of these inductive invariants as an invariant of the instance of its run,
with two exceptions. `Ordered` chooses what an option sets among all functions, and the outlines
of `KInv` and `OInv` are found by the proofs and not by enumeration; of these TLC has checked what
`Post`, `Must`, `Spare` and `Twins` say of the states between the sequences.

Only model-checked:

- Liveness, which is out of the prover's reach, as is anything about ENABLED: `DeliveredStopEnds`,
  `ClientSettles`, `StopSettles`, the progress of the control protocol and the ends of the tests
  and of the conversation (`TestEnds`, `ExchangeEnds`).
- That every mutant is told from the code.

## Not modelled

- `iperf_auth.c`, `iperf_sctp.c` are compiled out (`HAVE_SSL`, `HAVE_SCTP_H` undefined), and
  so are congestion control, affinity and flow labels; `TestOptions` refuses their options as
  the build does. Segmentation offload is compiled out too, but `--gsro` is taken, stored and
  sent all the same, which `TestOptions` follows. `cjson.c` is a third-party library.
- Bidirectional tests beyond their options and parameters, `sendfile`, skipped receive
  copies and the disk file's contents.
- The jitter of UDP streams, the two layouts of their header (32 and 64 bit counters), and
  the printing of results: what is printed is modelled as far as sums and counts go.
- `iperf_reset_test`, `tmr_destroy` and `tmr_cleanup`, which nothing in `src/` calls.
- The effect of a descriptor that is used before it is set: an interrupt before
  `iperf_defaults` on iOS writes a byte to descriptor 0. `Descriptors` has the other cases.
- The report a server prints when its client sends `CLIENT_TERMINATE`
  (`iperf_server_api.c:299-318`): it calls the reporter in `DISPLAY_RESULTS` without new
  statistics. Nothing in `src/` sends that state: `iperf_got_sigend`, the only sender, has no
  caller there. A foreign client may send it.
- Options whose number is stored as an unsigned one (sizes, rates) with a negative number, whose
  conversion from `double` is undefined; `SetupsAssumption` leaves them out.
- Which error is in `i_errno` when several threads have written it; every module takes an
  arbitrary one. A short write after `EINTR`. An `iperf_json_finish` that runs out of
  memory, which skips `cleanup_server`.
- Argument checks of the bridge that the runtime has already made, the fields and layout of
  screens, navigation and preferences: sequential code on lists and key-value stores that
  unit tests reach.
- Error texts, locale, TCP info: tables and reads of kernel statistics without state.

## Plan

Done: both sessions with their engine and proofs; the control protocol with proofs; options, parameters
and the control connection with proofs; UDP streams with proofs; timers, statistics and limits with
proofs; descriptors with proofs; instants. Left, in this order:

1. An abstract specification `TestProtocol`, the phases both ends of a test agree on,
   implemented by `IperfControl`; the server shown to be a server of `IperfEngine`.
2. `StreamThreads`: worker threads, cancellation and join around `iperf_free_test`, with
   the process-wide `i_errno` and the order in which its writers reach it.
3. Bidirectional tests in `Reporting` and `UdpStream`; the jitter as integer arithmetic.
4. View models: action errors over the session runtime.
