------------------------------ MODULE Reporting ------------------------------
(***************************************************************************)
(* One side of a running test: the threads of its streams that count what  *)
(* they send or receive, the ordered list of timers the control loop runs, *)
(* and the callbacks of these timers, which end the omitted part, collect  *)
(* an interval, report it, average it against a server's bitrate limit and *)
(* end the test.                                                           *)
(*                                                                         *)
(* The control loop and the threads share the counters without a lock; a   *)
(* thread's steps and those of the statistics callback end where another   *)
(* may look.  Data is counted in blocks, time in ticks.                    *)
(***************************************************************************)
EXTENDS Integers, Sequences, SequencesExt, FiniteSetsExt

CONSTANTS
  Tests,      \* the tests: see TestsAssumption
  Multisend,  \* sends of one call of iperf_send_mt without a rate or a burst
  Grace,      \* how much longer than the test a server waits for its end
  Second,     \* ticks of a second
  DataUntil,  \* bound: the last tick in which blocks are sent, received and counted
  MaxLag,     \* bound: ticks the control loop is late
  Horizon     \* bound: the last tick

ASSUME TestsAssumption ==
  Tests \subseteq
    [role : {"client", "server"},
     sends : BOOLEAN,      \* the streams of this side send
     streams : Nat \ {0},
     omit : Nat,           \* ticks whose results are left out
     duration : Nat,       \* ticks, 0 for no limit
     interval : Nat,       \* ticks between two collections and reports, 0 for none
     blocks : Nat,         \* blocks to transmit, 0 for no limit
     rcv : Nat \ {0},      \* ticks without data a receiver waits
     rate : Nat, burst : Nat,         \* blocks a tick for each stream, 0 for no limit
     limit : Nat, window : Nat \ {0}, \* a server's limit, over that many intervals
     cap : Nat]            \* bound: blocks of one stream

ASSUME LimitsAssumption ==
  Multisend \in Nat \ {0} /\ Grace \in Nat /\ Second \in Nat \ {0} /\ DataUntil \in Nat
  /\ MaxLag \in Nat /\ Horizon \in Nat

Names == {"test", "stats", "report", "omit"}
NoTimer == "none"

VARIABLES
  params,    \* the test
  now,       \* the time
  timers,    \* the active timers, first to fire first
  pc,        \* where the control loop is
  deadline,  \* when its select returns
  lastBlocks, lastTime,  \* the received blocks it has seen, and when
  clock,     \* the time tmr_run compares with
  cur, next, \* the timer it looks at, and the one it has saved to look at after that
  stream,    \* the stream the statistics callback looks at
  temp,      \* what it has read of that stream
  total,     \* what it has read of all streams
  state,     \* running, ended (TEST_END), reported, failed
  done,      \* test->done
  omitting,  \* test->omitting
  blocks,    \* test->blocks_sent or test->blocks_received
  str,       \* per stream: its thread and its counters
  ivals,     \* per stream: the intervals in order (result->interval_results keeps the last)
  since,     \* per stream: when its next interval starts
  printed,   \* history: the intervals the reporter has printed, with the sum of their blocks
  summary,   \* what it has printed of the whole test in the end
  ring,      \* the traffic of the last intervals
  ringIndex, statsCount, exceeded,
  totals     \* history: the traffic of all intervals

timerVars == <<timers, clock, cur, next>>
waitVars == <<deadline, lastBlocks, lastTime>>
statsVars == <<stream, temp, total, ivals, since>>
reportVars == <<printed, summary>>
limitVars == <<ring, ringIndex, statsCount, exceeded, totals>>
threadVars == <<str, blocks>>
testVars == <<state, done, omitting>>
vars == <<params, now, timerVars, pc, waitVars, statsVars, testVars, threadVars, reportVars, limitVars>>

Streams == 1..params.streams
-----------------------------------------------------------------------------
(* The list of timers.                                                     *)

Timer(name, at) == [name |-> name, at |-> at]

Active(list) == {list[k].name : k \in DOMAIN list}
Place(list, name) == CHOOSE k \in DOMAIN list : list[k].name = name
At(list, name) == list[Place(list, name)].at

BeforeEqual(list, t) == \* mutant
  LET later == {k \in DOMAIN list : list[k].at >= t.at}
  IN InsertAt(list, IF later = {} THEN Len(list) + 1 ELSE Min(later), t)

\* list_add: before the first timer that is later, so after those of the same time.
Insert(list, t) ==
  LET later == {k \in DOMAIN list : list[k].at > t.at}
  IN InsertAt(list, IF later = {} THEN Len(list) + 1 ELSE Min(later), t)

\* list_remove, tmr_cancel.
Cancel(list, name) == IF name \in Active(list) THEN RemoveAt(list, Place(list, name)) ELSE list

InPlace(list, name, at) == \* mutant
  [k \in DOMAIN list |-> IF list[k].name = name THEN Timer(name, at) ELSE list[k]]

\* list_resort of a timer that has got a new time.
Resort(list, name, at) == Insert(Cancel(list, name), Timer(name, at))

\* tmr_reset, for a timer the test has.
Reset(list, name, at) == IF name \in Active(list) THEN Resort(list, name, at) ELSE list

Successor(list, name) ==
  LET k == Place(list, name) IN IF k = Len(list) THEN NoTimer ELSE list[k + 1].name

\* create_client_timers, create_server_timers, and then that of the omitted part.
CreateTimers(p) ==
  LET add(list, wanted, name, at) == IF wanted THEN Insert(list, Timer(name, at)) ELSE list
      test == add(<<>>, p.duration # 0, "test",
                  p.duration + p.omit + (IF p.role = "server" THEN Grace ELSE 0))
      stats == add(test, p.interval # 0, "stats", p.interval)
      report == add(stats, p.interval # 0, "report", p.interval)
  IN add(report, p.omit # 0, "omit", p.omit)

NewStream == [pc |-> "idle", left |-> 0, sent |-> FALSE, green |-> TRUE, until |-> 0,
              bytes |-> 0, omitted |-> 0, interval |-> 0]

NoSummary == -1

Never == Horizon + 1

\* How long select waits: until the first timer; a side that receives takes its idle
\* timeout instead when there is no timer, or when the wait (of which no more than a second
\* is looked at) exceeds it.
Deadline(list) ==
  LET wait == Max({0, list[1].at - now})
  IN IF params.sends THEN (IF list = <<>> THEN Never ELSE now + wait)
     ELSE IF list = <<>> \/ Min({wait, Second}) > params.rcv THEN now + params.rcv
     ELSE now + wait

Init ==
  /\ params \in Tests
  /\ now = 0
  /\ timers = CreateTimers(params)
  /\ pc = "select" /\ deadline = Deadline(timers) /\ lastBlocks = 0 /\ lastTime = 0
  /\ clock = 0 /\ cur = NoTimer /\ next = NoTimer
  /\ stream = 1 /\ temp = 0 /\ total = 0
  /\ state = "running" /\ done = FALSE
  /\ omitting = (params.omit # 0)
  /\ blocks = 0
  /\ str = [i \in Streams |-> NewStream]
  /\ ivals = [i \in Streams |-> <<>>]
  /\ since = [i \in Streams |-> 0]
  /\ printed = <<>> /\ summary = NoSummary
  /\ ring = [k \in 0..params.window - 1 |-> 0]
  /\ ringIndex = 0 /\ statsCount = 0 /\ exceeded = FALSE
  /\ totals = <<>>

\* Time passes; the control loop is at most MaxLag late, to wake and to come to its next wait.
Tick ==
  /\ state = "running" /\ now < Horizon
  /\ now < MaxLag + IF pc = "select" THEN deadline ELSE clock
  /\ now' = now + 1
  /\ UNCHANGED <<params, timerVars, pc, waitVars, statsVars, testVars, threadVars, reportVars, limitVars>>
-----------------------------------------------------------------------------
(* The control loop: iperf_run_client, iperf_run_server while the test runs.  *)

\* Select returns because its time is over.  A receiver that has not got a block since the
\* loop last saw one gives up.  (The clock is read after the wait: more than a whole number
\* of ticks has passed.)
Stalled == ~params.sends /\ now - lastTime >= params.rcv /\ blocks = lastBlocks

Progress ==
  IF ~params.sends /\ blocks > lastBlocks THEN lastBlocks' = blocks /\ lastTime' = now
                                        ELSE UNCHANGED <<lastBlocks, lastTime>>

SelectReturns ==
  /\ state = "running" /\ pc = "select" /\ now >= deadline
  /\ IF Stalled
       THEN state' = "failed" /\ UNCHANGED <<pc, timerVars, lastBlocks, lastTime>>
       ELSE /\ Progress
            /\ pc' = "run" /\ clock' = now
            /\ cur' = IF timers = <<>> THEN NoTimer ELSE timers[1].name
            /\ UNCHANGED <<timers, next, state>>
  /\ UNCHANGED <<params, now, deadline, statsVars, done, omitting, threadVars, reportVars, limitVars>>

Due == cur # NoTimer /\ At(timers, cur) <= clock

\* tmr_run is over when no timer is left or the next one is not due.
RunEnds ==
  /\ pc = "run" /\ ~Due
  /\ pc' = "check" /\ cur' = NoTimer /\ next' = NoTimer
  /\ UNCHANGED <<params, now, timers, clock, waitVars, statsVars, testVars, threadVars, reportVars, limitVars>>

\* tmr_run saves the timer that follows, calls the procedure, and cancels or requeues the timer.
Fires(name) ==
  /\ pc = "run" /\ cur = name /\ Due
  /\ next' = Successor(timers, name)

Requeued(list, name) == Resort(list, name, At(list, name) + params.interval)

\* test_timer_proc; server_timer_proc, which ends the test by itself.
TestTimer ==
  /\ Fires("test")
  /\ done' = TRUE
  /\ state' = IF params.role = "server" /\ ~done THEN "failed" ELSE state
  /\ timers' = Cancel(timers, "test") /\ cur' = next'
  /\ UNCHANGED <<params, now, clock, pc, waitVars, statsVars, omitting, threadVars, reportVars, limitVars>>

KeepsInterval(t) == IF params.sends THEN [t EXCEPT !.omitted = t.bytes] ELSE [t EXCEPT !.bytes = 0] \* mutant

\* iperf_reset_stats of a stream.
ResetStats(t) ==
  IF params.sends THEN [t EXCEPT !.omitted = t.bytes, !.interval = 0]
                  ELSE [t EXCEPT !.bytes = 0, !.interval = 0]

\* client_omit_timer_proc, server_omit_timer_proc: only what was sent starts again from zero.
\* (The lists between are bound so that TLC evaluates each of them once.)
OmitTimer ==
  /\ Fires("omit")
  /\ omitting' = FALSE
  /\ str' = [i \in Streams |-> ResetStats(str[i])]
  /\ blocks' = IF params.sends THEN 0 ELSE blocks
  /\ LET at == clock + params.interval
     IN \E first \in {Reset(timers, "stats", at)} : \E both \in {Reset(first, "report", at)} :
          timers' = Cancel(both, "omit")
  /\ cur' = next'
  /\ since' = [i \in Streams |-> IF ivals[i] = <<>> THEN now ELSE since[i]]
  /\ UNCHANGED <<params, now, clock, pc, waitVars, stream, temp, total, ivals, state, done, reportVars, limitVars>>

\* client_stats_timer_proc, server_stats_timer_proc: nothing more once the test is done.
StatsTimer ==
  /\ Fires("stats")
  /\ IF done THEN timers' = Requeued(timers, "stats") /\ cur' = next' /\ UNCHANGED <<pc, stream, total>>
             ELSE pc' = "temp" /\ stream' = 1 /\ total' = 0 /\ UNCHANGED <<timers, cur>>
  /\ UNCHANGED <<params, now, clock, waitVars, temp, ivals, since, testVars, threadVars, reportVars, limitVars>>

\* iperf_print_intermediate: the last interval of the streams, unless there is none or it is
\* empty for all of them and shorter than a tenth of an interval; whether the fraction of a
\* tick that is not modelled makes a short one long enough is left open.
Counts(i) == ivals[i] # <<>> /\ (Last(ivals[i]).bytes > 0 \/ ~Last(ivals[i]).short)

Keeps ==
  IF \E i \in Streams : Counts(i) THEN {TRUE}
  ELSE IF ivals[1] = <<>> THEN {FALSE} ELSE BOOLEAN

\* print_interval_results: a line for each stream.
IntervalLine(i) == Last(ivals[i]).bytes

IntervalSum == SumFunction([i \in Streams |-> IntervalLine(i)])

PrintIntermediate ==
  \E kept \in Keeps :
    printed' = IF kept THEN Append(printed, [interval |-> Len(ivals[1]), bytes |-> IntervalSum])
                       ELSE printed

\* client_reporter_timer_proc, server_reporter_timer_proc.
ReportTimer ==
  /\ Fires("report")
  /\ IF done THEN UNCHANGED printed ELSE PrintIntermediate
  /\ timers' = Requeued(timers, "report") /\ cur' = next'
  /\ UNCHANGED <<params, now, clock, pc, waitVars, statsVars, testVars, threadVars, summary, limitVars>>
-----------------------------------------------------------------------------
(* iperf_stats_callback, called by its timer (cur = "stats") and at the end of the test.  *)

StatsReads ==
  /\ pc = "temp"
  /\ temp' = str[stream].interval
  /\ pc' = "total"
  /\ UNCHANGED <<params, now, timerVars, waitVars, stream, total, ivals, since, testVars, threadVars, reportVars, limitVars>>

StatsTotals ==
  /\ pc = "total"
  /\ total' = total + str[stream].interval
  /\ ivals' = [ivals EXCEPT ![stream] =
       Append(@, [bytes |-> temp, omitted |-> omitting,
                  short |-> 10 * (now - since[stream]) < params.interval])]
  /\ since' = [since EXCEPT ![stream] = now]
  /\ pc' = "zero"
  /\ UNCHANGED <<params, now, timerVars, waitVars, stream, temp, testVars, threadVars, reportVars, limitVars>>

Traffic(r) == SumFunction(r)

EarlyAverage(r, n) == Traffic(r) > params.limit * params.window * params.interval \* mutant

\* iperf_check_total_rate: once there are enough intervals, their average.
OverLimit(r, n) == n >= params.window /\ Traffic(r) > params.limit * params.window * params.interval

CheckTotalRate ==
  IF params.role = "server" /\ ~done /\ params.limit # 0
    THEN LET k == IF ringIndex + 1 >= params.window THEN 0 ELSE ringIndex + 1
         IN /\ ringIndex' = k
            /\ ring' = [ring EXCEPT ![k] = total]
            /\ statsCount' = statsCount + 1
            /\ exceeded' = (exceeded \/ OverLimit(ring', statsCount'))
            /\ totals' = Append(totals, total)
    ELSE UNCHANGED limitVars

\* After the last stream the callback returns to tmr_run, or to the end of the test, which
\* sends or answers TEST_END.
StatsZeroes ==
  /\ pc = "zero"
  /\ str' = [str EXCEPT ![stream].interval = 0]
  /\ IF stream < params.streams
       THEN pc' = "temp" /\ stream' = stream + 1 /\ UNCHANGED <<timerVars, state, limitVars>>
       ELSE /\ CheckTotalRate
            /\ UNCHANGED stream
            /\ IF cur = "stats"
                 THEN /\ pc' = "run" /\ timers' = Requeued(timers, "stats") /\ cur' = next
                      /\ UNCHANGED <<clock, next, state>>
                 ELSE pc' = "end" /\ state' = "ended" /\ UNCHANGED timerVars
  /\ UNCHANGED <<params, now, waitVars, temp, total, ivals, since, done, omitting, blocks, reportVars>>
-----------------------------------------------------------------------------
(* The end of the test.                                                    *)

LimitReached == params.blocks # 0 /\ blocks >= params.blocks

OnlyTime == ~omitting /\ done \* mutant

\* A client is done when it is out of the omitted part and its time is over or enough is
\* transmitted.
EndReached == ~omitting /\ (done \/ LimitReached)

LastStats(list) ==
  /\ done' = TRUE
  /\ pc' = "temp" /\ stream' = 1 /\ total' = 0
  /\ str' = list
  /\ UNCHANGED <<temp, ivals, since>>

\* After the timers: the end, with the sending threads stopped first, or the next turn.
\* A server's turn begins with its look at the bitrate limit.
Check ==
  /\ pc = "check" /\ state = "running"
  /\ IF params.role = "client" /\ EndReached
       THEN /\ LastStats([i \in Streams |-> IF params.sends THEN [str[i] EXCEPT !.pc = "off"] ELSE str[i]])
            /\ UNCHANGED <<deadline, state>>
       ELSE /\ state' = IF exceeded THEN "failed" ELSE state
            /\ pc' = "select" /\ deadline' = Deadline(timers)
            /\ UNCHANGED <<statsVars, done, str>>
  /\ UNCHANGED <<params, now, timerVars, lastBlocks, lastTime, omitting, blocks, reportVars, limitVars>>

\* A server reads TEST_END.
ServerReadsTestEnd ==
  /\ params.role = "server" /\ pc = "select" /\ state = "running"
  /\ LastStats(str)
  /\ UNCHANGED <<params, now, timerVars, waitVars, state, omitting, blocks, reportVars, limitVars>>

\* iperf_print_results: what was sent or received, without what was sent in the omitted part.
Summary(i) == str[i].bytes - str[i].omitted

SummaryTotal == SumFunction([i \in Streams |-> Summary(i)])

\* iperf_reporter_callback of a test that has ended: the last interval and the summary.
FinalReport ==
  /\ pc = "end" /\ state = "ended"
  /\ state' = "reported"
  /\ PrintIntermediate /\ summary' = SummaryTotal
  /\ UNCHANGED <<params, now, timerVars, pc, waitVars, statsVars, done, omitting, threadVars, limitVars>>
-----------------------------------------------------------------------------
(* The threads of the streams.                                             *)

loopVars == <<params, now, timerVars, pc, waitVars, statsVars, testVars, reportVars, limitVars>>

ThreadAt(i, at) == state \in {"running", "ended"} /\ str[i].pc = at

SendsPerCall ==
  IF params.burst # 0 THEN params.burst ELSE IF params.rate = 0 THEN Multisend ELSE 1

\* iperf_client_worker_run, iperf_server_worker_run: one more call of iperf_send_mt.
StartsCall(i) ==
  /\ params.sends /\ ThreadAt(i, "idle") /\ ~done
  /\ str' = [str EXCEPT ![i].pc = "send", ![i].left = SendsPerCall, ![i].sent = FALSE]
  /\ UNCHANGED <<loopVars, blocks>>

Unlimited(left) == FALSE \* mutant

\* A call that has more than one send left stops when enough is transmitted.
StopsSending(left) == left > 1 /\ LimitReached

SendEnds(t) == ~t.green \/ t.left = 0 \/ StopsSending(t.left)

\* A send adds to the counter of the stream, then to that of its interval, then to the test's.
Sends(i) ==
  /\ params.sends /\ ThreadAt(i, "send") /\ ~SendEnds(str[i])
  /\ str[i].bytes < params.cap /\ now <= DataUntil
  /\ str' = [str EXCEPT ![i].pc = "counting", ![i].bytes = @ + 1]
  /\ UNCHANGED <<loopVars, blocks>>

\* A receiver counts what comes while the test runs.
Receives(i) ==
  /\ ~params.sends /\ ThreadAt(i, "idle") /\ state = "running"
  /\ str[i].bytes < params.cap /\ now <= DataUntil
  /\ str' = [str EXCEPT ![i].pc = "counting", ![i].bytes = @ + 1]
  /\ UNCHANGED <<loopVars, blocks>>

CountsInterval(i) ==
  /\ ThreadAt(i, "counting")
  /\ str' = [str EXCEPT ![i].pc = "counted", ![i].interval = @ + 1]
  /\ UNCHANGED <<loopVars, blocks>>

PerMessage == params.rate # 0 /\ params.burst = 0

CountsTest(i) ==
  /\ ThreadAt(i, "counted") /\ now <= DataUntil
  /\ blocks' = blocks + 1
  /\ LET t == str[i]
     IN str' = [str EXCEPT ![i] =
          IF params.sends
            THEN [t EXCEPT !.pc = IF PerMessage THEN "throttle" ELSE "send", !.left = @ - 1, !.sent = TRUE]
            ELSE [t EXCEPT !.pc = "idle"]]
  /\ UNCHANGED loopVars

\* The throttle is looked at after each send, or after the call.
CallEnds(i) ==
  /\ params.sends /\ ThreadAt(i, "send") /\ SendEnds(str[i])
  /\ str' = [str EXCEPT ![i].pc =
       IF params.rate # 0 /\ (params.burst # 0 \/ ~str[i].sent) THEN "throttle" ELSE "idle"]
  /\ UNCHANGED <<loopVars, blocks>>

AfterThrottle(t) == IF params.burst = 0 /\ t.sent THEN "send" ELSE "idle"

\* iperf_check_throttle: the average rate since the start decides whether the stream may
\* send; above the rate, the thread sleeps until the average is back at it.
Throttles(i) ==
  /\ ThreadAt(i, "throttle")
  /\ LET due == params.rate * now
         t == str[i]
     IN str' = [str EXCEPT ![i] =
          IF done THEN [t EXCEPT !.pc = AfterThrottle(t)]
          ELSE IF t.bytes <= due THEN [t EXCEPT !.pc = AfterThrottle(t), !.green = t.bytes < due]
          ELSE [t EXCEPT !.pc = "sleep", !.green = FALSE,
                         !.until = (t.bytes + params.rate - 1) \div params.rate]]
  /\ UNCHANGED <<loopVars, blocks>>

\* nanosleep is over, or interrupted.
Wakes(i) ==
  /\ ThreadAt(i, "sleep")
  /\ \E green \in {now >= str[i].until, FALSE} :
       str' = [str EXCEPT ![i].pc = AfterThrottle(str[i]), ![i].green = green]
  /\ UNCHANGED <<loopVars, blocks>>

Thread(i) ==
  \/ StartsCall(i) \/ Sends(i) \/ Receives(i) \/ CountsInterval(i) \/ CountsTest(i)
  \/ CallEnds(i) \/ Throttles(i) \/ Wakes(i)

ControlLoop ==
  \/ SelectReturns \/ RunEnds \/ TestTimer \/ OmitTimer \/ StatsTimer \/ ReportTimer
  \/ StatsReads \/ StatsTotals \/ StatsZeroes \/ Check \/ FinalReport

Next == Tick \/ ControlLoop \/ ServerReadsTestEnd \/ \E i \in Streams : Thread(i)

Spec == Init /\ [][Next]_vars

\* Time goes on, and select wakes the control loop.  Nothing is assumed of the threads, of
\* the network or of the other side.
FairSpec == Spec /\ WF_vars(Tick) /\ WF_vars(ControlLoop)
-----------------------------------------------------------------------------
TypeOK ==
  /\ params \in Tests
  /\ now \in 0..Horizon /\ clock \in 0..Horizon
  /\ timers \in Seq([name : Names, at : Nat])
  /\ pc \in {"select", "run", "temp", "total", "zero", "check", "end"}
  /\ deadline \in Nat /\ lastBlocks \in Nat /\ lastTime \in 0..Horizon
  /\ stream \in Streams /\ temp \in Nat /\ total \in Nat
  /\ state \in {"running", "ended", "reported", "failed"}
  /\ done \in BOOLEAN /\ omitting \in BOOLEAN /\ blocks \in Nat
  /\ str \in [Streams -> [pc : {"idle", "send", "counting", "counted", "throttle", "sleep", "off"},
                          left : Nat, sent : BOOLEAN, green : BOOLEAN, until : Nat,
                          bytes : Nat, omitted : Nat, interval : Nat]]
  /\ \A i \in Streams : ivals[i] \in Seq([bytes : Nat, omitted : BOOLEAN, short : BOOLEAN])
  /\ since \in [Streams -> 0..Horizon]
  /\ printed \in Seq([interval : Nat, bytes : Nat]) /\ summary \in Nat \cup {NoSummary}
  /\ ring \in [0..params.window - 1 -> Nat] /\ ringIndex \in 0..params.window - 1
  /\ statsCount \in Nat /\ exceeded \in BOOLEAN /\ totals \in Seq(Nat)

\* tmr_run never goes on to a timer that a callback has cancelled, although it has saved its
\* successor before the callback; and no timer that is due stands behind one that is not.
\* (And every variable has its type.)
TimersAreLive ==
  /\ TypeOK
  /\ cur \in Active(timers) \cup {NoTimer} /\ next \in Active(timers) \cup {NoTimer}
  /\ \A j, k \in DOMAIN timers : j < k => timers[j].at <= timers[k].at

\* The reporter finds each interval before the next one is collected, although only the last
\* one is kept: none is printed twice, and none is left out but an empty one shorter than a
\* tenth of an interval; with one list for all timers, the reset at the end of the omitted part and the
\* test's end between the two timers.
EveryIntervalIsReported ==
  /\ \A j, k \in DOMAIN printed : j < k => printed[j].interval < printed[k].interval
  /\ \A k \in 1..Len(ivals[1]) - (IF state = "reported" THEN 0 ELSE 1) :
       \/ \E j \in DOMAIN printed : printed[j].interval = k
       \/ \A i \in Streams : ivals[i][k].short /\ ivals[i][k].bytes = 0

\* The blocks in the intervals that count.
InIntervals(i) ==
  LET kept == {k \in DOMAIN ivals[i] : ~ivals[i][k].omitted}
  IN SumFunction([k \in kept |-> ivals[i][k].bytes])

\* The printed intervals that count.
InReport ==
  LET kept == {k \in DOMAIN printed : ~ivals[1][printed[k].interval].omitted}
  IN SumFunction([k \in kept |-> printed[k].bytes])

\* The intervals never show more than the summary: what a thread counts while the callback
\* reads and clears is missing in them.  Only where the end of the omitted part falls
\* between a thread's two counters is one block there that the summary leaves out.  So too
\* what is printed of them: no interval is added in twice or without its omitted mark.
IntervalsAddUp ==
  LET late == IF params.omit # 0 THEN 1 ELSE 0
  IN /\ \A i \in Streams :
          InIntervals(i) + (IF omitting \/ (pc = "zero" /\ stream = i) THEN 0 ELSE str[i].interval)
            <= Summary(i) + late
     /\ summary # NoSummary => InReport <= summary + late * params.streams

\* A server refuses a test exactly when the average of some full window of successive
\* intervals is over its limit, however the ring that holds them wraps.
LimitIsAverage ==
  exceeded = \E k \in params.window..Len(totals) :
    SumFunctionOnSet(totals, k - params.window + 1..k)
      > params.limit * params.window * params.interval

\* A sender keeps to its test's limits although its threads look at them only now and then.
\* A stream with a rate is never ahead of it by more than one burst; and a test with a number
\* of blocks sends at most two more a thread: one that was under way and the last one of a
\* call, before which nobody looks at the number.
KeepsToLimits ==
  /\ params.sends /\ params.rate # 0 => \A i \in Streams :
       str[i].bytes <= params.rate * now + Max({1, params.burst})
  /\ (params.sends /\ params.blocks # 0 /\ SendsPerCall > 1 /\ ~omitting) =>
       SummaryTotal <= params.blocks + 2 * params.streams

ShouldEnd ==
  \/ params.duration # 0 \/ ~params.sends
  \/ params.role = "client" /\ ~omitting /\ LimitReached

\* A test comes to its end, whatever its threads, the network and the other side do: when
\* its time is over, when a client has sent enough, or when nothing comes any more.
TestEnds == ShouldEnd ~> state # "running"
=============================================================================
