--------------------------- MODULE AndroidSession ---------------------------
(***************************************************************************)
(* The Android session runtime: IperfSessionRuntime.kt on the callers' and *)
(* the executor's threads, and iperf3_jni.c below it.  An action is what   *)
(* one thread does under one lock, or between two locks; the iperf run     *)
(* itself is IperfEngine.  Every prepared test is a new natural number, so *)
(* that an owner, a callback or an event always says whose it is.          *)
(***************************************************************************)
EXTENDS IperfEngine, Sequences

CONSTANTS
  Callers,        \* threads that call startClient, startServer and stop
  MaxSessions,    \* bound: how many sessions are started
  MaxJsonEvents   \* MAX_JSON_EVENT_COUNT

ASSUME CallersAssumption == Callers # {}
ASSUME MaxSessionsAssumption == MaxSessions \in Nat \ {0}
ASSUME MaxJsonEventsAssumption == MaxJsonEvents \in Nat \ {0}

NoKind == "none"
NoTest == 0
Tests == 1..MaxSessions
ErrorCodes == {"IENONE", "IENEWTEST", "i_errno", "throwable"}

VARIABLES
  \* IperfSessionRuntime.kt, under sessionLock
  activeKind, stopRequested, ui, jsonEvents,
  \* startSession between the lock and executor.execute; the executor's queue
  submitting, queue,
  \* runSession on the worker: its position, its kind, handle and outcome
  wpc, wkind, handle, terminal,
  \* iperf3_jni.c: the globals, and the stopped/result locals of run
  prepared, active, gStop, lastError, listener, rstopped,
  \* the heap: which tests are allocated, and how many sessions were started
  heap, sessions

kotlinVars == <<activeKind, stopRequested, ui, jsonEvents, submitting, queue>>
workerVars == <<wpc, wkind, handle, terminal>>
jniVars == <<prepared, active, gStop, lastError, listener, rstopped>>
heapVars == <<heap, sessions>>
sessionVars == <<kotlinVars, workerVars, jniVars, heapVars>>
vars == <<sessionVars, engVars>>

WorkerPCs == {"idle", "check", "create", "publish", "mark", "claim", "install",
              "engine", "clear", "free", "returned", "failed", "finish"}

Lifecycle == INSTANCE SessionLifecycle
             WITH SessionKinds <- Kinds, phase <- ui.phase, kind <- ui.kind

UiStates == [phase : Lifecycle!Busy \cup Lifecycle!Settled, kind : Kinds,
             code : ErrorCodes]

Ui(phase, kind) == [phase |-> phase, kind |-> kind, code |-> "IENONE"]
Failed(kind, code) == [phase |-> "Failed", kind |-> kind, code |-> code]

Init ==
  /\ activeKind = NoKind
  /\ stopRequested = FALSE
  /\ ui = Ui("Idle", "client")
  /\ jsonEvents = <<>>
  /\ submitting = [c \in Callers |-> NoKind]
  /\ queue = <<>>
  /\ wpc = "idle"
  /\ wkind = "client"
  /\ handle = NoTest
  /\ terminal = Ui("Idle", "client")
  /\ prepared = NoTest
  /\ active = NoTest
  /\ gStop = FALSE
  /\ lastError = "IENONE"
  /\ listener = NoTest
  /\ rstopped = FALSE
  /\ heap = [t \in Tests |-> "unborn"]
  /\ sessions = 0
  /\ EngineInit
-----------------------------------------------------------------------------
(* The calls of the user interface.                                        *)

\* Iperf3Native.reset: nothing is cleared while a test is prepared or active.
NativeReset ==
  IF prepared = NoTest /\ active = NoTest
  THEN gStop' = FALSE /\ lastError' = "IENONE"
  ELSE UNCHANGED <<gStop, lastError>>

SameKindRunning(kind) == activeKind = kind \* mutant

AlreadyRunning(kind) == activeKind # NoKind

ShowStarting(kind) == ui' = Ui("Starting", kind) /\ jsonEvents' = <<>>

\* startSession under sessionLock.
StartSession(c, kind) ==
  /\ submitting[c] = NoKind
  /\ ~AlreadyRunning(kind)
  /\ sessions < MaxSessions
  /\ NativeReset
  /\ activeKind' = kind
  /\ stopRequested' = FALSE
  /\ ShowStarting(kind)
  /\ submitting' = [submitting EXCEPT ![c] = kind]
  /\ sessions' = sessions + 1
  /\ UNCHANGED <<queue, workerVars, prepared, active, listener, rstopped, heap, engVars>>

\* executor.execute, after the lock is released.
Submit(c) ==
  /\ submitting[c] # NoKind
  /\ queue' = Append(queue, submitting[c])
  /\ submitting' = [submitting EXCEPT ![c] = NoKind]
  /\ UNCHANGED <<activeKind, stopRequested, ui, jsonEvents, workerVars, jniVars,
                 heapVars, engVars>>

InterruptActive == \* mutant
  IF active # NoTest THEN gStop' = TRUE /\ Interrupt ELSE UNCHANGED <<gStop, engVars>>

\* Iperf3Native.interrupt: the flag is set whether or not there is a test.
NativeInterrupt ==
  /\ gStop' = TRUE
  /\ IF active # NoTest THEN Interrupt ELSE UNCHANGED engVars

\* stop: the native interrupt is called once, inside sessionLock.
Stop(c) ==
  /\ submitting[c] = NoKind
  /\ activeKind # NoKind
  /\ ~stopRequested
  /\ stopRequested' = TRUE
  /\ ui' = Ui("Stopping", activeKind)
  /\ NativeInterrupt
  /\ UNCHANGED <<activeKind, jsonEvents, submitting, queue, workerVars, prepared,
                 active, lastError, listener, rstopped, heapVars>>
-----------------------------------------------------------------------------
(* runSession on the executor's only thread, and the JNI calls it makes.   *)

WorkerAt(from, to) == wpc = from /\ wpc' = to

TakeTask ==
  /\ WorkerAt("idle", "check")
  /\ queue # <<>>
  /\ wkind' = Head(queue)
  /\ queue' = Tail(queue)
  /\ handle' = NoTest
  /\ UNCHANGED <<terminal, activeKind, stopRequested, ui, jsonEvents, submitting,
                 jniVars, heapVars, engVars>>

\* prepare_test up to the unlock.
PrepareCheck ==
  /\ wpc = "check"
  /\ IF prepared # NoTest \/ active # NoTest
     THEN wpc' = "failed" /\ lastError' = "IENEWTEST"
     ELSE wpc' = "create" /\ UNCHANGED lastError
  /\ UNCHANGED <<kotlinVars, wkind, handle, terminal, prepared, active, gStop,
                 listener, rstopped, heapVars, engVars>>

\* iperf_new_test, iperf_defaults and the setters.  The allocation can fail, a
\* failing default frees the test again, and the JNI string conversion can throw.
PrepareCreate ==
  /\ wpc = "create"
  /\ \/ /\ wpc' = "publish"
        /\ handle' = sessions
        /\ heap' = [heap EXCEPT ![sessions] = "live"]
        /\ NewTest
        /\ UNCHANGED <<lastError, terminal>>
     \/ /\ wpc' = "failed"
        /\ lastError' = "i_errno"
        /\ UNCHANGED <<handle, heap, terminal, engVars>>
     \/ /\ wpc' = "finish"
        /\ terminal' = Failed(wkind, "throwable")
        /\ UNCHANGED <<handle, heap, lastError, engVars>>
  /\ UNCHANGED <<kotlinVars, wkind, prepared, active, gStop, listener, rstopped, sessions>>

Leak(t) == UNCHANGED heap \* mutant

Release(t) ==
  heap' = [heap EXCEPT ![t] = IF heap[t] = "live" THEN "freed" ELSE "doublefreed"]

\* prepare_test looks again under the mutex before it publishes the test.
PreparePublish ==
  /\ wpc = "publish"
  /\ IF prepared # NoTest \/ active # NoTest
     THEN /\ lastError' = "IENEWTEST"
          /\ Release(handle)
          /\ wpc' = "failed"
          /\ UNCHANGED prepared
     ELSE /\ prepared' = handle
          /\ wpc' = "mark"
          /\ UNCHANGED <<lastError, heap>>
  /\ UNCHANGED <<kotlinVars, wkind, handle, terminal, active, gStop, listener,
                 rstopped, sessions, engVars>>

MarkRunningAnyway == \* mutant
  /\ WorkerAt("mark", "claim")
  /\ ui' = Ui("Running", wkind)
  /\ UNCHANGED <<activeKind, stopRequested, jsonEvents, submitting, queue, wkind,
                 handle, terminal, jniVars, heapVars, engVars>>

MarkRunning ==
  /\ WorkerAt("mark", "claim")
  /\ ui' = IF stopRequested THEN ui ELSE Ui("Running", wkind)
  /\ UNCHANGED <<activeKind, stopRequested, jsonEvents, submitting, queue, wkind,
                 handle, terminal, jniVars, heapVars, engVars>>

\* run: the listener cannot be retained, and discard_prepared_test frees the test.
RunRefused ==
  /\ wpc = "claim"
  /\ IF prepared = handle
     THEN prepared' = NoTest /\ Release(handle)
     ELSE UNCHANGED <<prepared, heap>>
  /\ lastError' = "IENEWTEST"
  /\ wpc' = "failed"
  /\ UNCHANGED <<kotlinVars, wkind, handle, terminal, active, gStop, listener,
                 rstopped, sessions, engVars>>

\* run, first critical section: the prepared test becomes the active one unless
\* a stop came first.
RunClaim ==
  /\ wpc = "claim"
  /\ IF prepared # handle
     THEN /\ lastError' = "IENEWTEST"
          /\ wpc' = "failed"
          /\ UNCHANGED <<prepared, active, rstopped>>
     ELSE /\ prepared' = NoTest
          /\ rstopped' = gStop
          /\ IF gStop
             THEN lastError' = "IENONE" /\ wpc' = "free" /\ UNCHANGED active
             ELSE active' = handle /\ wpc' = "install" /\ UNCHANGED lastError
  /\ UNCHANGED <<kotlinVars, wkind, handle, terminal, gStop, listener, heapVars, engVars>>

\* install_json_callback and the call of iperf_run_client or iperf_run_server.
RunInstall ==
  /\ WorkerAt("install", "engine")
  /\ listener' = handle
  /\ EnterRun(wkind)
  /\ UNCHANGED <<kotlinVars, wkind, handle, terminal, prepared, active, gStop,
                 lastError, rstopped, heapVars>>

RunEngine ==
  /\ wpc = "engine"
  /\ EngineStep
  /\ UNCHANGED sessionVars

KeepAll(events, e) == Append(events, e) \* mutant

KeepLast(events, e) ==
  IF Len(events) < MaxJsonEvents THEN Append(events, e) ELSE Append(Tail(events), e)

\* json_callback calls handleJsonEvent on the worker's thread.
JsonEvent ==
  /\ wpc = "engine"
  /\ epc # "exit"
  /\ listener # NoTest
  /\ jsonEvents' = KeepLast(jsonEvents, listener)
  /\ UNCHANGED <<activeKind, stopRequested, ui, submitting, queue, workerVars,
                 jniVars, heapVars, engVars>>

RunError == IF ~gStop /\ result = "error" THEN "i_errno" ELSE "IENONE"

\* run, second critical section.
RunEnd ==
  /\ WorkerAt("engine", "clear")
  /\ epc = "exit"
  /\ active' = NoTest
  /\ rstopped' = gStop
  /\ lastError' = RunError
  /\ UNCHANGED <<kotlinVars, wkind, handle, terminal, prepared, gStop, listener,
                 heapVars, engVars>>

RunKeepsListener == \* mutant
  /\ WorkerAt("clear", "free")
  /\ UNCHANGED <<kotlinVars, wkind, handle, terminal, jniVars, heapVars, engVars>>

RunClear ==
  /\ WorkerAt("clear", "free")
  /\ listener' = NoTest
  /\ UNCHANGED <<kotlinVars, wkind, handle, terminal, prepared, active, gStop,
                 lastError, rstopped, heapVars, engVars>>

RunFree ==
  /\ WorkerAt("free", "returned")
  /\ Release(handle)
  /\ epc' = "off"
  /\ UNCHANGED <<kotlinVars, wkind, handle, terminal, jniVars, sessions, role, tstate,
                 tdone, progress, pipe, workers, ctrl, result>>

StopIgnored == FALSE \* mutant

WasStopped == stopRequested \/ rstopped

\* runSession after run returned: RESULT_STOPPED, RESULT_FINISHED, RESULT_FAILED.
ReadOutcome ==
  /\ wpc = "returned"
  /\ \/ /\ WasStopped
        /\ terminal' = Ui("Stopped", wkind)
        /\ wpc' = "finish"
     \/ /\ ~WasStopped
        /\ result # "error"
        /\ terminal' = Ui("Finished", wkind)
        /\ wpc' = "finish"
     \/ /\ ~WasStopped
        /\ result = "error"
        /\ wpc' = "failed"
        /\ UNCHANGED terminal
  /\ UNCHANGED <<kotlinVars, wkind, handle, jniVars, heapVars, engVars>>

\* nativeFailure: lastErrorCode under the JNI mutex, sessionLock not held.
NativeFailure ==
  /\ WorkerAt("failed", "finish")
  /\ terminal' = Failed(wkind, lastError)
  /\ UNCHANGED <<kotlinVars, wkind, handle, jniVars, heapVars, engVars>>

FinishSession ==
  /\ WorkerAt("finish", "idle")
  /\ IF activeKind = wkind
     THEN activeKind' = NoKind /\ stopRequested' = FALSE /\ ui' = terminal
     ELSE UNCHANGED <<activeKind, stopRequested, ui>>
  /\ UNCHANGED <<jsonEvents, submitting, queue, wkind, handle, terminal, jniVars,
                 heapVars, engVars>>

Worker ==
  \/ TakeTask \/ PrepareCheck \/ PrepareCreate \/ PreparePublish \/ MarkRunning
  \/ RunRefused \/ RunClaim \/ RunInstall \/ RunEngine \/ RunEnd \/ RunClear
  \/ RunFree \/ ReadOutcome \/ NativeFailure \/ FinishSession

\* A stream thread ends whatever the session does.
StreamThread == WorkersEnd /\ UNCHANGED sessionVars

Next ==
  \/ \E c \in Callers : \E kind \in Kinds : StartSession(c, kind)
  \/ \E c \in Callers : Submit(c)
  \/ \E c \in Callers : Stop(c)
  \/ Worker
  \/ JsonEvent
  \/ StreamThread

Spec == Init /\ [][Next]_vars
-----------------------------------------------------------------------------
(* Fairness.  A thread that can step does: threads are preemptive and every *)
(* lock is held for a bounded time.                                         *)

InEngine(step) == wpc = "engine" /\ step /\ UNCHANGED sessionVars

WorkerOwnStep ==
  \/ TakeTask \/ PrepareCheck \/ PrepareCreate \/ PreparePublish \/ MarkRunning
  \/ RunRefused \/ RunClaim \/ RunInstall \/ RunEnd \/ RunClear \/ RunFree
  \/ ReadOutcome \/ NativeFailure \/ FinishSession
  \/ InEngine(EngineOwnStep)

Fairness ==
  /\ \A c \in Callers : WF_vars(Submit(c))
  /\ WF_vars(WorkerOwnStep)
  /\ SF_vars(InEngine(PeerAnswers))
  /\ SF_vars(InEngine(TestTimerFires))
  /\ SF_vars(InEngine(ServerServes))

FairSpec == Spec /\ Fairness
-----------------------------------------------------------------------------
(* Properties.                                                             *)

\* Every variable keeps its type and the event list its length.
TypeOK ==
  /\ EngineTypeOK
  /\ activeKind \in Kinds \cup {NoKind}
  /\ stopRequested \in BOOLEAN
  /\ ui \in UiStates
  /\ jsonEvents \in Seq(Tests) /\ Len(jsonEvents) <= MaxJsonEvents
  /\ submitting \in [Callers -> Kinds \cup {NoKind}]
  /\ queue \in Seq(Kinds)
  /\ wpc \in WorkerPCs
  /\ wkind \in Kinds
  /\ handle \in Tests \cup {NoTest}
  /\ terminal \in UiStates
  /\ prepared \in Tests \cup {NoTest}
  /\ active \in Tests \cup {NoTest}
  /\ gStop \in BOOLEAN
  /\ lastError \in ErrorCodes
  /\ listener \in Tests \cup {NoTest}
  /\ rstopped \in BOOLEAN
  /\ heap \in [Tests -> {"unborn", "live", "freed", "doublefreed"}]
  /\ sessions \in 0..MaxSessions

\* When no session is under way (the next start is accepted) the native layer
\* holds nothing of an earlier one: no test, no callback, no thread in iperf.
SettledIsReleased ==
  activeKind = NoKind =>
    /\ prepared = NoTest /\ active = NoTest /\ listener = NoTest
    /\ epc = "off"
    /\ \A t \in Tests : heap[t] # "live"

\* Every pointer another thread can reach (the test stop interrupts, the prepared
\* test, the owner of the installed callback) is an allocated test, and no test
\* is freed twice.
PointersAreLive ==
  /\ \A t \in {prepared, active, listener} \ {NoTest} : heap[t] = "live"
  /\ \A t \in Tests : heap[t] # "doublefreed"

\* One session at a time all the way down: a start that is still between its
\* lock and the executor, a queued task and a busy worker exclude each other, and
\* each of them belongs to the session under way.
OneSession ==
  /\ \A c, d \in Callers :
       submitting[c] # NoKind /\ submitting[d] # NoKind => c = d
  /\ (\E c \in Callers : submitting[c] # NoKind) => queue = <<>> /\ wpc = "idle"
  /\ queue # <<>> => Len(queue) = 1 /\ wpc = "idle"
  /\ wpc # "idle" => activeKind = wkind

\* A session is reported Stopped only if its own user asked for the stop: the stop
\* flag of an earlier session never reaches it.
StoppedOnlyOnRequest ==
  wpc = "finish" /\ terminal.phase = "Stopped" => stopRequested

\* A client session reported Finished went through the whole control protocol.
FinishedMeansCompleted ==
  wpc = "finish" /\ wkind = "client" /\ terminal.phase = "Finished" =>
    progress = "DISPLAY_RESULTS"

\* A failure carries the error of its own session, which no reset has cleared.
FailureHasCause == ui.phase = "Failed" => ui.code # "IENONE"

\* Every event shown is of the session started last.
EventsAreOwn == \A i \in DOMAIN jsonEvents : jsonEvents[i] = sessions

\* What the runtime holds and shows is of one session, the one it calls active: no second
\* one is let in between lock, queue and worker (startSession, runSession), and no event of
\* an earlier one stays in the list (handleJsonEvent).
SessionIsOwn == OneSession /\ EventsAreOwn

\* However stops, resets and errors interleave with the end of a run, the outcome shown is
\* the one the session had (runSession reads the stop flag, the
\* result and the error in three critical sections).
OutcomeIsRight == StoppedOnlyOnRequest /\ FinishedMeansCompleted /\ FailureHasCause

\* A stop accepted before the native run claimed its test keeps it from running.
StopPreventsRun ==
  [][stopRequested /\ active = NoTest => active' = NoTest]_vars

\* The observed state is a behaviour of SessionLifecycle.
RefinesLifecycle == Lifecycle!Spec

\* A stop that reached the pipe of a listening server ends the session.
DeliveredStopEnds ==
  stopRequested /\ wpc = "engine" /\ pipe = "full" ~> activeKind = NoKind

\* A client session ends if the server answers or closes the connection
\* whenever it is the server's turn.
ClientSettles == activeKind = "client" ~> activeKind = NoKind

\* MIGRATION.md:135: the Android server can be stopped, and a start after a stop
\* has a definite outcome: a session being stopped settles.
StopSettles == ui.phase = "Stopping" ~> ui.phase # "Stopping"

\* MIGRATION.md:124: cancellation goes through iperf_interrupt and the running
\* thread does the final release: when a client that was stopped has returned and its
\* test has been freed, none of its stream threads runs on.
FinalRelease ==
  wpc = "returned" /\ wkind = "client" /\ stopRequested => workers \notin {"running", "lost"}
=============================================================================
