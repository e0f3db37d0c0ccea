----------------------------- MODULE IosSession -----------------------------
(***************************************************************************)
(* The iOS session runtime, IperfSessionRuntime.swift: the main actor, the *)
(* serial worker queue and the serial stop-retry queue.  The main actor    *)
(* runs the calls of the screens and, one at a time and in the order they  *)
(* were posted, the tasks the worker posts to it.  The iperf run itself is *)
(* IperfEngine; every test is a new natural number.                        *)
(***************************************************************************)
EXTENDS IperfEngine, Sequences

CONSTANTS
  MaxSessions,    \* bound: how many sessions are started
  MaxJsonEvents,  \* maxJSONEventCount
  MaxPending      \* bound: no JSON event is posted to a longer mailbox

ASSUME MaxSessionsAssumption == MaxSessions \in Nat \ {0}
ASSUME MaxJsonEventsAssumption == MaxJsonEvents \in Nat \ {0}
ASSUME MaxPendingAssumption == MaxPending \in Nat

NoKind == "none"
NoTest == 0
Tests == 1..MaxSessions

VARIABLES
  \* IperfSessionRuntime on the main actor: state, the events shown, the kind of
  \* a start() that executor.start has accepted, and the tasks posted to it
  ui, jsonEvents, starting, mailbox,
  \* IperfSessionExecutor, under its lock
  isActive, stopRequested, activeTest,
  \* run on the worker queue: the queue, the position, kind, test and final event
  queue, wpc, wkind, test, event,
  \* the stop-retry queue: closures not begun, and the position of the one running
  retries, rpc,
  \* IperfJSONCallbackRegistry
  handlers,
  \* the heap, and how many sessions were started
  heap, sessions

mainVars == <<ui, jsonEvents, starting, mailbox>>
lockVars == <<isActive, stopRequested, activeTest>>
workerVars == <<queue, wpc, wkind, test, event>>
retryVars == <<retries, rpc>>
memoryVars == <<handlers, heap, sessions>>
sessionVars == <<mainVars, lockVars, workerVars, retryVars, memoryVars>>
vars == <<sessionVars, engVars>>

WorkerPCs == {"idle", "create", "noTest", "publish", "register", "configure",
              "checkStop", "engine", "returned", "outcome", "unregister",
              "clear", "free", "post"}

Lifecycle == INSTANCE SessionLifecycle
             WITH SessionKinds <- Kinds, phase <- ui.phase, kind <- ui.kind

UiStates == [phase : Lifecycle!Busy \cup Lifecycle!Settled, kind : Kinds]

Ui(phase, kind) == [phase |-> phase, kind |-> kind]

\* What the worker posts: a JSON event of a test, or a new session state.
Messages == [json : Tests] \cup [state : UiStates]

activeKind == IF ui.phase \in Lifecycle!Busy THEN ui.kind ELSE NoKind

Init ==
  /\ ui = Ui("Idle", "client")
  /\ jsonEvents = <<>>
  /\ starting = NoKind
  /\ mailbox = <<>>
  /\ isActive = FALSE
  /\ stopRequested = FALSE
  /\ activeTest = NoTest
  /\ queue = <<>>
  /\ wpc = "idle"
  /\ wkind = "client"
  /\ test = NoTest
  /\ event = Ui("Idle", "client")
  /\ retries = 0
  /\ rpc = "idle"
  /\ handlers = {}
  /\ heap = [t \in Tests |-> "unborn"]
  /\ sessions = 0
  /\ EngineInit
-----------------------------------------------------------------------------
(* The main actor.  It is free when no start() is between its two halves.  *)

\* startClient or startServer, and executor.start up to workerQueue.async.
StartSession(kind) ==
  /\ starting = NoKind
  /\ activeKind = NoKind
  /\ ~isActive
  /\ sessions < MaxSessions
  /\ isActive' = TRUE
  /\ stopRequested' = FALSE
  /\ activeTest' = NoTest
  /\ queue' = Append(queue, kind)
  /\ starting' = kind
  /\ sessions' = sessions + 1
  /\ UNCHANGED <<ui, jsonEvents, mailbox, wpc, wkind, test, event, retryVars,
                 handlers, heap, engVars>>

\* The rest of start, which the worker may already have overtaken.
StartReturns ==
  /\ starting # NoKind
  /\ jsonEvents' = <<>>
  /\ ui' = Ui("Starting", starting)
  /\ starting' = NoKind
  /\ UNCHANGED <<mailbox, lockVars, workerVars, retryVars, memoryVars, engVars>>

InterruptActive == IF activeTest # NoTest THEN Interrupt ELSE UNCHANGED engVars

\* stop: nothing happens when the executor refuses it.
Stop ==
  /\ starting = NoKind
  /\ activeKind # NoKind
  /\ isActive
  /\ ~stopRequested
  /\ stopRequested' = TRUE
  /\ InterruptActive
  /\ retries' = retries + 1
  /\ ui' = Ui("Stopping", activeKind)
  /\ UNCHANGED <<jsonEvents, starting, mailbox, isActive, activeTest, workerVars,
                 rpc, memoryVars>>

AcceptsAnyTime(state) == activeKind = state.kind \* mutant

\* handle(event): which states the main actor takes over.
Accepts(state) ==
  IF state.phase = "Running" THEN ui.phase = "Starting" ELSE activeKind = state.kind

KeepAll(events, e) == Append(events, e) \* mutant

KeepLast(events, e) ==
  IF Len(events) < MaxJsonEvents THEN Append(events, e) ELSE Append(Tail(events), e)

\* One posted task: deliverJSON or handle(event).
Deliver ==
  /\ starting = NoKind
  /\ mailbox # <<>>
  /\ mailbox' = Tail(mailbox)
  /\ LET m == Head(mailbox)
     IN \/ /\ "json" \in DOMAIN m
           /\ jsonEvents' = KeepLast(jsonEvents, m.json)
           /\ UNCHANGED ui
        \/ /\ "state" \in DOMAIN m
           /\ ui' = IF Accepts(m.state) THEN m.state ELSE ui
           /\ UNCHANGED jsonEvents
  /\ UNCHANGED <<starting, lockVars, workerVars, retryVars, memoryVars, engVars>>

Post(m) == mailbox' = Append(mailbox, m)
-----------------------------------------------------------------------------
(* retryInterruptUntilStopped on the stop-retry queue.                      *)

RetryBegin ==
  /\ rpc = "idle"
  /\ retries > 0
  /\ retries' = retries - 1
  /\ rpc' = "check"
  /\ UNCHANGED <<mainVars, lockVars, workerVars, memoryVars, engVars>>

RetryOnce == \* mutant
  /\ rpc = "check"
  /\ rpc' = "idle"
  /\ IF isActive THEN InterruptActive ELSE UNCHANGED engVars
  /\ UNCHANGED <<mainVars, lockVars, workerVars, retries, memoryVars>>

\* It looks at isActive alone: whose session is active it does not ask.
RetryCheck ==
  /\ rpc = "check"
  /\ \/ /\ ~isActive
        /\ rpc' = "idle"
        /\ UNCHANGED engVars
     \/ /\ isActive
        /\ rpc' = "sleep"
        /\ InterruptActive
  /\ UNCHANGED <<mainVars, lockVars, workerVars, retries, memoryVars>>

RetryWake ==
  /\ rpc = "sleep"
  /\ rpc' = "check"
  /\ UNCHANGED <<mainVars, lockVars, workerVars, retries, memoryVars, engVars>>
-----------------------------------------------------------------------------
(* run on the worker queue.                                                 *)

WorkerAt(from, to) == wpc = from /\ wpc' = to

TakeTask ==
  /\ WorkerAt("idle", "create")
  /\ queue # <<>>
  /\ wkind' = Head(queue)
  /\ queue' = Tail(queue)
  /\ UNCHANGED <<mainVars, lockVars, test, event, retryVars, memoryVars, engVars>>

Create ==
  /\ wpc = "create"
  /\ \/ /\ wpc' = "publish"
        /\ test' = sessions
        /\ heap' = [heap EXCEPT ![sessions] = "live"]
        /\ NewTest
        /\ UNCHANGED event
     \/ /\ wpc' = "noTest"
        /\ event' = Ui("Failed", wkind)
        /\ UNCHANGED <<test, heap, engVars>>
  /\ UNCHANGED <<mainVars, lockVars, queue, wkind, retryVars, handlers, sessions>>

FinishWithoutTest ==
  /\ WorkerAt("noTest", "post")
  /\ activeTest' = NoTest
  /\ isActive' = FALSE
  /\ UNCHANGED <<mainVars, stopRequested, queue, wkind, test, event, retryVars,
                 memoryVars, engVars>>

Publish ==
  /\ WorkerAt("publish", "register")
  /\ activeTest' = test
  /\ UNCHANGED <<mainVars, isActive, stopRequested, queue, wkind, test, event,
                 retryVars, memoryVars, engVars>>

Register ==
  /\ WorkerAt("register", "configure")
  /\ handlers' = handlers \cup {test}
  /\ UNCHANGED <<mainVars, lockVars, queue, wkind, test, event, retryVars, heap,
                 sessions, engVars>>

\* iperf_defaults, set_protocol and configure: the first two can fail.
Configure ==
  /\ wpc = "configure"
  /\ \/ wpc' = "checkStop" /\ UNCHANGED event
     \/ wpc' = "unregister" /\ event' = Ui("Failed", wkind)
  /\ UNCHANGED <<mainVars, lockVars, queue, wkind, test, retryVars, memoryVars, engVars>>

\* isStopRequested, then the running event and the call of iperf_run_*.
CheckStop ==
  /\ wpc = "checkStop"
  /\ \/ /\ stopRequested
        /\ event' = Ui("Stopped", wkind)
        /\ wpc' = "unregister"
        /\ UNCHANGED <<mailbox, engVars>>
     \/ /\ ~stopRequested
        /\ Post([state |-> Ui("Running", wkind)])
        /\ EnterRun(wkind)
        /\ wpc' = "engine"
        /\ UNCHANGED event
  /\ UNCHANGED <<ui, jsonEvents, starting, lockVars, queue, wkind, test, retryVars,
                 memoryVars>>

RunEngine == wpc = "engine" /\ EngineStep /\ UNCHANGED sessionVars

\* iperfJSONCallback finds the handler of its test and posts the event.
JsonEvent ==
  /\ wpc = "engine"
  /\ epc # "exit"
  /\ test \in handlers
  /\ Len(mailbox) < MaxPending
  /\ Post([json |-> test])
  /\ UNCHANGED <<ui, jsonEvents, starting, lockVars, workerVars, retryVars,
                 memoryVars, engVars>>

RunReturns ==
  /\ wpc = "engine"
  /\ epc = "exit"
  /\ wpc' = IF wkind = "client" THEN "returned" ELSE "outcome"
  /\ UNCHANGED <<mainVars, lockVars, queue, wkind, test, event, retryVars,
                 memoryVars, engVars>>

\* A stopped client is ended again, whatever iperf_run_client did already.
EndStoppedClient ==
  /\ WorkerAt("returned", "outcome")
  /\ IF stopRequested THEN ClientEnd ELSE UNCHANGED <<tstate, ctrl>>
  /\ UNCHANGED <<mainVars, lockVars, queue, wkind, test, event, retryVars, memoryVars,
                 epc, role, tdone, progress, pipe, workers, result>>

Outcome ==
  /\ WorkerAt("outcome", "unregister")
  /\ event' = Ui(IF stopRequested THEN "Stopped"
                 ELSE IF result = "error" THEN "Failed" ELSE "Finished", wkind)
  /\ UNCHANGED <<mainVars, lockVars, queue, wkind, test, retryVars, memoryVars, engVars>>

\* complete: unregister, clearActiveTest, iperf_free_test, completion.
Unregister ==
  /\ WorkerAt("unregister", "clear")
  /\ handlers' = handlers \ {test}
  /\ UNCHANGED <<mainVars, lockVars, queue, wkind, test, event, retryVars, heap,
                 sessions, engVars>>

ClearKeepsTest == \* mutant
  /\ WorkerAt("clear", "free")
  /\ isActive' = FALSE
  /\ UNCHANGED <<activeTest, mainVars, stopRequested, queue, wkind, test, event,
                 retryVars, memoryVars, engVars>>

ClearForgetsActive == \* mutant
  /\ WorkerAt("clear", "free")
  /\ activeTest' = IF activeTest = test THEN NoTest ELSE activeTest
  /\ UNCHANGED <<isActive, mainVars, stopRequested, queue, wkind, test, event,
                 retryVars, memoryVars, engVars>>

ClearActiveTest ==
  /\ WorkerAt("clear", "free")
  /\ activeTest' = IF activeTest = test THEN NoTest ELSE activeTest
  /\ isActive' = FALSE
  /\ UNCHANGED <<mainVars, stopRequested, queue, wkind, test, event, retryVars,
                 memoryVars, engVars>>

FreeSkipped == \* mutant
  /\ WorkerAt("free", "post")
  /\ UNCHANGED <<mainVars, lockVars, queue, wkind, test, event, retryVars, memoryVars,
                 engVars>>

FreeTest ==
  /\ WorkerAt("free", "post")
  /\ heap' = [heap EXCEPT ![test] = IF heap[test] = "live" THEN "freed" ELSE "doublefreed"]
  /\ epc' = "off"
  /\ UNCHANGED <<mainVars, lockVars, queue, wkind, test, event, retryVars, handlers,
                 sessions, role, tstate, tdone, progress, pipe, workers, ctrl, result>>

Complete ==
  /\ WorkerAt("post", "idle")
  /\ Post([state |-> event])
  /\ UNCHANGED <<ui, jsonEvents, starting, lockVars, queue, wkind, test, event,
                 retryVars, memoryVars, engVars>>

Worker ==
  \/ TakeTask \/ Create \/ FinishWithoutTest \/ Publish \/ Register \/ Configure
  \/ CheckStop \/ RunEngine \/ RunReturns \/ EndStoppedClient \/ Outcome
  \/ Unregister \/ ClearActiveTest \/ FreeTest \/ Complete

Retry == RetryBegin \/ RetryCheck \/ RetryWake

StreamThread == WorkersEnd /\ UNCHANGED sessionVars

Next ==
  \/ \E kind \in Kinds : StartSession(kind)
  \/ StartReturns
  \/ Stop
  \/ Deliver
  \/ Retry
  \/ Worker
  \/ JsonEvent
  \/ StreamThread

Spec == Init /\ [][Next]_vars
-----------------------------------------------------------------------------
(* Fairness: the main actor and both queues run what is given to them.      *)

InEngine(step) == wpc = "engine" /\ step /\ UNCHANGED sessionVars

WorkerOwnStep ==
  \/ TakeTask \/ Create \/ FinishWithoutTest \/ Publish \/ Register \/ Configure
  \/ CheckStop \/ RunReturns \/ EndStoppedClient \/ Outcome \/ Unregister
  \/ ClearActiveTest \/ FreeTest \/ Complete
  \/ InEngine(EngineOwnStep)

Fairness ==
  /\ WF_vars(StartReturns \/ Deliver)
  /\ WF_vars(Retry)
  /\ WF_vars(WorkerOwnStep)
  /\ SF_vars(InEngine(PeerAnswers))
  /\ SF_vars(InEngine(TestTimerFires))
  /\ SF_vars(InEngine(ServerServes))

FairSpec == Spec /\ Fairness
-----------------------------------------------------------------------------
(* Properties.                                                             *)

\* Every variable keeps its type and the event list its length.
TypeOK ==
  /\ EngineTypeOK
  /\ ui \in UiStates
  /\ jsonEvents \in Seq(Tests) /\ Len(jsonEvents) <= MaxJsonEvents
  /\ starting \in Kinds \cup {NoKind}
  /\ mailbox \in Seq(Messages)
  /\ isActive \in BOOLEAN
  /\ stopRequested \in BOOLEAN
  /\ activeTest \in Tests \cup {NoTest}
  /\ queue \in Seq(Kinds)
  /\ wpc \in WorkerPCs
  /\ wkind \in Kinds
  /\ test \in Tests \cup {NoTest}
  /\ event \in UiStates
  /\ retries \in Nat
  /\ rpc \in {"idle", "check", "sleep"}
  /\ handlers \subseteq Tests
  /\ heap \in [Tests -> {"unborn", "live", "freed", "doublefreed"}]
  /\ sessions \in 0..MaxSessions

\* native/ios/README.md:21-25: an interrupt only ever reaches a test that is still
\* allocated (stop and the retries use activeTest), so does a JSON callback, and
\* no test is freed twice.
PointersAreLive ==
  /\ activeTest # NoTest => heap[activeTest] = "live"
  /\ \A t \in handlers : heap[t] = "live"
  /\ \A t \in Tests : heap[t] # "doublefreed"

\* When the screens may start a session (the main actor is free and shows none under
\* way) the executor accepts it: alreadyRunning is never thrown from below.
StartIsAccepted ==
  starting = NoKind /\ activeKind = NoKind => ~isActive /\ queue = <<>> /\ wpc = "idle"

\* When a session is shown settled, its test and its JSON handler are gone.  A client
\* stopped by its user leaves no working control connection open either.  (Of the first
\* session: a later one may meet the retries of an earlier stop.)
SettledIsReleased ==
  /\ starting = NoKind /\ activeKind = NoKind =>
       activeTest = NoTest /\ handlers = {} /\ \A t \in Tests : heap[t] # "live"
  /\ sessions = 1 /\ wpc = "unregister" /\ wkind = "client" /\ event.phase = "Stopped" =>
       ctrl # "open"

\* Every event shown is of the session started last, once start has returned.
EventsAreOwn ==
  starting = NoKind => \A i \in DOMAIN jsonEvents : jsonEvents[i] = sessions

\* Interrupts, callbacks and events reach only the session they belong to.
ReachesItsOwn == PointersAreLive /\ EventsAreOwn

\* The observed state is a behaviour of SessionLifecycle.
RefinesLifecycle == Lifecycle!Spec

\* A session being stopped settles, wherever the stop caught it.
StopSettles == ui.phase = "Stopping" ~> ui.phase # "Stopping"

\* MIGRATION.md:245: stopping and starting again work: a client session reported
\* Finished went through the whole control protocol.
FinishedMeansCompleted ==
  wpc = "unregister" /\ wkind = "client" /\ event.phase = "Finished" =>
    progress = "DISPLAY_RESULTS"
=============================================================================
