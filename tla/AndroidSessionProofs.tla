----------------------- MODULE AndroidSessionProofs -----------------------
(***************************************************************************)
(* Proofs about AndroidSession for every set of callers, every number of   *)
(* sessions and every length of the event list.                            *)
(***************************************************************************)
EXTENDS AndroidSession, SequenceTheorems, TLAPS

(* A step of the engine keeps its types. *)

LEMMA EngineTypeStep == ASSUME EngineTypeOK, EngineStep PROVE EngineTypeOK'
<1>1. CASE LoopAgain BY <1>1 DEF LoopAgain, EngineTypeOK, EnginePCs
<1>2. CASE LeaveLoop
  BY <1>2 DEF LeaveLoop, CleanupServer, EngineTypeOK, EnginePCs, TestStates, Refusals
<1>3. CASE ClientStep
  BY <1>3 DEF ClientStep, ClientConnect, ClientRead, ClientLoses, ClientWakes, ClientHandle,
     ClientBody, ClientSendsTestEnd, ClientFail, ClientEnd, EngineTypeOK, EnginePCs,
     TestStates, Refusals
<1>4. CASE ServerStep
  BY <1>4 DEF ServerStep, ServerListen, ServerEntersLoop, ServerReadsPipe, ServerAccept,
     ServerStartsTest, ServerHandle, ServerFails, ServerExpires, ServerSelectFails,
     ServerTurns, CleanupServer, AtServerSelect, EngineTypeOK, EnginePCs, TestStates,
     Refusals
<1> QED BY <1>1, <1>2, <1>3, <1>4 DEF EngineStep

(* The inductive invariant, by the piece of the runtime each part is about. *)

\* A session under way is carried by a submitting caller, the queue or the worker.
Carried ==
  /\ \A c \in Callers : submitting[c] # NoKind => activeKind = submitting[c]
  /\ \A c, d \in Callers : submitting[c] # NoKind /\ submitting[d] # NoKind => c = d
  /\ \A c \in Callers : submitting[c] # NoKind => queue = <<>> /\ wpc = "idle"
  /\ queue # <<>> => Len(queue) = 1 /\ Head(queue) = activeKind /\ wpc = "idle"
  /\ wpc # "idle" => activeKind = wkind

Holding == {"publish", "mark", "claim", "install", "engine", "clear", "free"}

\* The worker's position says what the native globals and the heap hold.
Held ==
  /\ activeKind # NoKind => sessions # 0
  /\ wpc \in Holding => handle = sessions
  /\ prepared = IF wpc \in {"mark", "claim"} THEN handle ELSE NoTest
  /\ active = IF wpc \in {"install", "engine"} THEN handle ELSE NoTest
  /\ listener = IF wpc \in {"engine", "clear"} THEN handle ELSE NoTest
  /\ epc # "off" => wpc \in {"engine", "clear", "free"}
  /\ \A t \in Tests : heap[t] # "doublefreed"
  /\ \A t \in Tests : heap[t] = "live" <=> wpc \in Holding /\ t = handle
  /\ \A i \in DOMAIN jsonEvents : jsonEvents[i] = sessions

\* Who may have set the stop flags, and what the native outcome rests on.
Stops ==
  /\ gStop /\ activeKind # NoKind => stopRequested
  /\ stopRequested => gStop
  /\ wpc \in {"clear", "free", "returned"} /\ rstopped => stopRequested
  /\ wpc \in {"clear", "free", "returned"} /\ ~rstopped /\ result = "error" =>
       lastError = "i_errno"
  /\ wpc = "failed" => lastError # "IENONE"
  /\ wpc = "finish" /\ terminal.phase = "Failed" => terminal.code # "IENONE"
  /\ wpc = "finish" /\ terminal.phase = "Stopped" => stopRequested
  /\ ui.phase = "Failed" => ui.code # "IENONE"

\* What the screens see of it.
Shown ==
  /\ activeKind = NoKind => ui.phase \in Lifecycle!Settled /\ ~stopRequested
  /\ activeKind # NoKind =>
       ui.kind = activeKind /\
       ui.phase \in (IF stopRequested THEN {"Stopping"} ELSE {"Starting", "Running"})
  /\ wpc \in {"claim", "install", "engine", "clear", "free", "returned"} /\ ~stopRequested =>
       ui.phase = "Running"
  /\ wpc \in {"check", "create", "publish", "mark"} /\ ~stopRequested =>
       ui.phase = "Starting"
  /\ wpc = "idle" /\ activeKind # NoKind /\ ~stopRequested => ui.phase = "Starting"
  /\ wpc = "finish" => terminal.kind = wkind /\ terminal.phase \in Lifecycle!Terminal
  /\ wpc = "finish" /\ terminal.phase = "Finished" /\ ~stopRequested =>
       ui.phase = "Running"

\* A client's loop ends by itself only after DISPLAY_RESULTS.
Completes ==
  /\ wpc \in {"publish", "mark", "claim", "install"} =>
       result = "none" /\ (tstate = "zero" \/ (gStop /\ tstate = "IPERF_DONE"))
  /\ wpc = "engine" => role = wkind /\ epc # "off" /\ (result # "none" <=> epc = "exit")
  /\ wpc = "engine" /\ role = "client" =>
       /\ tstate = "DISPLAY_RESULTS" => progress = "DISPLAY_RESULTS"
       /\ tstate = "IPERF_DONE" /\ ~gStop =>
            \/ epc \in {"body", "head", "exit"} /\ progress = "DISPLAY_RESULTS"
            \/ epc = "exit" /\ result = "error"
       /\ ~gStop /\ result = "ok" => progress = "DISPLAY_RESULTS"
  /\ wpc \in {"clear", "free", "returned"} /\ ~rstopped /\ wkind = "client" =>
       result = "error" \/ progress = "DISPLAY_RESULTS"
  /\ wpc = "finish" /\ wkind = "client" /\ terminal.phase = "Finished" =>
       progress = "DISPLAY_RESULTS"

IInv == TypeOK /\ Carried /\ Held /\ Stops /\ Shown /\ Completes
-----------------------------------------------------------------------------
(* Types.                                                                  *)

\* The list of the last events keeps its element type and its bound.
LEMMA KeepLastType ==
  ASSUME NEW S, NEW s \in Seq(S), Len(s) <= MaxJsonEvents, NEW e \in S
  PROVE  KeepLast(s, e) \in Seq(S) /\ Len(KeepLast(s, e)) <= MaxJsonEvents
<1>1. CASE Len(s) < MaxJsonEvents
  BY <1>1, MaxJsonEventsAssumption DEF KeepLast
<1>2. CASE ~(Len(s) < MaxJsonEvents)
  <2>1. s # <<>> /\ Len(s) = MaxJsonEvents
    BY <1>2, MaxJsonEventsAssumption
  <2>2. Tail(s) \in Seq(S) /\ Len(Tail(s)) = Len(s) - 1
    BY <2>1
  <2>3. Append(Tail(s), e) \in Seq(S) /\ Len(Append(Tail(s), e)) = Len(s)
    BY <2>1, <2>2, MaxJsonEventsAssumption
  <2> QED BY <1>2, <2>1, <2>3 DEF KeepLast
<1> QED BY <1>1, <1>2

LEMMA UiType ==
  ASSUME NEW phase \in {"Idle", "Starting", "Running", "Stopping", "Stopped", "Finished", "Failed"},
         NEW kind \in Kinds, NEW code \in ErrorCodes
  PROVE  [phase |-> phase, kind |-> kind, code |-> code] \in UiStates
BY DEF UiStates, Lifecycle!Busy, Lifecycle!Settled, Lifecycle!Terminal

LEMMA TypeInit == Init => TypeOK
<1> SUFFICES ASSUME Init PROVE TypeOK
  OBVIOUS
<1>1. EngineTypeOK
  BY DEF Init, EngineInit, EngineTypeOK, EnginePCs, TestStates, Refusals, Kinds
<1>2. ui \in UiStates /\ terminal \in UiStates
  BY UiType DEF Init, Ui, Kinds, ErrorCodes
<1>3. jsonEvents \in Seq(Tests) /\ Len(jsonEvents) <= MaxJsonEvents /\ queue \in Seq(Kinds)
  BY MaxJsonEventsAssumption DEF Init
<1>4. submitting \in [Callers -> Kinds \cup {NoKind}]
  BY DEF Init, NoKind
<1>5. heap \in [Tests -> {"unborn", "live", "freed", "doublefreed"}] /\ sessions \in 0..MaxSessions
  BY MaxSessionsAssumption DEF Init, Tests
<1> QED
  BY <1>1, <1>2, <1>3, <1>4, <1>5 DEF Init, TypeOK, Kinds, WorkerPCs, ErrorCodes

LEMMA TypeStep == TypeOK /\ [Next]_vars => TypeOK'
<1> SUFFICES ASSUME TypeOK, [Next]_vars PROVE TypeOK'
  OBVIOUS
<1> USE DEF TypeOK, vars, sessionVars, kotlinVars, workerVars, jniVars, heapVars, engVars,
        Ui, Failed, ErrorCodes, WorkerPCs, WorkerAt
<1>i. ASSUME Interrupt PROVE EngineTypeOK'
  BY <1>i DEF Interrupt, EngineTypeOK, TestStates, EnginePCs, Refusals
<1>u. ASSUME UNCHANGED engVars PROVE EngineTypeOK'
  BY <1>u DEF EngineTypeOK, TestStates, EnginePCs, Refusals
<1>r. ASSUME NEW t, Release(t)
      PROVE  heap' \in [Tests -> {"unborn", "live", "freed", "doublefreed"}]
  BY <1>r DEF Release
<1>1. ASSUME NEW c \in Callers, NEW kind \in Kinds, StartSession(c, kind) PROVE TypeOK'
  <2>1. ui' \in UiStates BY <1>1, UiType DEF StartSession, ShowStarting
  <2>2. jsonEvents' \in Seq(Tests) /\ Len(jsonEvents') <= MaxJsonEvents
    BY <1>1, MaxJsonEventsAssumption DEF StartSession, ShowStarting
  <2>3. submitting' \in [Callers -> Kinds \cup {NoKind}] BY <1>1 DEF StartSession
  <2>4. sessions' \in 0..MaxSessions BY <1>1, MaxSessionsAssumption DEF StartSession
  <2>5. gStop' \in BOOLEAN /\ lastError' \in ErrorCodes BY <1>1 DEF StartSession, NativeReset
  <2> QED BY <1>1, <1>u, <2>1, <2>2, <2>3, <2>4, <2>5 DEF StartSession
<1>2. ASSUME NEW c \in Callers, Submit(c) PROVE TypeOK'
  <2>1. submitting' \in [Callers -> Kinds \cup {NoKind}] /\ queue' \in Seq(Kinds)
    BY <1>2 DEF Submit
  <2> QED BY <1>2, <1>u, <2>1 DEF Submit
<1>3. ASSUME NEW c \in Callers, Stop(c) PROVE TypeOK'
  <2>1. ui' \in UiStates BY <1>3, UiType DEF Stop
  <2>2. EngineTypeOK' /\ gStop' \in BOOLEAN BY <1>3, <1>u, <1>i DEF Stop, NativeInterrupt
  <2> QED BY <1>3, <2>1, <2>2 DEF Stop
<1>4. CASE Worker
  <2>1. CASE TakeTask
    <3>1. wkind' \in Kinds /\ queue' \in Seq(Kinds) BY <2>1 DEF TakeTask
    <3> QED BY <2>1, <1>u, <3>1 DEF TakeTask
  <2>2. CASE PrepareCheck BY <2>2, <1>u DEF PrepareCheck
  <2>3. CASE PrepareCreate
    <3>1. EngineTypeOK'
      BY <2>3, <1>u DEF PrepareCreate, NewTest, EngineTypeOK, TestStates, EnginePCs, Refusals
    <3>2. terminal' \in UiStates BY <2>3, UiType DEF PrepareCreate
    <3>3. CASE UNCHANGED <<handle, heap>> BY <2>3, <3>1, <3>2, <3>3 DEF PrepareCreate
    <3>4. CASE handle' = sessions /\ heap' = [heap EXCEPT ![sessions] = "live"]
      <4>1. heap' \in [Tests -> {"unborn", "live", "freed", "doublefreed"}] BY <3>4
      <4>2. handle' \in Tests \cup {NoTest}
        BY <3>4, MaxSessionsAssumption DEF Tests, NoTest
      <4> QED BY <2>3, <3>1, <3>2, <4>1, <4>2 DEF PrepareCreate
    <3> QED BY <2>3, <3>3, <3>4 DEF PrepareCreate
  <2>4. CASE PreparePublish BY <2>4, <1>u, <1>r DEF PreparePublish
  <2>5. CASE MarkRunning
    <3>1. ui' \in UiStates BY <2>5, UiType DEF MarkRunning
    <3> QED BY <2>5, <1>u, <3>1 DEF MarkRunning
  <2>6. CASE RunRefused BY <2>6, <1>u, <1>r DEF RunRefused, NoTest
  <2>7. CASE RunClaim BY <2>7, <1>u DEF RunClaim, NoTest
  <2>8. CASE RunInstall BY <2>8 DEF RunInstall, EnterRun, EngineTypeOK, EnginePCs
  <2>9. CASE RunEngine BY <2>9, EngineTypeStep DEF RunEngine
  <2>10. CASE RunEnd BY <2>10, <1>u DEF RunEnd, RunError, NoTest
  <2>11. CASE RunClear BY <2>11, <1>u DEF RunClear, NoTest
  <2>12. CASE RunFree
    <3>1. EngineTypeOK' BY <2>12 DEF RunFree, EngineTypeOK, EnginePCs
    <3> QED BY <2>12, <1>r, <3>1 DEF RunFree
  <2>13. CASE ReadOutcome
    <3>1. terminal' \in UiStates BY <2>13, UiType DEF ReadOutcome
    <3> QED BY <2>13, <1>u, <3>1 DEF ReadOutcome
  <2>14. CASE NativeFailure
    <3>1. terminal' \in UiStates BY <2>14, UiType DEF NativeFailure
    <3> QED BY <2>14, <1>u, <3>1 DEF NativeFailure
  <2>15. CASE FinishSession BY <2>15, <1>u DEF FinishSession
  <2> QED BY <1>4, <2>1, <2>2, <2>3, <2>4, <2>5, <2>6, <2>7, <2>8, <2>9, <2>10, <2>11,
             <2>12, <2>13, <2>14, <2>15 DEF Worker
<1>5. CASE JsonEvent
  <2>1. jsonEvents' \in Seq(Tests) /\ Len(jsonEvents') <= MaxJsonEvents
    BY <1>5, KeepLastType DEF JsonEvent, NoTest
  <2> QED BY <1>5, <2>1, <1>u DEF JsonEvent
<1>6. CASE StreamThread
  BY <1>6 DEF StreamThread, WorkersEnd, EngineTypeOK, EnginePCs, TestStates
<1>7. CASE UNCHANGED vars BY <1>7, <1>u
<1> QED BY <1>1, <1>2, <1>3, <1>4, <1>5, <1>6, <1>7 DEF Next

\* Every variable of the Android session, of the bridge and of the engine below it
\* keeps its type, and the event list its bound.
THEOREM TypeCorrect == Spec => []TypeOK
BY TypeInit, TypeStep, PTL DEF Spec
-----------------------------------------------------------------------------
(* The parts of the invariant, one lemma each.                             *)

LEMMA NoKindIsNone == NoKind \notin Kinds
BY DEF NoKind, Kinds

\* While the worker is busy its session is the one started last.
LEMMA WorkerBusy ==
  ASSUME TypeOK, Carried, Held, wpc # "idle"
  PROVE  activeKind = wkind /\ activeKind # NoKind /\ sessions \in Tests
BY NoKindIsNone, MaxSessionsAssumption DEF TypeOK, Carried, Held, Tests

LEMMA CarriedStep == TypeOK /\ Carried /\ Held /\ [Next]_vars => Carried'
<1> SUFFICES ASSUME TypeOK, Carried, Held, [Next]_vars PROVE Carried'
  OBVIOUS
<1> USE DEF Carried, vars, sessionVars, kotlinVars, workerVars, WorkerAt
<1>1. ASSUME NEW c \in Callers, NEW kind \in Kinds, StartSession(c, kind) PROVE Carried'
  <2>1. activeKind = NoKind BY <1>1 DEF StartSession, AlreadyRunning
  <2>2. wpc = "idle" /\ queue = <<>> BY <2>1, NoKindIsNone DEF TypeOK
  <2>3. \A d \in Callers : submitting[d] = NoKind BY <2>1, NoKindIsNone DEF TypeOK
  <2> QED BY <1>1, <2>2, <2>3 DEF StartSession, TypeOK
<1>2. ASSUME NEW c \in Callers, Submit(c) PROVE Carried'
  <2>1. queue = <<>> /\ wpc = "idle" /\ activeKind = submitting[c] BY <1>2 DEF Submit
  <2>2. \A d \in Callers : submitting'[d] = NoKind BY <1>2 DEF Submit, TypeOK
  <2>3. Len(queue') = 1 /\ Head(queue') = activeKind BY <1>2, <2>1 DEF Submit
  <2> QED BY <1>2, <2>1, <2>2, <2>3 DEF Submit
<1>3. ASSUME NEW c \in Callers, Stop(c) PROVE Carried'
  BY <1>3 DEF Stop
<1>4. CASE Worker
  <2>1. CASE TakeTask
    <3>1. Head(queue) = activeKind /\ queue' = <<>> BY <2>1 DEF TakeTask, TypeOK
    <3> QED BY <2>1, <3>1 DEF TakeTask
  <2>2. CASE FinishSession
    <3>1. activeKind = wkind /\ queue = <<>> /\ \A c \in Callers : submitting[c] = NoKind
      BY <2>2 DEF FinishSession
    <3> QED BY <2>2, <3>1 DEF FinishSession
  <2>3. CASE wpc # "idle" /\ wpc' # "idle"
             /\ UNCHANGED <<activeKind, submitting, queue, wkind>>
    BY <2>3
  <2> QED
    BY <1>4, <2>1, <2>2, <2>3
       DEF Worker, PrepareCheck, PrepareCreate, PreparePublish, MarkRunning, RunRefused,
           RunClaim, RunInstall, RunEngine, RunEnd, RunClear, RunFree, ReadOutcome,
           NativeFailure
<1>5. CASE JsonEvent BY <1>5 DEF JsonEvent
<1>6. CASE StreamThread BY <1>6 DEF StreamThread
<1>7. CASE UNCHANGED vars BY <1>7
<1> QED BY <1>1, <1>2, <1>3, <1>4, <1>5, <1>6, <1>7 DEF Next

\* A list of events of one session stays one when an event of it is added.
LEMMA KeepLastSame ==
  ASSUME NEW S, NEW s \in Seq(S), Len(s) <= MaxJsonEvents, NEW e \in S,
         \A i \in DOMAIN s : s[i] = e
  PROVE  \A i \in DOMAIN KeepLast(s, e) : KeepLast(s, e)[i] = e
<1>1. CASE Len(s) < MaxJsonEvents
  BY <1>1, MaxJsonEventsAssumption DEF KeepLast
<1>2. CASE ~(Len(s) < MaxJsonEvents)
  <2>1. s # <<>> /\ Len(s) = MaxJsonEvents
    BY <1>2, MaxJsonEventsAssumption
  <2>2. /\ Tail(s) \in Seq(S) /\ Len(Tail(s)) = Len(s) - 1
        /\ \A i \in 1..Len(Tail(s)) : Tail(s)[i] = e
    BY <2>1, HeadTailProperties
  <2>3. \A i \in DOMAIN Append(Tail(s), e) : Append(Tail(s), e)[i] = e
    BY <2>1, <2>2, MaxJsonEventsAssumption
  <2> QED BY <1>2, <2>1, <2>3 DEF KeepLast
<1> QED BY <1>1, <1>2

LEMMA HeldStep == TypeOK /\ Carried /\ Held /\ [Next]_vars => Held'
<1> SUFFICES ASSUME TypeOK, Carried, Held, [Next]_vars PROVE Held'
  OBVIOUS
<1> USE DEF Held, Holding, vars, sessionVars, kotlinVars, workerVars, jniVars, heapVars, WorkerAt
<1>t. /\ heap \in [Tests -> {"unborn", "live", "freed", "doublefreed"}]
      /\ 0 \notin Tests /\ NoTest = 0
      /\ wpc # "idle" => activeKind # NoKind /\ sessions \in Tests
  BY WorkerBusy, MaxSessionsAssumption DEF TypeOK, Tests, NoTest
<1>r. ASSUME Release(handle), wpc \in Holding
      PROVE  /\ \A t \in Tests : heap'[t] # "doublefreed"
             /\ \A t \in Tests : heap'[t] # "live"
  BY <1>r, <1>t DEF Release
<1>1. ASSUME NEW c \in Callers, NEW kind \in Kinds, StartSession(c, kind) PROVE Held'
  <2>1. activeKind = NoKind /\ kind # NoKind
    BY <1>1, NoKindIsNone DEF StartSession, AlreadyRunning
  <2>2. wpc = "idle" BY <2>1, NoKindIsNone DEF Carried, TypeOK
  <2>3. sessions' # 0 BY <1>1 DEF StartSession, TypeOK
  <2>4. DOMAIN jsonEvents' = {} BY <1>1 DEF StartSession, ShowStarting
  <2>5. epc' = epc BY <1>1 DEF StartSession, engVars
  <2> QED BY <1>1, <2>2, <2>3, <2>4, <2>5 DEF StartSession
<1>2. ASSUME NEW c \in Callers, Submit(c) PROVE Held'
  BY <1>2 DEF Submit, engVars
<1>3. ASSUME NEW c \in Callers, Stop(c) PROVE Held'
  <2>1. epc' = epc BY <1>3 DEF Stop, NativeInterrupt, Interrupt, engVars
  <2> QED BY <1>3, <2>1 DEF Stop
<1>4. CASE Worker
  <2>1. CASE TakeTask BY <2>1 DEF TakeTask, engVars
  <2>2. CASE PrepareCheck BY <2>2, <1>t DEF PrepareCheck, engVars
  <2>3. CASE PrepareCreate
    <3>1. epc' = epc BY <2>3 DEF PrepareCreate, NewTest, engVars
    <3>2. CASE wpc' = "publish" /\ handle' = sessions /\ heap' = [heap EXCEPT ![sessions] = "live"]
      BY <2>3, <3>1, <3>2, <1>t DEF PrepareCreate
    <3>3. CASE wpc' \in {"failed", "finish"} /\ UNCHANGED <<handle, heap>>
      BY <2>3, <3>1, <3>3, <1>t DEF PrepareCreate
    <3> QED BY <2>3, <3>2, <3>3 DEF PrepareCreate
  <2>4. CASE PreparePublish
    BY <2>4, <1>t DEF PreparePublish, engVars
  <2>5. CASE MarkRunning BY <2>5 DEF MarkRunning, engVars
  <2>6. CASE RunRefused BY <2>6, <1>t, <1>r DEF RunRefused, engVars
  <2>7. CASE RunClaim BY <2>7, <1>t DEF RunClaim, engVars
  <2>8. CASE RunInstall BY <2>8 DEF RunInstall, EnterRun
  <2>9. CASE RunEngine BY <2>9 DEF RunEngine
  <2>10. CASE RunEnd BY <2>10 DEF RunEnd, engVars
  <2>11. CASE RunClear BY <2>11 DEF RunClear, engVars
  <2>12. CASE RunFree BY <2>12, <1>r DEF RunFree
  <2>13. CASE ReadOutcome BY <2>13 DEF ReadOutcome, engVars
  <2>14. CASE NativeFailure BY <2>14 DEF NativeFailure, engVars
  <2>15. CASE FinishSession BY <2>15 DEF FinishSession, engVars
  <2> QED BY <1>4, <2>1, <2>2, <2>3, <2>4, <2>5, <2>6, <2>7, <2>8, <2>9, <2>10, <2>11,
             <2>12, <2>13, <2>14, <2>15 DEF Worker
<1>5. CASE JsonEvent
  <2>1. listener = sessions /\ sessions \in Tests BY <1>5, <1>t DEF JsonEvent
  <2>2. \A i \in DOMAIN jsonEvents' : jsonEvents'[i] = sessions
    BY <1>5, <2>1, KeepLastSame DEF JsonEvent, TypeOK
  <2> QED BY <1>5, <2>2 DEF JsonEvent, engVars
<1>6. CASE StreamThread BY <1>6 DEF StreamThread, WorkersEnd
<1>7. CASE UNCHANGED vars BY <1>7 DEF engVars
<1> QED BY <1>1, <1>2, <1>3, <1>4, <1>5, <1>6, <1>7 DEF Next

LEMMA StopsStep == TypeOK /\ Carried /\ Held /\ Stops /\ [Next]_vars => Stops'
<1> SUFFICES ASSUME TypeOK, Carried, Held, Stops, [Next]_vars PROVE Stops'
  OBVIOUS
<1> USE DEF Stops, vars, sessionVars, kotlinVars, workerVars, jniVars, heapVars, WorkerAt
<1>b. wpc # "idle" => activeKind = wkind /\ activeKind # NoKind
  BY WorkerBusy
<1>1. ASSUME NEW c \in Callers, NEW kind \in Kinds, StartSession(c, kind) PROVE Stops'
  <2>1. activeKind = NoKind BY <1>1 DEF StartSession, AlreadyRunning
  <2>2. wpc = "idle" BY <2>1, NoKindIsNone DEF Carried, TypeOK
  <2>3. prepared = NoTest /\ active = NoTest BY <2>2 DEF Held
  <2> QED BY <1>1, <2>2, <2>3 DEF StartSession, NativeReset, ShowStarting, Ui, engVars
<1>2. ASSUME NEW c \in Callers, Submit(c) PROVE Stops'
  BY <1>2 DEF Submit, engVars
<1>3. ASSUME NEW c \in Callers, Stop(c) PROVE Stops'
  <2>1. gStop' /\ result' = result
    BY <1>3 DEF Stop, NativeInterrupt, Interrupt, engVars
  <2> QED BY <1>3, <2>1 DEF Stop, Ui
<1>4. CASE Worker
  <2>1. CASE TakeTask BY <2>1 DEF TakeTask, engVars
  <2>2. CASE PrepareCheck BY <2>2 DEF PrepareCheck, engVars
  <2>3. CASE PrepareCreate BY <2>3 DEF PrepareCreate, Failed
  <2>4. CASE PreparePublish BY <2>4 DEF PreparePublish, engVars
  <2>5. CASE MarkRunning BY <2>5 DEF MarkRunning, Ui, engVars
  <2>6. CASE RunRefused BY <2>6 DEF RunRefused, engVars
  <2>7. CASE RunClaim BY <2>7, <1>b DEF RunClaim, engVars
  <2>8. CASE RunInstall BY <2>8 DEF RunInstall, EnterRun
  <2>9. CASE RunEngine BY <2>9 DEF RunEngine
  <2>10. CASE RunEnd BY <2>10, <1>b DEF RunEnd, RunError, engVars
  <2>11. CASE RunClear BY <2>11 DEF RunClear, engVars
  <2>12. CASE RunFree BY <2>12 DEF RunFree
  <2>13. CASE ReadOutcome BY <2>13 DEF ReadOutcome, WasStopped, Ui, engVars
  <2>14. CASE NativeFailure BY <2>14 DEF NativeFailure, Failed, engVars
  <2>15. CASE FinishSession BY <2>15, <1>b DEF FinishSession, engVars
  <2> QED BY <1>4, <2>1, <2>2, <2>3, <2>4, <2>5, <2>6, <2>7, <2>8, <2>9, <2>10, <2>11,
             <2>12, <2>13, <2>14, <2>15 DEF Worker
<1>5. CASE JsonEvent BY <1>5 DEF JsonEvent, engVars
<1>6. CASE StreamThread BY <1>6 DEF StreamThread, WorkersEnd
<1>7. CASE UNCHANGED vars BY <1>7 DEF engVars
<1> QED BY <1>1, <1>2, <1>3, <1>4, <1>5, <1>6, <1>7 DEF Next

LEMMA ShownStep == TypeOK /\ Carried /\ Held /\ Shown /\ [Next]_vars => Shown'
<1> SUFFICES ASSUME TypeOK, Carried, Held, Shown, [Next]_vars PROVE Shown'
  OBVIOUS
<1> DEFINE Terminals == {"Stopped", "Finished", "Failed"}
<1>l. Lifecycle!Terminal = Terminals /\ Lifecycle!Settled = {"Idle"} \cup Terminals
  BY DEF Lifecycle!Terminal, Lifecycle!Settled
<1> USE <1>l DEF Shown, vars, sessionVars, kotlinVars, workerVars, jniVars, heapVars, WorkerAt
<1>b. wpc # "idle" => activeKind = wkind /\ activeKind # NoKind
  BY WorkerBusy
<1>n. NoKind \notin Kinds BY NoKindIsNone
<1>1. ASSUME NEW c \in Callers, NEW kind \in Kinds, StartSession(c, kind) PROVE Shown'
  <2>1. activeKind = NoKind BY <1>1 DEF StartSession, AlreadyRunning
  <2>2. wpc = "idle" BY <2>1, <1>b
  <2> QED BY <1>1, <1>n, <2>2 DEF StartSession, ShowStarting, Ui
<1>2. ASSUME NEW c \in Callers, Submit(c) PROVE Shown'
  BY <1>2 DEF Submit
<1>3. ASSUME NEW c \in Callers, Stop(c) PROVE Shown'
  BY <1>3 DEF Stop, Ui
<1>4. CASE Worker
  <2>1. CASE TakeTask
    <3>1. activeKind # NoKind BY <2>1, <1>n DEF TakeTask, Carried, TypeOK
    <3> QED BY <2>1, <3>1 DEF TakeTask
  <2>2. CASE PrepareCheck BY <2>2 DEF PrepareCheck
  <2>3. CASE PrepareCreate BY <2>3 DEF PrepareCreate, Failed
  <2>4. CASE PreparePublish BY <2>4 DEF PreparePublish
  <2>5. CASE MarkRunning BY <2>5, <1>b DEF MarkRunning, Ui
  <2>6. CASE RunRefused BY <2>6 DEF RunRefused
  <2>7. CASE RunClaim BY <2>7 DEF RunClaim
  <2>8. CASE RunInstall BY <2>8 DEF RunInstall
  <2>9. CASE RunEngine BY <2>9 DEF RunEngine
  <2>10. CASE RunEnd BY <2>10 DEF RunEnd
  <2>11. CASE RunClear BY <2>11 DEF RunClear
  <2>12. CASE RunFree BY <2>12 DEF RunFree
  <2>13. CASE ReadOutcome BY <2>13, <1>b DEF ReadOutcome, WasStopped, Ui
  <2>14. CASE NativeFailure BY <2>14 DEF NativeFailure, Failed
  <2>15. CASE FinishSession BY <2>15, <1>b, <1>n DEF FinishSession
  <2> QED BY <1>4, <2>1, <2>2, <2>3, <2>4, <2>5, <2>6, <2>7, <2>8, <2>9, <2>10, <2>11,
             <2>12, <2>13, <2>14, <2>15 DEF Worker
<1>5. CASE JsonEvent BY <1>5 DEF JsonEvent
<1>6. CASE StreamThread BY <1>6 DEF StreamThread
<1>7. CASE UNCHANGED vars BY <1>7
<1> QED BY <1>1, <1>2, <1>3, <1>4, <1>5, <1>6, <1>7 DEF Next

LEMMA CompletesStep == TypeOK /\ Carried /\ Held /\ Completes /\ [Next]_vars => Completes'
<1> SUFFICES ASSUME TypeOK, Carried, Held, Completes, [Next]_vars PROVE Completes'
  OBVIOUS
<1> USE DEF Completes, vars, sessionVars, kotlinVars, workerVars, jniVars, heapVars, WorkerAt
<1>b. wpc # "idle" => activeKind # NoKind
  BY WorkerBusy
<1>1. ASSUME NEW c \in Callers, NEW kind \in Kinds, StartSession(c, kind) PROVE Completes'
  <2>1. wpc = "idle" BY <1>1, <1>b DEF StartSession, AlreadyRunning
  <2> QED BY <1>1, <2>1 DEF StartSession
<1>2. ASSUME NEW c \in Callers, Submit(c) PROVE Completes'
  BY <1>2 DEF Submit, engVars
<1>3. ASSUME NEW c \in Callers, Stop(c) PROVE Completes'
  <2>1. /\ gStop'
        /\ UNCHANGED <<epc, role, progress, result, wpc, wkind, terminal, rstopped>>
    BY <1>3 DEF Stop, NativeInterrupt, Interrupt, engVars
  <2>2. tstate' = "IPERF_DONE" \/ tstate' = tstate
    BY <1>3 DEF Stop, NativeInterrupt, Interrupt, engVars
  <2> QED BY <2>1, <2>2
<1>4. CASE Worker
  <2>1. CASE TakeTask BY <2>1 DEF TakeTask
  <2>2. CASE PrepareCheck BY <2>2 DEF PrepareCheck
  <2>3. CASE PrepareCreate BY <2>3 DEF PrepareCreate, NewTest, Failed
  <2>4. CASE PreparePublish BY <2>4 DEF PreparePublish, engVars
  <2>5. CASE MarkRunning BY <2>5 DEF MarkRunning, engVars
  <2>6. CASE RunRefused BY <2>6 DEF RunRefused
  <2>7. CASE RunClaim BY <2>7 DEF RunClaim, engVars
  <2>8. CASE RunInstall BY <2>8 DEF RunInstall, EnterRun
  <2>9. CASE RunEngine
    <3>1. UNCHANGED sessionVars /\ wpc = "engine" /\ EngineStep BY <2>9 DEF RunEngine
    <3>2. CASE LoopAgain BY <3>1, <3>2 DEF LoopAgain
    <3>3. CASE LeaveLoop BY <3>1, <3>3 DEF LeaveLoop, CleanupServer
    <3>4. CASE ServerStep
      BY <3>1, <3>4 DEF ServerStep, ServerListen, ServerEntersLoop, ServerReadsPipe,
         ServerAccept, ServerStartsTest, ServerHandle, ServerFails, ServerExpires,
         ServerSelectFails, ServerTurns, CleanupServer, AtServerSelect
    <3>5. ASSUME ClientFail PROVE Completes'
      BY <3>1, <3>5 DEF ClientFail, ClientEnd
    <3>6. CASE ClientStep
      <4>1. CASE ClientConnect BY <3>1, <3>5, <4>1 DEF ClientConnect
      <4>2. CASE ClientRead BY <3>1, <4>2 DEF ClientRead, ServerSends
      <4>3. CASE ClientLoses BY <3>5, <4>3 DEF ClientLoses
      <4>4. CASE ClientWakes BY <3>1, <4>4 DEF ClientWakes
      <4>5. CASE ClientHandle BY <3>1, <3>5, <4>5 DEF ClientHandle, ClientEnd
      <4>6. CASE ClientBody BY <3>1, <4>6 DEF ClientBody
      <4>7. CASE ClientSendsTestEnd BY <3>1, <3>5, <4>7 DEF ClientSendsTestEnd
      <4> QED BY <3>6, <4>1, <4>2, <4>3, <4>4, <4>5, <4>6, <4>7 DEF ClientStep
    <3> QED BY <3>1, <3>2, <3>3, <3>4, <3>6 DEF EngineStep
  <2>10. CASE RunEnd BY <2>10 DEF RunEnd, engVars, TypeOK, EngineTypeOK
  <2>11. CASE RunClear BY <2>11 DEF RunClear, engVars
  <2>12. CASE RunFree BY <2>12 DEF RunFree
  <2>13. CASE ReadOutcome BY <2>13 DEF ReadOutcome, WasStopped, Ui, engVars
  <2>14. CASE NativeFailure BY <2>14 DEF NativeFailure, Failed
  <2>15. CASE FinishSession BY <2>15 DEF FinishSession
  <2> QED BY <1>4, <2>1, <2>2, <2>3, <2>4, <2>5, <2>6, <2>7, <2>8, <2>9, <2>10, <2>11,
             <2>12, <2>13, <2>14, <2>15 DEF Worker
<1>5. CASE JsonEvent BY <1>5 DEF JsonEvent, engVars
<1>6. CASE StreamThread BY <1>6 DEF StreamThread, WorkersEnd
<1>7. CASE UNCHANGED vars BY <1>7 DEF engVars
<1> QED BY <1>1, <1>2, <1>3, <1>4, <1>5, <1>6, <1>7 DEF Next

LEMMA InvariantInit == Init => IInv
<1> SUFFICES ASSUME Init PROVE IInv
  OBVIOUS
<1>1. Carried BY DEF Init, Carried
<1>2. Held BY DEF Init, Held, Holding, EngineInit, NoKind
<1>3. Stops BY DEF Init, Stops, Ui
<1>4. Shown BY DEF Init, Shown, Ui, Lifecycle!Settled
<1>5. Completes BY DEF Init, Completes
<1> QED BY TypeInit, <1>1, <1>2, <1>3, <1>4, <1>5 DEF IInv

LEMMA InvariantStep == IInv /\ [Next]_vars => IInv'
BY TypeStep, CarriedStep, HeldStep, StopsStep, ShownStep, CompletesStep DEF IInv

LEMMA Invariant == Spec => []IInv
BY InvariantInit, InvariantStep, PTL DEF Spec
-----------------------------------------------------------------------------
(* The safety properties.                                                  *)

\* Stop never interrupts, a run never claims and a callback never belongs to a test
\* that is not allocated, and no test is freed twice.
THEOREM LivePointers == Spec => []PointersAreLive
<1>1. IInv => PointersAreLive
  <2> SUFFICES ASSUME IInv PROVE PointersAreLive
    OBVIOUS
  <2>1. wpc # "idle" => sessions \in Tests BY WorkerBusy DEF IInv
  <2> QED BY <2>1 DEF IInv, Held, Holding, PointersAreLive, NoTest
<1> QED BY <1>1, Invariant, PTL

\* A start that is accepted finds nothing of an earlier session in the native layer.
THEOREM Released == Spec => []SettledIsReleased
<1>1. IInv => SettledIsReleased
  <2> SUFFICES ASSUME IInv, activeKind = NoKind PROVE SettledIsReleased
    BY DEF SettledIsReleased
  <2>1. wpc = "idle" BY WorkerBusy DEF IInv
  <2> QED BY <2>1 DEF IInv, Held, Holding, SettledIsReleased
<1> QED BY <1>1, Invariant, PTL

\* One session at a time, from the caller's thread through the queue to the worker.
THEOREM SingleSession == Spec => []OneSession
<1>1. IInv => OneSession
  BY DEF IInv, Carried, OneSession
<1> QED BY <1>1, Invariant, PTL

\* The stop flag of an earlier session never makes a session end as Stopped.
THEOREM StoppedIsRequested == Spec => []StoppedOnlyOnRequest
<1>1. IInv => StoppedOnlyOnRequest
  BY DEF IInv, Stops, StoppedOnlyOnRequest
<1> QED BY <1>1, Invariant, PTL

\* A failure is shown with the error that caused it.
THEOREM CauseOfFailure == Spec => []FailureHasCause
<1>1. IInv => FailureHasCause
  BY DEF IInv, Stops, FailureHasCause
<1> QED BY <1>1, Invariant, PTL

\* A client session reported Finished has exchanged results with its server.
THEOREM FinishedIsCompleted == Spec => []FinishedMeansCompleted
<1>1. IInv => FinishedMeansCompleted
  BY DEF IInv, Completes, FinishedMeansCompleted
<1> QED BY <1>1, Invariant, PTL

\* The events shown are those of the session started last.
THEOREM OwnEvents == Spec => []EventsAreOwn
<1>1. IInv => EventsAreOwn
  BY DEF IInv, Held, EventsAreOwn
<1> QED BY <1>1, Invariant, PTL

\* The runtime and its event list are of one session at a time.
THEOREM OwnSession == Spec => []SessionIsOwn
<1>1. SessionIsOwn <=> OneSession /\ EventsAreOwn
  BY DEF SessionIsOwn
<1> QED BY <1>1, SingleSession, OwnEvents, PTL

\* The outcome shown is the one the session had.
THEOREM RightOutcome == Spec => []OutcomeIsRight
<1>1. OutcomeIsRight <=> StoppedOnlyOnRequest /\ FinishedMeansCompleted /\ FailureHasCause
  BY DEF OutcomeIsRight
<1> QED BY <1>1, StoppedIsRequested, FinishedIsCompleted, CauseOfFailure, PTL

\* A stop accepted before the native run claimed its test keeps it from running.
THEOREM StoppedBeforeRun == Spec => StopPreventsRun
<1>1. IInv /\ [Next]_vars => (stopRequested /\ active = NoTest => active' = NoTest)
  <2> SUFFICES ASSUME IInv, Next, stopRequested, active = NoTest PROVE active' = NoTest
    BY DEF vars, sessionVars, jniVars
  <2>1. CASE RunClaim BY <2>1 DEF RunClaim, IInv, Stops
  <2>2. CASE UNCHANGED active BY <2>2
  <2> QED
    BY <2>1, <2>2
       DEF Next, StartSession, Submit, Stop, Worker, TakeTask, PrepareCheck, PrepareCreate,
           PreparePublish, MarkRunning, RunRefused, RunInstall, RunEngine, RunEnd, RunClear,
           RunFree, ReadOutcome, NativeFailure, FinishSession, JsonEvent, StreamThread,
           sessionVars, jniVars
<1> QED BY <1>1, Invariant, PTL DEF StopPreventsRun, Spec
-----------------------------------------------------------------------------
(* Refinement: the observed state is a behaviour of SessionLifecycle.      *)

LEMMA RefinesInit == Init => Lifecycle!Init
BY DEF Init, Lifecycle!Init, Ui, Kinds

LEMMA RefinesStep ==
  IInv /\ [Next]_vars => [Lifecycle!Next]_<<ui.phase, ui.kind>>
<1> SUFFICES ASSUME IInv, [Next]_vars
             PROVE  Lifecycle!Next \/ ui' = ui
  OBVIOUS
<1> USE DEF sessionVars, kotlinVars
<1>b. wpc # "idle" => activeKind = wkind /\ activeKind # NoKind
  BY WorkerBusy DEF IInv
<1>s. Shown /\ Stops BY DEF IInv
<1>1. ASSUME NEW c \in Callers, NEW kind \in Kinds, StartSession(c, kind)
      PROVE  Lifecycle!Start
  BY <1>1, <1>s DEF StartSession, AlreadyRunning, ShowStarting, Ui, Shown, Lifecycle!Start
<1>2. ASSUME NEW c \in Callers, Stop(c) PROVE Lifecycle!Stop
  BY <1>2, <1>s DEF Stop, Ui, Shown, Lifecycle!Stop
<1>3. ASSUME MarkRunning PROVE Lifecycle!Run \/ ui' = ui
  <2>1. CASE stopRequested BY <1>3, <2>1 DEF MarkRunning
  <2>2. CASE ~stopRequested
    BY <1>3, <2>2, <1>s, <1>b DEF MarkRunning, WorkerAt, Ui, Shown, Lifecycle!Run
  <2> QED BY <2>1, <2>2
<1>4. ASSUME FinishSession PROVE Lifecycle!End
  <2>1. ui' = terminal /\ wpc = "finish" /\ activeKind = wkind /\ activeKind # NoKind
    BY <1>4, <1>b DEF FinishSession, WorkerAt
  <2>2. terminal.kind = ui.kind /\ terminal.phase \in Lifecycle!Terminal
    BY <2>1, <1>s DEF Shown
  <2>3. CASE stopRequested
    BY <2>1, <2>2, <2>3, <1>s DEF Shown, Lifecycle!End
  <2>4. CASE ~stopRequested
    <3>1. terminal.phase # "Stopped" /\ (terminal.phase = "Finished" => ui.phase = "Running")
      BY <2>1, <2>4, <1>s DEF Shown, Stops
    <3>2. ui.phase \in {"Starting", "Running"}
      BY <2>1, <2>4, <1>s DEF Shown
    <3> QED BY <2>1, <2>2, <3>1, <3>2 DEF Lifecycle!End, Lifecycle!Terminal
  <2> QED BY <2>3, <2>4
<1>5. CASE UNCHANGED ui BY <1>5
<1> QED
  BY <1>1, <1>2, <1>3, <1>4, <1>5
     DEF Next, Submit, Worker, TakeTask, PrepareCheck, PrepareCreate, PreparePublish,
         RunRefused, RunClaim, RunInstall, RunEngine, RunEnd, RunClear, RunFree,
         ReadOutcome, NativeFailure, JsonEvent, StreamThread, vars, Lifecycle!Next

\* Whatever the user interface observes of the Android runtime is a behaviour of
\* the abstract session life cycle.
THEOREM ImplementsLifecycle == Spec => RefinesLifecycle
BY RefinesInit, RefinesStep, Invariant, PTL DEF Spec, RefinesLifecycle, Lifecycle!Spec
=============================================================================
