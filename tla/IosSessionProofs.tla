--------------------------- MODULE IosSessionProofs ---------------------------
(***************************************************************************)
(* Proofs about IosSession for every number of sessions, every length of   *)
(* the event list and every number of events on their way to the main      *)
(* actor.                                                                  *)
(***************************************************************************)
EXTENDS IosSession, SequenceTheorems, TLAPS

(* A step of the engine keeps its types. *)

LEMMA EngineTypeStep == ASSUME EngineTypeOK, EngineStep PROVE EngineTypeOK'
<1>1. CASE LoopAgain BY <1>1 DEF LoopAgain, EngineTypeOK, EnginePCs
<1>2. CASE LeaveLoop
  BY <1>2 DEF LeaveLoop, CleanupServer, EngineTypeOK, EnginePCs, TestStates, Refusals
<1>3. CASE ClientStep
  BY <1>3 DEF ClientStep, ClientConnect, ClientRead, ClientLoses, ClientWakes, ClientHandle,
     ClientBody, ClientSendsTestEnd, ClientFail, ClientEnd, EngineTypeOK, EnginePCs,
     TestStates, Refusals
<1>4. CASE ServerStep
  BY <1>4 DEF ServerStep, ServerListen, ServerEntersLoop, ServerReadsPipe, ServerAccept,
     ServerStartsTest, ServerHandle, ServerFails, ServerExpires, ServerSelectFails,
     ServerTurns, CleanupServer, AtServerSelect, EngineTypeOK, EnginePCs, TestStates,
     Refusals
<1> QED BY <1>1, <1>2, <1>3, <1>4 DEF EngineStep

(* The inductive invariant, by the piece of the runtime each part is about. *)

\* The kind of the session under way, in start or on the screens.
Current == IF starting # NoKind THEN starting ELSE activeKind

\* Where the worker is while the executor calls its session active.
Counting == {"create", "noTest", "publish", "register", "configure", "checkStop", "engine",
             "returned", "outcome", "unregister", "clear"}

\* A session under way is carried by the queue, the worker or what it has posted.
Carried ==
  /\ starting # NoKind => ui.phase \in Lifecycle!Settled
  /\ Current = NoKind => queue = <<>> /\ wpc = "idle" /\ mailbox = <<>>
  /\ queue # <<>> => Len(queue) = 1 /\ Head(queue) = Current /\ wpc = "idle" /\ mailbox = <<>>
  /\ wpc # "idle" => wkind = Current
  /\ isActive <=> queue # <<>> \/ wpc \in Counting

Holding == {"publish", "register", "configure", "checkStop", "engine", "returned",
            "outcome", "unregister", "clear", "free"}

\* The worker's position says what the executor, the registry and the heap hold.
Held ==
  /\ Current # NoKind => sessions # 0
  /\ wpc \in Holding => test = sessions
  /\ activeTest = IF wpc \in Holding \ {"publish", "free"} THEN test ELSE NoTest
  /\ handlers = IF wpc \in Holding \ {"publish", "register", "clear", "free"} THEN {test} ELSE {}
  /\ \A t \in Tests : heap[t] # "doublefreed"
  /\ \A t \in Tests : heap[t] = "live" <=> wpc \in Holding /\ t = test

\* The main actor has been told, or will be, that the session runs.
Announced ==
  \/ ui.phase = "Running"
  \/ \E k \in DOMAIN mailbox : mailbox[k] = [state |-> Ui("Running", Current)]

\* A session may end in this state.
MayEnd(state) ==
  /\ state.kind = Current /\ state.phase \in Lifecycle!Terminal
  /\ state.phase = "Stopped" => stopRequested
  /\ state.phase = "Finished" /\ ~stopRequested => Announced

\* What the worker posted belongs to its session, and the last of it is its end.
Posted ==
  \A k \in DOMAIN mailbox :
    /\ mailbox[k] \in [json : Tests] => mailbox[k].json = sessions
    /\ mailbox[k] \in [state : UiStates] =>
         \/ mailbox[k].state.phase = "Running" /\ mailbox[k].state.kind = Current
         \/ k = Len(mailbox) /\ wpc = "idle" /\ MayEnd(mailbox[k].state)

\* What the screens see of it.
Shown ==
  /\ starting # NoKind => ~stopRequested
  /\ activeKind # NoKind => (stopRequested <=> ui.phase = "Stopping")
  /\ wpc \in {"engine", "returned", "outcome"} /\ ~stopRequested => Announced
  /\ wpc \in {"noTest", "unregister", "clear", "free", "post"} => MayEnd(event)
  /\ EventsAreOwn

\* In the first session, as long as nobody has asked for a stop, nobody interrupts, so
\* that a client which comes back has closed its control connection.
Undisturbed == sessions <= 1 /\ ~stopRequested

Closes ==
  /\ sessions = 0 => ~stopRequested
  /\ Undisturbed => retries = 0 /\ rpc = "idle"
  /\ wpc \in {"publish", "register", "configure", "checkStop"} =>
       ctrl = "none" /\ (Undisturbed => tstate # "IPERF_DONE")
  /\ wpc = "engine" => role = wkind
  /\ wpc = "engine" /\ wkind = "client" /\ Undisturbed =>
       /\ epc = "enter" => tstate # "IPERF_DONE"
       /\ tstate = "IPERF_DONE" \/ epc = "exit" => ctrl # "open"
  /\ wpc = "returned" => wkind = "client" /\ (Undisturbed => ctrl # "open")
  /\ wpc = "outcome" /\ wkind = "client" /\ sessions = 1 => ctrl # "open"
  /\ wpc = "unregister" /\ wkind = "client" /\ sessions = 1 /\ event.phase = "Stopped" =>
       ctrl # "open"

IInv == TypeOK /\ Carried /\ Held /\ Posted /\ Shown /\ Closes
-----------------------------------------------------------------------------
(* Sequences and messages.                                                 *)

\* The list of the last events keeps its element type and its bound.
LEMMA KeepLastType ==
  ASSUME NEW S, NEW s \in Seq(S), Len(s) <= MaxJsonEvents, NEW e \in S
  PROVE  KeepLast(s, e) \in Seq(S) /\ Len(KeepLast(s, e)) <= MaxJsonEvents
<1>1. CASE Len(s) < MaxJsonEvents
  BY <1>1, MaxJsonEventsAssumption DEF KeepLast
<1>2. CASE ~(Len(s) < MaxJsonEvents)
  <2>1. s # <<>> /\ Len(s) = MaxJsonEvents
    BY <1>2, MaxJsonEventsAssumption
  <2>2. Tail(s) \in Seq(S) /\ Len(Tail(s)) = Len(s) - 1
    BY <2>1
  <2>3. Append(Tail(s), e) \in Seq(S) /\ Len(Append(Tail(s), e)) = Len(s)
    BY <2>1, <2>2, MaxJsonEventsAssumption
  <2> QED BY <1>2, <2>1, <2>3 DEF KeepLast
<1> QED BY <1>1, <1>2

\* A list of events of one session stays one when an event of it is added.
LEMMA KeepLastSame ==
  ASSUME NEW S, NEW s \in Seq(S), Len(s) <= MaxJsonEvents, NEW e \in S,
         \A i \in DOMAIN s : s[i] = e
  PROVE  \A i \in DOMAIN KeepLast(s, e) : KeepLast(s, e)[i] = e
<1>1. CASE Len(s) < MaxJsonEvents
  BY <1>1, MaxJsonEventsAssumption DEF KeepLast
<1>2. CASE ~(Len(s) < MaxJsonEvents)
  <2>1. s # <<>> /\ Len(s) = MaxJsonEvents
    BY <1>2, MaxJsonEventsAssumption
  <2>2. /\ Tail(s) \in Seq(S) /\ Len(Tail(s)) = Len(s) - 1
        /\ \A i \in 1..Len(Tail(s)) : Tail(s)[i] = e
    BY <2>1, HeadTailProperties
  <2>3. \A i \in DOMAIN Append(Tail(s), e) : Append(Tail(s), e)[i] = e
    BY <2>1, <2>2, MaxJsonEventsAssumption
  <2> QED BY <1>2, <2>1, <2>3 DEF KeepLast
<1> QED BY <1>1, <1>2

\* Taking the first message leaves the others, one place earlier.
LEMMA Rest ==
  ASSUME NEW S, NEW s \in Seq(S), s # <<>>
  PROVE  /\ Tail(s) \in Seq(S) /\ Len(Tail(s)) = Len(s) - 1
         /\ 1 \in DOMAIN s /\ Head(s) = s[1] /\ Head(s) \in S
         /\ \A k \in DOMAIN Tail(s) : k + 1 \in DOMAIN s /\ Tail(s)[k] = s[k + 1]
         /\ \A k \in DOMAIN s : k = 1 \/ (k - 1 \in DOMAIN Tail(s) /\ Tail(s)[k - 1] = s[k])
         /\ Len(s) = 1 => Tail(s) = <<>>
<1>1. /\ Tail(s) \in Seq(S) /\ Len(Tail(s)) = Len(s) - 1 /\ Head(s) \in S
      /\ \A i \in 1..Len(Tail(s)) : Tail(s)[i] = s[i + 1]
  BY HeadTailProperties
<1>2. Len(s) \in Nat /\ Len(s) >= 1 /\ DOMAIN s = 1..Len(s) /\ DOMAIN Tail(s) = 1..Len(Tail(s))
  BY <1>1, EmptySeq, LenProperties
<1>3. Head(s) = s[1]
  OBVIOUS
<1>4. Len(s) = 1 => Tail(s) = <<>>
  <2> SUFFICES ASSUME Len(s) = 1 PROVE Tail(s) = <<>>
    OBVIOUS
  <2>1. Len(Tail(s)) = 0 BY <1>1
  <2> QED BY <1>1, <2>1, EmptySeq
<1> QED BY <1>1, <1>2, <1>3, <1>4

\* Posting a message leaves the others where they are.
LEMMA More ==
  ASSUME NEW S, NEW s \in Seq(S), NEW m \in S
  PROVE  /\ Append(s, m) \in Seq(S) /\ Len(Append(s, m)) = Len(s) + 1
         /\ \A k \in DOMAIN s : k \in DOMAIN Append(s, m) /\ Append(s, m)[k] = s[k]
         /\ \A k \in DOMAIN Append(s, m) :
              (k \in DOMAIN s /\ Append(s, m)[k] = s[k]) \/ (k = Len(s) + 1 /\ Append(s, m)[k] = m)
         /\ Len(s) + 1 \in DOMAIN Append(s, m) /\ Append(s, m)[Len(s) + 1] = m
BY AppendProperties, LenProperties

\* A message is of one sort.
LEMMA Sorts ==
  ASSUME NEW m \in Messages
  PROVE  /\ "json" \in DOMAIN m <=> m \in [json : Tests]
         /\ "state" \in DOMAIN m <=> m \in [state : UiStates]
         /\ m \in [json : Tests] => m.json \in Tests
         /\ m \in [state : UiStates] => m.state \in UiStates
BY DEF Messages

LEMMA NoKindIsNone == NoKind \notin Kinds
BY DEF NoKind, Kinds

\* While the worker is busy its session is the one started last.
LEMMA WorkerBusy ==
  ASSUME TypeOK, Carried, Held, wpc # "idle"
  PROVE  Current = wkind /\ Current # NoKind /\ wkind \in Kinds /\ sessions \in Tests
BY NoKindIsNone, MaxSessionsAssumption DEF TypeOK, Carried, Held, Tests

LEMMA UiType ==
  ASSUME NEW kind \in Kinds, NEW phase \in Lifecycle!Busy \cup Lifecycle!Settled
  PROVE  Ui(phase, kind) \in UiStates
BY DEF UiStates, Ui

LEMMA Phases ==
  /\ Lifecycle!Busy = {"Starting", "Running", "Stopping"}
  /\ Lifecycle!Terminal = {"Stopped", "Finished", "Failed"}
  /\ Lifecycle!Settled = {"Idle", "Stopped", "Finished", "Failed"}
BY DEF Lifecycle!Busy, Lifecycle!Terminal, Lifecycle!Settled
-----------------------------------------------------------------------------
(* Types.                                                                  *)

LEMMA TypeInit == Init => TypeOK
<1> SUFFICES ASSUME Init PROVE TypeOK
  OBVIOUS
<1>1. EngineTypeOK BY DEF Init, EngineInit, EngineTypeOK, EnginePCs, Kinds, TestStates
<1>2. ui \in UiStates /\ event \in UiStates BY UiType, Phases DEF Init, Kinds
<1>3. jsonEvents \in Seq(Tests) /\ mailbox \in Seq(Messages) /\ queue \in Seq(Kinds)
  BY DEF Init
<1>4. heap \in [Tests -> {"unborn", "live", "freed", "doublefreed"}] /\ sessions \in 0..MaxSessions
  BY MaxSessionsAssumption DEF Init
<1>5. Len(jsonEvents) <= MaxJsonEvents
  BY MaxJsonEventsAssumption DEF Init
<1> QED
  BY <1>1, <1>2, <1>3, <1>4, <1>5 DEF Init, TypeOK, Kinds, WorkerPCs

LEMMA TypeStep == TypeOK /\ Carried /\ Held /\ [Next]_vars => TypeOK'
<1> SUFFICES ASSUME TypeOK, Carried, Held, [Next]_vars PROVE TypeOK'
  OBVIOUS
<1> USE DEF TypeOK, vars, sessionVars, mainVars, lockVars, workerVars, retryVars, memoryVars,
        WorkerPCs, WorkerAt
<1>p. \A p \in {"Starting", "Running", "Stopping", "Stopped", "Finished", "Failed"}, k \in Kinds :
        Ui(p, k) \in UiStates
  BY UiType, Phases
<1>i. ASSUME Interrupt PROVE EngineTypeOK'
  BY <1>i DEF Interrupt, EngineTypeOK, TestStates, EnginePCs, Refusals
<1>u. ASSUME UNCHANGED engVars PROVE EngineTypeOK'
  BY <1>u DEF engVars, EngineTypeOK, TestStates, EnginePCs, Refusals
<1>1. ASSUME NEW kind \in Kinds, StartSession(kind) PROVE TypeOK'
  <2>1. queue' \in Seq(Kinds) BY <1>1 DEF StartSession
  <2>2. sessions' \in 0..MaxSessions BY <1>1, MaxSessionsAssumption DEF StartSession
  <2> QED BY <1>1, <1>u, <2>1, <2>2 DEF StartSession
<1>2. CASE StartReturns
  <2>1. ui' \in UiStates BY <1>2, <1>p DEF StartReturns
  <2>2. jsonEvents' \in Seq(Tests) /\ Len(jsonEvents') <= MaxJsonEvents
    BY <1>2, MaxJsonEventsAssumption DEF StartReturns
  <2> QED BY <1>2, <1>u, <2>1, <2>2 DEF StartReturns
<1>3. CASE Stop
  <2>1. activeKind \in Kinds BY <1>3 DEF Stop, activeKind, UiStates
  <2>2. ui' \in UiStates BY <1>3, <1>p, <2>1 DEF Stop
  <2>3. EngineTypeOK' BY <1>3, <1>u, <1>i DEF Stop, InterruptActive
  <2> QED BY <1>3, <2>2, <2>3 DEF Stop
<1>4. CASE Deliver
  <2>1. mailbox' \in Seq(Messages) /\ Head(mailbox) \in Messages BY <1>4, Rest DEF Deliver
  <2>2. CASE "json" \in DOMAIN Head(mailbox) /\ jsonEvents' = KeepLast(jsonEvents, Head(mailbox).json)
             /\ UNCHANGED ui
    <3>1. Head(mailbox).json \in Tests BY <2>1, <2>2, Sorts
    <3>2. jsonEvents' \in Seq(Tests) /\ Len(jsonEvents') <= MaxJsonEvents
      BY <2>2, <3>1, KeepLastType
    <3> QED BY <1>4, <1>u, <2>1, <2>2, <3>2 DEF Deliver
  <2>3. CASE "state" \in DOMAIN Head(mailbox) /\ UNCHANGED jsonEvents
             /\ ui' = IF Accepts(Head(mailbox).state) THEN Head(mailbox).state ELSE ui
    <3>1. Head(mailbox).state \in UiStates BY <2>1, <2>3, Sorts
    <3>2. ui' \in UiStates BY <2>3, <3>1
    <3> QED BY <1>4, <1>u, <2>1, <2>3, <3>2 DEF Deliver
  <2> QED BY <1>4, <2>2, <2>3 DEF Deliver
<1>5. CASE Retry
  <2>1. CASE RetryBegin BY <2>1, <1>u DEF RetryBegin
  <2>2. CASE RetryCheck BY <2>2, <1>u, <1>i DEF RetryCheck, InterruptActive
  <2>3. CASE RetryWake BY <2>3, <1>u DEF RetryWake
  <2> QED BY <1>5, <2>1, <2>2, <2>3 DEF Retry
<1>6. CASE Worker
  <2>1. CASE TakeTask
    <3>1. wkind' \in Kinds /\ queue' \in Seq(Kinds) BY <2>1, Rest DEF TakeTask
    <3> QED BY <2>1, <1>u, <3>1 DEF TakeTask
  <2>2. CASE Create
    <3>1. EngineTypeOK'
      BY <2>2, <1>u DEF Create, NewTest, EngineTypeOK, TestStates, EnginePCs, Refusals
    <3>2. CASE wpc' = "publish" /\ test' = sessions /\ heap' = [heap EXCEPT ![sessions] = "live"]
               /\ UNCHANGED event
      <4>1. heap' \in [Tests -> {"unborn", "live", "freed", "doublefreed"}] BY <3>2
      <4>2. test' \in Tests \cup {NoTest} BY <3>2, MaxSessionsAssumption DEF Tests, NoTest
      <4> QED BY <2>2, <3>1, <3>2, <4>1, <4>2 DEF Create
    <3>3. CASE wpc' = "noTest" /\ event' = Ui("Failed", wkind) /\ UNCHANGED <<test, heap>>
      BY <2>2, <3>1, <3>3, <1>p DEF Create
    <3> QED BY <2>2, <3>2, <3>3 DEF Create
  <2>3. CASE FinishWithoutTest BY <2>3, <1>u DEF FinishWithoutTest
  <2>4. CASE Publish BY <2>4, <1>u DEF Publish
  <2>5. CASE Register
    <3>1. test \in Tests BY <2>5, WorkerBusy DEF Register, Held, Holding
    <3> QED BY <2>5, <1>u, <3>1 DEF Register
  <2>6. CASE Configure
    <3>1. event' \in UiStates BY <2>6, <1>p DEF Configure
    <3> QED BY <2>6, <1>u, <3>1 DEF Configure
  <2>7. CASE CheckStop
    <3>1. event' \in UiStates BY <2>7, <1>p DEF CheckStop
    <3>2. mailbox' \in Seq(Messages)
      <4>1. [state |-> Ui("Running", wkind)] \in Messages BY <1>p DEF Messages
      <4>2. Append(mailbox, [state |-> Ui("Running", wkind)]) \in Seq(Messages)
        BY <4>1, More
      <4> QED BY <2>7, <4>2 DEF CheckStop, Post
    <3>3. EngineTypeOK' BY <2>7, <1>u DEF CheckStop, EnterRun, EngineTypeOK, EnginePCs
    <3> QED BY <2>7, <3>1, <3>2, <3>3 DEF CheckStop
  <2>8. CASE RunEngine BY <2>8, EngineTypeStep DEF RunEngine
  <2>9. CASE RunReturns BY <2>9, <1>u DEF RunReturns
  <2>10. CASE EndStoppedClient
    <3>1. EngineTypeOK'
      BY <2>10 DEF EndStoppedClient, ClientEnd, EngineTypeOK, TestStates
    <3> QED BY <2>10, <3>1 DEF EndStoppedClient
  <2>11. CASE Outcome
    <3>1. event' \in UiStates BY <2>11, <1>p DEF Outcome
    <3> QED BY <2>11, <1>u, <3>1 DEF Outcome
  <2>12. CASE Unregister BY <2>12, <1>u DEF Unregister
  <2>13. CASE ClearActiveTest BY <2>13, <1>u DEF ClearActiveTest
  <2>14. CASE FreeTest
    <3>1. EngineTypeOK' BY <2>14 DEF FreeTest, EngineTypeOK, EnginePCs
    <3> QED BY <2>14, <3>1 DEF FreeTest
  <2>15. CASE Complete
    <3>1. mailbox' \in Seq(Messages)
      <4>1. [state |-> event] \in Messages BY DEF Messages
      <4> QED BY <2>15, <4>1, More DEF Complete, Post
    <3> QED BY <2>15, <1>u, <3>1 DEF Complete
  <2> QED BY <1>6, <2>1, <2>2, <2>3, <2>4, <2>5, <2>6, <2>7, <2>8, <2>9, <2>10, <2>11,
             <2>12, <2>13, <2>14, <2>15 DEF Worker
<1>7. CASE JsonEvent
  <2>1. mailbox' \in Seq(Messages)
    <3>1. [json |-> test] \in Messages BY <1>7 DEF JsonEvent, Messages
    <3> QED BY <1>7, <3>1, More DEF JsonEvent, Post
  <2> QED BY <1>7, <1>u, <2>1 DEF JsonEvent
<1>8. CASE StreamThread
  BY <1>8 DEF StreamThread, WorkersEnd, EngineTypeOK, EnginePCs, TestStates
<1>9. CASE UNCHANGED vars BY <1>9, <1>u
<1> QED BY <1>1, <1>2, <1>3, <1>4, <1>5, <1>6, <1>7, <1>8, <1>9 DEF Next
-----------------------------------------------------------------------------
(* The parts of the invariant, one lemma each.                             *)

\* A session is under way when the main actor or start() says so.
LEMMA UnderWay ==
  ASSUME TypeOK, Carried
  PROVE  /\ Current \in Kinds \cup {NoKind}
         /\ starting = NoKind => Current = activeKind
         /\ starting # NoKind => Current = starting /\ activeKind = NoKind
         /\ activeKind # NoKind => activeKind = ui.kind
         /\ activeKind # NoKind <=> ui.phase \in {"Starting", "Running", "Stopping"}
         /\ activeKind = NoKind <=> ui.phase \in {"Idle", "Stopped", "Finished", "Failed"}
BY NoKindIsNone, Phases DEF TypeOK, Carried, Current, activeKind, UiStates

\* The three kinds of message: an event, the session runs, the session has ended.
LEMMA Delivered ==
  ASSUME TypeOK, Carried, Posted, Deliver
  PROVE  /\ starting = NoKind /\ Current = activeKind /\ activeKind # NoKind
         /\ \/ /\ ui' = ui
               /\ Head(mailbox) \in [json : Tests]
               /\ jsonEvents' = KeepLast(jsonEvents, sessions)
            \/ /\ Head(mailbox) = [state |-> Ui("Running", activeKind)]
               /\ ui' = IF ui.phase = "Starting" THEN Ui("Running", activeKind) ELSE ui
               /\ jsonEvents' = jsonEvents
            \/ /\ mailbox' = <<>>
               /\ wpc = "idle"
               /\ ui' \in UiStates /\ MayEnd(ui')
               /\ Len(mailbox) = 1 /\ Head(mailbox) = [state |-> ui']
               /\ jsonEvents' = jsonEvents
<1> DEFINE m == Head(mailbox)
<1>1. mailbox # <<>> /\ starting = NoKind BY DEF Deliver
<1>2. Current = activeKind /\ activeKind # NoKind BY <1>1, UnderWay DEF Carried
<1>3. /\ m \in Messages /\ 1 \in DOMAIN mailbox /\ m = mailbox[1] /\ mailbox' = Tail(mailbox)
      /\ Len(mailbox) = 1 => Tail(mailbox) = <<>>
  BY <1>1, Rest DEF TypeOK, Deliver
<1>4. CASE "json" \in DOMAIN m /\ jsonEvents' = KeepLast(jsonEvents, m.json) /\ ui' = ui
  <2>1. m \in [json : Tests]
    <3>1. m \in Messages /\ "json" \in DOMAIN m BY <1>3, <1>4
    <3> HIDE DEF m
    <3> QED BY <3>1, Sorts, Zenon
  <2>2. m.json = sessions
    <3>1. mailbox[1] \in [json : Tests] BY <1>3, <2>1
    <3>2. mailbox[1].json = sessions BY <1>3, <3>1, Zenon DEF Posted
    <3> QED BY <1>3, <3>2
  <2> QED BY <1>1, <1>2, <1>4, <2>1, <2>2
<1>5. CASE "state" \in DOMAIN m /\ ui' = (IF Accepts(m.state) THEN m.state ELSE ui)
           /\ jsonEvents' = jsonEvents
  <2>1. m \in [state : UiStates] /\ m.state \in UiStates
    <3>1. m \in Messages /\ "state" \in DOMAIN m BY <1>3, <1>5
    <3> HIDE DEF m
    <3>2. m \in [state : UiStates] BY <3>1, Sorts, Zenon
    <3> QED BY <3>1, <3>2, Sorts, Zenon
  <2>2. CASE m.state.phase = "Running" /\ m.state.kind = Current
    <3>1. m.state = Ui("Running", activeKind) /\ m = [state |-> Ui("Running", activeKind)]
      BY <1>2, <2>1, <2>2 DEF UiStates, Ui
    <3> QED BY <1>1, <1>2, <1>5, <2>2, <3>1 DEF Accepts
  <2>3. CASE 1 = Len(mailbox) /\ wpc = "idle" /\ MayEnd(m.state)
    <3>1. m.state.phase # "Running" /\ m.state.kind = activeKind
      BY <1>2, <2>3, Phases DEF MayEnd
    <3>2. ui' = m.state BY <1>5, <3>1 DEF Accepts
    <3>3. m = [state |-> ui'] /\ ui' \in UiStates BY <2>1, <3>2
    <3>4. MayEnd(ui') BY <2>3, <3>2
    <3>5. mailbox' = <<>> BY <1>3, <2>3
    <3> QED BY <1>1, <1>2, <1>5, <2>3, <3>3, <3>4, <3>5, Zenon
  <2>4. mailbox[1] \in [state : UiStates] BY <1>3, <2>1
  <2>5. \/ m.state.phase = "Running" /\ m.state.kind = Current
        \/ 1 = Len(mailbox) /\ wpc = "idle" /\ MayEnd(m.state)
    BY <1>3, <2>4, Zenon DEF Posted
  <2> QED BY <2>2, <2>3, <2>5
<1> QED BY <1>4, <1>5 DEF Deliver

LEMMA CarriedStep == TypeOK /\ Carried /\ Held /\ Posted /\ [Next]_vars => Carried'
<1> SUFFICES ASSUME TypeOK, Carried, Held, Posted, [Next]_vars PROVE Carried'
  OBVIOUS
<1> USE DEF vars, sessionVars, mainVars, lockVars, workerVars, WorkerAt, Counting
<1>s. ASSUME UNCHANGED <<ui, starting>> PROVE UNCHANGED Current
  BY <1>s DEF Current, activeKind
<1>c. wpc # "idle" => Current = wkind /\ Current # NoKind
  BY WorkerBusy
<1>1. ASSUME NEW kind \in Kinds, StartSession(kind) PROVE Carried'
  <2>1. Current = NoKind /\ Current' = kind /\ kind # NoKind
    BY <1>1, UnderWay, NoKindIsNone DEF StartSession, Current
  <2>2. queue = <<>> /\ wpc = "idle" /\ mailbox = <<>> BY <2>1 DEF Carried
  <2>3. ui.phase \in Lifecycle!Settled BY <1>1, UnderWay, Phases DEF StartSession
  <2>4. queue' # <<>> /\ Len(queue') = 1 /\ Head(queue') = kind
    BY <1>1, <2>2 DEF StartSession
  <2> QED BY <1>1, <2>1, <2>2, <2>3, <2>4 DEF StartSession, Carried
<1>2. CASE StartReturns
  <2>1. Current' = starting /\ Current = starting
    BY <1>2, Phases DEF StartReturns, Current, activeKind, Ui
  <2> QED BY <1>2, <2>1 DEF StartReturns, Carried
<1>3. CASE Stop
  <2>1. Current' = Current
    BY <1>3, UnderWay, Phases DEF Stop, Current, activeKind, Ui
  <2> QED BY <1>3, <2>1 DEF Stop, Carried
<1>4. CASE Deliver
  <2>1. /\ starting = NoKind /\ starting' = NoKind
        /\ UNCHANGED <<queue, wpc, wkind, isActive>>
        /\ queue = <<>>
    BY <1>4 DEF Deliver, Carried
  <2>2. CASE ui' = ui
    <3>1. Current' = Current /\ Current # NoKind
      BY <1>4, <2>1, <2>2, <1>s, Delivered
    <3> QED BY <2>1, <3>1 DEF Carried
  <2>3. CASE ui.phase = "Starting" /\ ui' = Ui("Running", activeKind)
    <3>1. Current' = Current /\ Current # NoKind
      BY <1>4, <2>1, <2>3, Delivered, Phases DEF Current, activeKind, Ui
    <3> QED BY <2>1, <3>1 DEF Carried
  <2>4. CASE mailbox' = <<>> /\ wpc = "idle"
    BY <2>1, <2>4 DEF Carried
  <2> QED BY <1>4, <2>2, <2>3, <2>4, Delivered
<1>5. CASE Retry
  BY <1>5, <1>s DEF Retry, RetryBegin, RetryCheck, RetryWake, Carried
<1>6. CASE Worker
  <2>1. CASE TakeTask
    <3>1. Head(queue) = Current /\ queue' = <<>> /\ Current # NoKind
      BY <2>1, Rest DEF TakeTask, TypeOK, Carried
    <3> QED BY <2>1, <3>1, <1>s DEF TakeTask, Carried
  <2>2. CASE FinishWithoutTest BY <2>2, <1>s, <1>c DEF FinishWithoutTest, Carried
  <2>3. CASE ClearActiveTest BY <2>3, <1>s, <1>c DEF ClearActiveTest, Carried
  <2>4. CASE Complete BY <2>4, <1>s, <1>c DEF Complete, Carried
  <2>5. CASE /\ wpc # "idle" /\ wpc' # "idle"
             /\ wpc \in Counting <=> wpc' \in Counting
             /\ UNCHANGED <<ui, starting, isActive, queue, wkind>>
    <3>1. Current' = Current /\ Current # NoKind /\ wkind = Current /\ queue = <<>>
      BY <2>5, <1>s, <1>c DEF Carried
    <3> QED BY <2>5, <3>1 DEF Carried
  <2> QED
    BY <1>6, <2>1, <2>2, <2>3, <2>4, <2>5
       DEF Worker, Create, Publish, Register, Configure, CheckStop, RunEngine, RunReturns,
           EndStoppedClient, Outcome, Unregister, FreeTest
<1>7. CASE JsonEvent
  BY <1>7, <1>s, <1>c DEF JsonEvent, Carried
<1>8. CASE StreamThread BY <1>8, <1>s DEF StreamThread, Carried
<1>9. CASE UNCHANGED vars BY <1>9, <1>s DEF Carried
<1> QED BY <1>1, <1>2, <1>3, <1>4, <1>5, <1>6, <1>7, <1>8, <1>9 DEF Next

LEMMA HeldStep == TypeOK /\ Carried /\ Held /\ Posted /\ [Next]_vars => Held'
<1> SUFFICES ASSUME TypeOK, Carried, Held, Posted, [Next]_vars PROVE Held'
  OBVIOUS
<1> USE DEF Held, Holding, vars, sessionVars, mainVars, lockVars, workerVars, memoryVars, WorkerAt
<1>s. ASSUME UNCHANGED <<ui, starting>> PROVE UNCHANGED Current
  BY <1>s DEF Current, activeKind
<1>t. /\ heap \in [Tests -> {"unborn", "live", "freed", "doublefreed"}]
      /\ 0 \notin Tests /\ NoTest = 0
      /\ wpc # "idle" => sessions \in Tests
  BY WorkerBusy, MaxSessionsAssumption DEF TypeOK, Tests, NoTest
<1>1. ASSUME NEW kind \in Kinds, StartSession(kind) PROVE Held'
  <2>1. Current = NoKind BY <1>1 DEF StartSession, Current
  <2>2. wpc = "idle" BY <2>1 DEF Carried
  <2>3. sessions' # 0 BY <1>1 DEF StartSession, TypeOK
  <2> QED BY <1>1, <2>2, <2>3 DEF StartSession
<1>2. CASE StartReturns
  <2>1. Current # NoKind BY <1>2, UnderWay, NoKindIsNone DEF StartReturns
  <2> QED BY <1>2, <2>1 DEF StartReturns
<1>3. CASE Stop
  <2>1. Current # NoKind BY <1>3, UnderWay DEF Stop
  <2> QED BY <1>3, <2>1 DEF Stop
<1>4. CASE Deliver
  <2>1. Current # NoKind BY <1>4, Delivered
  <2> QED BY <1>4, <2>1 DEF Deliver
<1>5. CASE Retry
  BY <1>5, <1>s DEF Retry, RetryBegin, RetryCheck, RetryWake
<1>6. CASE Worker
  <2>1. CASE TakeTask BY <2>1, <1>s DEF TakeTask
  <2>2. CASE Create
    <3>1. CASE wpc' = "publish" /\ test' = sessions /\ heap' = [heap EXCEPT ![sessions] = "live"]
      BY <2>2, <3>1, <1>s, <1>t DEF Create
    <3>2. CASE wpc' = "noTest" /\ UNCHANGED <<test, heap>>
      BY <2>2, <3>2, <1>s, <1>t DEF Create
    <3> QED BY <2>2, <3>1, <3>2 DEF Create
  <2>3. CASE FinishWithoutTest BY <2>3, <1>s DEF FinishWithoutTest
  <2>4. CASE Publish BY <2>4, <1>s DEF Publish
  <2>5. CASE Register BY <2>5, <1>s DEF Register
  <2>6. CASE Configure BY <2>6, <1>s DEF Configure
  <2>7. CASE CheckStop BY <2>7, <1>s DEF CheckStop
  <2>8. CASE RunEngine BY <2>8, <1>s DEF RunEngine
  <2>9. CASE RunReturns BY <2>9, <1>s DEF RunReturns
  <2>10. CASE EndStoppedClient BY <2>10, <1>s DEF EndStoppedClient
  <2>11. CASE Outcome BY <2>11, <1>s DEF Outcome
  <2>12. CASE Unregister BY <2>12, <1>s DEF Unregister
  <2>13. CASE ClearActiveTest BY <2>13, <1>s DEF ClearActiveTest
  <2>14. CASE FreeTest BY <2>14, <1>s, <1>t DEF FreeTest
  <2>15. CASE Complete BY <2>15, <1>s DEF Complete
  <2> QED BY <1>6, <2>1, <2>2, <2>3, <2>4, <2>5, <2>6, <2>7, <2>8, <2>9, <2>10, <2>11,
             <2>12, <2>13, <2>14, <2>15 DEF Worker
<1>7. CASE JsonEvent BY <1>7, <1>s DEF JsonEvent
<1>8. CASE StreamThread BY <1>8, <1>s DEF StreamThread
<1>9. CASE UNCHANGED vars BY <1>9, <1>s
<1> QED BY <1>1, <1>2, <1>3, <1>4, <1>5, <1>6, <1>7, <1>8, <1>9 DEF Next

\* An announcement survives whatever leaves the mailbox a prefix.
LEMMA StillAnnounced ==
  ASSUME TypeOK, UNCHANGED <<ui, starting>>,
         mailbox' = mailbox \/ \E m \in Messages : mailbox' = Append(mailbox, m)
  PROVE  /\ Current' = Current /\ activeKind' = activeKind
         /\ Announced => Announced'
<1>1. Current' = Current /\ activeKind' = activeKind BY DEF Current, activeKind
<1>2. \A k \in DOMAIN mailbox : k \in DOMAIN mailbox' /\ mailbox'[k] = mailbox[k]
  <2>1. CASE mailbox' = mailbox BY <2>1
  <2>2. ASSUME NEW m \in Messages, mailbox' = Append(mailbox, m)
        PROVE  \A k \in DOMAIN mailbox : k \in DOMAIN mailbox' /\ mailbox'[k] = mailbox[k]
    BY <2>2, More DEF TypeOK
  <2> QED BY <2>1, <2>2
<1> QED BY <1>1, <1>2 DEF Announced

\* The announcement is only taken out of the mailbox to be shown.
LEMMA AnnouncedIsShown ==
  ASSUME TypeOK, Carried, Posted, Shown, Deliver, Announced
  PROVE  Announced' \/ stopRequested \/ (mailbox' = <<>> /\ wpc = "idle")
<1> SUFFICES ASSUME ~stopRequested, ~(mailbox' = <<>> /\ wpc = "idle") PROVE Announced'
  OBVIOUS
<1>1. starting = NoKind /\ starting' = NoKind /\ Current = activeKind /\ activeKind # NoKind
  BY Delivered DEF Deliver
<1>2. ui.phase \in {"Starting", "Running"} BY <1>1, UnderWay DEF Shown
<1>3. /\ ui.kind = activeKind
      /\ ui' = ui \/ (ui.phase = "Starting" /\ ui' = Ui("Running", activeKind))
  BY <1>1, UnderWay, Delivered
<1>4. Current' = Current BY <1>1, <1>2, <1>3, Phases DEF Current, activeKind, Ui
<1>5. CASE ui'.phase = "Running" BY <1>5 DEF Announced
<1>6. CASE ui'.phase # "Running"
  <2>1. ui' = ui /\ ui.phase = "Starting" BY <1>2, <1>3, <1>6 DEF Ui
  <2>2. PICK k \in DOMAIN mailbox : mailbox[k] = [state |-> Ui("Running", Current)]
    BY <2>1 DEF Announced
  <2>3. Head(mailbox) # mailbox[k]
    <3>1. "json" \notin DOMAIN mailbox[k] BY <2>2
    <3>2. Head(mailbox) \in [json : Tests] \/ (Head(mailbox) # mailbox[k])
      BY <1>1, <1>2, <2>1, <2>2, Delivered DEF Ui
    <3> QED BY <3>1, <3>2
  <2>4. mailbox # <<>> /\ mailbox' = Tail(mailbox) BY DEF Deliver
  <2>5. k - 1 \in DOMAIN mailbox' /\ mailbox'[k - 1] = mailbox[k]
    BY <2>2, <2>3, <2>4, Rest DEF TypeOK
  <2> QED BY <1>4, <2>2, <2>5 DEF Announced
<1> QED BY <1>5, <1>6

LEMMA PostedStep == TypeOK /\ Carried /\ Held /\ Posted /\ Shown /\ [Next]_vars => Posted'
<1> SUFFICES ASSUME TypeOK, Carried, Held, Posted, Shown, [Next]_vars PROVE Posted'
  OBVIOUS
<1> USE DEF vars, sessionVars, mainVars, lockVars, workerVars, memoryVars, WorkerAt
<1>c. wpc # "idle" => Current = wkind /\ Current # NoKind /\ sessions \in Tests
  BY WorkerBusy
<1>e. mailbox' = <<>> => Posted' BY DEF Posted
<1>f. ASSUME UNCHANGED <<mailbox, sessions, Current>>, wpc = "idle" => wpc' = "idle",
             stopRequested => stopRequested', Announced => Announced' \/ stopRequested'
      PROVE  Posted'
  BY <1>f DEF Posted, MayEnd
<1>p. ASSUME NEW m \in Messages, mailbox' = Append(mailbox, m), wpc # "idle",
             UNCHANGED <<ui, starting, sessions, stopRequested>>,
             m \in [json : Tests] => m.json = sessions,
             m \in [state : UiStates] =>
               \/ m.state.phase = "Running" /\ m.state.kind = Current
               \/ wpc' = "idle" /\ MayEnd(m.state)
      PROVE  Posted'
  <2>1. Current' = Current /\ (Announced => Announced') BY <1>p, StillAnnounced
  <2>2. Len(mailbox') = Len(mailbox) + 1 BY <1>p, More DEF TypeOK
  <2> SUFFICES ASSUME NEW k \in DOMAIN mailbox'
               PROVE  /\ mailbox'[k] \in [json : Tests] => mailbox'[k].json = sessions'
                      /\ mailbox'[k] \in [state : UiStates] =>
                           \/ mailbox'[k].state.phase = "Running" /\ mailbox'[k].state.kind = Current'
                           \/ k = Len(mailbox') /\ wpc' = "idle" /\ MayEnd(mailbox[k].state)'
    BY DEF Posted
  <2>3. CASE k \in DOMAIN mailbox /\ mailbox'[k] = mailbox[k]
    BY <1>p, <2>1, <2>3 DEF Posted
  <2>4. CASE k = Len(mailbox) + 1 /\ mailbox'[k] = m
    BY <1>p, <2>1, <2>2, <2>4 DEF MayEnd
  <2> QED BY <1>p, <2>3, <2>4, More DEF TypeOK
<1>1. ASSUME NEW kind \in Kinds, StartSession(kind) PROVE Posted'
  <2>1. mailbox = <<>> BY <1>1 DEF StartSession, Carried, Current
  <2> QED BY <1>1, <1>e, <2>1 DEF StartSession
<1>2. CASE StartReturns
  <2>1. Current' = Current /\ ui.phase # "Running"
    BY <1>2, UnderWay, Phases DEF StartReturns, Current, activeKind, Ui
  <2>2. Announced => Announced' BY <1>2, <2>1 DEF StartReturns, Announced
  <2> QED BY <1>2, <1>f, <2>1, <2>2 DEF StartReturns
<1>3. CASE Stop
  <2>1. Current' = Current BY <1>3, UnderWay, Phases DEF Stop, Current, activeKind, Ui
  <2> QED BY <1>3, <1>f, <2>1 DEF Stop
<1>4. CASE Deliver
  <2>1. /\ mailbox # <<>> /\ mailbox' = Tail(mailbox) /\ starting = NoKind
        /\ UNCHANGED <<sessions, wpc, stopRequested, starting>>
    BY <1>4 DEF Deliver
  <2>2. CASE mailbox' = <<>> BY <1>e, <2>2
  <2>3. CASE mailbox' # <<>>
    <3>1. Current' = Current
      BY <1>4, <2>1, <2>3, Delivered, Phases DEF Current, activeKind, Ui
    <3>2. Announced => Announced' \/ stopRequested BY <1>4, <2>3, AnnouncedIsShown
    <3>3. /\ Len(mailbox') = Len(mailbox) - 1 /\ Len(mailbox) \in Nat
          /\ \A k \in DOMAIN mailbox' : k \in Nat /\ k + 1 \in DOMAIN mailbox /\ mailbox'[k] = mailbox[k + 1]
      BY <2>1, Rest, LenProperties DEF TypeOK
    <3> SUFFICES ASSUME NEW k \in DOMAIN mailbox'
                 PROVE  /\ mailbox'[k] \in [json : Tests] => mailbox'[k].json = sessions'
                        /\ mailbox'[k] \in [state : UiStates] =>
                             \/ mailbox'[k].state.phase = "Running" /\ mailbox'[k].state.kind = Current'
                             \/ k = Len(mailbox') /\ wpc' = "idle" /\ MayEnd(mailbox[k].state)'
      BY DEF Posted
    <3>4. k + 1 \in DOMAIN mailbox /\ mailbox'[k] = mailbox[k + 1] /\ k \in Nat BY <3>3
    <3>5. CASE mailbox'[k] \in [json : Tests]
      <4>1. mailbox[k + 1].json = sessions BY <3>4, <3>5 DEF Posted
      <4>2. mailbox'[k] \notin [state : UiStates] BY <3>5
      <4> QED BY <2>1, <3>4, <4>1, <4>2
    <3>6. CASE mailbox'[k] \in [state : UiStates]
      <4> DEFINE st == mailbox[k + 1].state
      <4>1. \/ st.phase = "Running" /\ st.kind = Current
            \/ k + 1 = Len(mailbox) /\ wpc = "idle" /\ MayEnd(st)
        BY <3>4, <3>6 DEF Posted
      <4>2. mailbox'[k].state = st /\ mailbox'[k] \notin [json : Tests] BY <3>4, <3>6
      <4>3. k + 1 = Len(mailbox) => k = Len(mailbox') BY <3>3, <3>4
      <4>4. MayEnd(st) => MayEnd(mailbox[k].state)'
        BY <2>1, <3>1, <3>2, <4>2 DEF MayEnd
      <4> QED BY <2>1, <3>1, <4>1, <4>2, <4>3, <4>4
    <3> QED BY <3>5, <3>6
  <2> QED BY <2>2, <2>3
<1>5. CASE Retry
  <2>1. UNCHANGED <<ui, starting, mailbox, sessions, wpc, stopRequested>>
    BY <1>5 DEF Retry, RetryBegin, RetryCheck, RetryWake
  <2> QED BY <1>f, <2>1, StillAnnounced
<1>6. CASE Worker
  <2>1. CASE TakeTask
    <3>1. mailbox' = <<>> BY <2>1 DEF TakeTask, Carried
    <3> QED BY <1>e, <3>1
  <2>2. CASE CheckStop /\ ~stopRequested
    <3> DEFINE m == [state |-> Ui("Running", wkind)]
    <3>1. m \in Messages /\ m \notin [json : Tests]
      BY UiType, Phases DEF TypeOK, Messages
    <3>2. m.state.phase = "Running" /\ m.state.kind = Current
      BY <2>2, <1>c DEF CheckStop, Ui
    <3> QED BY <2>2, <1>p, <3>1, <3>2 DEF CheckStop, Post
  <2>3. CASE Complete
    <3> DEFINE m == [state |-> event]
    <3>1. m \in Messages /\ m \notin [json : Tests] /\ m.state = event
      BY DEF TypeOK, Messages
    <3>2. MayEnd(event) BY <2>3 DEF Complete, Shown
    <3> QED BY <2>3, <1>p, <3>1, <3>2 DEF Complete, Post
  <2>4. CASE wpc # "idle" /\ UNCHANGED <<ui, starting, mailbox, sessions, stopRequested>>
    BY <1>f, <2>4, StillAnnounced
  <2> QED
    BY <1>6, <2>1, <2>2, <2>3, <2>4
       DEF Worker, Create, FinishWithoutTest, Publish, Register, Configure, CheckStop,
           RunEngine, RunReturns, EndStoppedClient, Outcome, Unregister, ClearActiveTest,
           FreeTest
<1>7. CASE JsonEvent
  <2> DEFINE m == [json |-> test]
  <2>1. test = sessions /\ test \in Tests BY <1>7, <1>c DEF JsonEvent, Held, Holding
  <2>2. m \in Messages /\ m \notin [state : UiStates] /\ m.json = sessions
    BY <2>1 DEF Messages
  <2> QED BY <1>7, <1>p, <2>2 DEF JsonEvent, Post
<1>8. CASE StreamThread
  BY <1>8, <1>f, StillAnnounced DEF StreamThread
<1>9. CASE UNCHANGED vars BY <1>9, <1>f, StillAnnounced
<1> QED BY <1>1, <1>2, <1>3, <1>4, <1>5, <1>6, <1>7, <1>8, <1>9 DEF Next

LEMMA ShownStep == TypeOK /\ Carried /\ Held /\ Posted /\ Shown /\ [Next]_vars => Shown'
<1> SUFFICES ASSUME TypeOK, Carried, Held, Posted, Shown, [Next]_vars PROVE Shown'
  OBVIOUS
<1> USE DEF vars, sessionVars, mainVars, lockVars, workerVars, memoryVars, WorkerAt
<1>c. wpc # "idle" => Current = wkind /\ Current # NoKind /\ sessions \in Tests
  BY WorkerBusy
<1>l. "Failed" \in Lifecycle!Terminal /\ "Stopped" \in Lifecycle!Terminal /\ "Finished" \in Lifecycle!Terminal
  BY Phases
<1>f. ASSUME UNCHANGED <<ui, starting, jsonEvents, sessions, stopRequested>>,
             mailbox' = mailbox \/ \E m \in Messages : mailbox' = Append(mailbox, m),
             wpc' \in {"engine", "returned", "outcome"} /\ ~stopRequested =>
               Announced \/ Announced',
             wpc' \in {"noTest", "unregister", "clear", "free", "post"} =>
               MayEnd(event) /\ event' = event
      PROVE  Shown'
  BY <1>f, StillAnnounced DEF Shown, MayEnd, EventsAreOwn
<1>g. ASSUME UNCHANGED <<ui, starting, jsonEvents, mailbox, sessions, stopRequested, wpc, event>>
      PROVE  Shown'
  BY <1>f, <1>g DEF Shown
<1>1. ASSUME NEW kind \in Kinds, StartSession(kind) PROVE Shown'
  <2>1. wpc = "idle" BY <1>1 DEF StartSession, Carried, Current
  <2>2. activeKind' = NoKind BY <1>1 DEF StartSession, activeKind
  <2> QED BY <1>1, <2>1, <2>2, NoKindIsNone DEF StartSession, Shown, EventsAreOwn
<1>2. CASE StartReturns
  <2>1. Current' = Current /\ ui.phase # "Running" /\ ui'.phase = "Starting" /\ ~stopRequested
    BY <1>2, UnderWay, Phases DEF StartReturns, Current, activeKind, Ui, Shown
  <2>2. Announced => Announced' BY <1>2, <2>1 DEF StartReturns, Announced
  <2>3. DOMAIN jsonEvents' = {} BY <1>2 DEF StartReturns
  <2> QED BY <1>2, <2>1, <2>2, <2>3 DEF StartReturns, Shown, MayEnd, EventsAreOwn
<1>3. CASE Stop
  <2>1. Current' = Current BY <1>3, UnderWay, Phases DEF Stop, Current, activeKind, Ui
  <2> QED BY <1>3, <2>1 DEF Stop, Shown, MayEnd, EventsAreOwn, Ui
<1>4. CASE Deliver
  <2>1. /\ starting = NoKind
        /\ UNCHANGED <<sessions, wpc, stopRequested, starting, event>>
    BY <1>4 DEF Deliver
  <2>2. EventsAreOwn'
    <3>1. CASE jsonEvents' = jsonEvents BY <2>1, <3>1 DEF Shown, EventsAreOwn
    <3>2. CASE jsonEvents' = KeepLast(jsonEvents, sessions)
      <4>1. Current # NoKind BY <1>4, Delivered
      <4>2. sessions \in Tests BY <4>1, MaxSessionsAssumption DEF TypeOK, Held, Tests
      <4>3. \A i \in DOMAIN jsonEvents' : jsonEvents'[i] = sessions
        BY <2>1, <3>2, <4>2, KeepLastSame DEF TypeOK, Shown, EventsAreOwn
      <4> QED BY <2>1, <4>3 DEF EventsAreOwn
    <3> QED BY <1>4, <3>1, <3>2, Delivered
  <2>3. CASE mailbox' = <<>> /\ wpc = "idle" /\ MayEnd(ui')
    <3>1. activeKind' = NoKind
      BY <2>3, Phases DEF MayEnd, activeKind
    <3> QED BY <2>1, <2>2, <2>3, <3>1 DEF Shown
  <2>4. CASE /\ Announced => Announced' \/ stopRequested
             /\ \/ ui' = ui
                \/ ui.phase = "Starting" /\ ui' = Ui("Running", activeKind)
    <3>1. Current' = Current /\ activeKind' = activeKind
      BY <1>4, <2>1, <2>4, Delivered, Phases DEF Current, activeKind, Ui
    <3>2. stopRequested <=> ui.phase = "Stopping" BY <1>4, Delivered DEF Shown
    <3>3. ui'.phase = "Stopping" <=> ui.phase = "Stopping" BY <2>4 DEF Ui
    <3> QED BY <2>1, <2>2, <2>4, <3>1, <3>2, <3>3 DEF Shown, MayEnd
  <2> QED
    <3>1. Announced => Announced' \/ stopRequested \/ (mailbox' = <<>> /\ wpc = "idle")
      BY <1>4, AnnouncedIsShown
    <3>2. CASE /\ mailbox' = <<>> /\ wpc = "idle"
               /\ \/ ui' = ui
                  \/ ui.phase = "Starting" /\ ui' = Ui("Running", activeKind)
      <4>1. activeKind' = activeKind /\ activeKind # NoKind
        BY <1>4, <3>2, Delivered, Phases DEF activeKind, Ui
      <4>2. stopRequested <=> ui.phase = "Stopping" BY <4>1 DEF Shown
      <4>3. ui'.phase = "Stopping" <=> ui.phase = "Stopping" BY <3>2 DEF Ui
      <4> QED BY <2>1, <2>2, <3>2, <4>1, <4>2, <4>3 DEF Shown
    <3> QED BY <1>4, <2>3, <2>4, <3>1, <3>2, Delivered
<1>5. CASE Retry
  BY <1>5, <1>g DEF Retry, RetryBegin, RetryCheck, RetryWake
<1>6. CASE Worker
  <2>1. CASE TakeTask BY <2>1, <1>f DEF TakeTask
  <2>2. CASE Create
    <3>1. CASE wpc' = "publish" BY <2>2, <3>1, <1>f DEF Create
    <3>2. CASE wpc' = "noTest" /\ event' = Ui("Failed", wkind)
      <4>1. MayEnd(event)'
        BY <2>2, <3>2, <1>c, <1>l, StillAnnounced DEF Create, MayEnd, Ui
      <4> QED BY <2>2, <3>2, <4>1, StillAnnounced DEF Create, Shown, EventsAreOwn
    <3> QED BY <2>2, <3>1, <3>2 DEF Create
  <2>3. CASE FinishWithoutTest BY <2>3, <1>f DEF FinishWithoutTest, Shown
  <2>4. CASE Publish BY <2>4, <1>f DEF Publish
  <2>5. CASE Register BY <2>5, <1>f DEF Register
  <2>6. CASE Configure
    <3>1. CASE wpc' = "checkStop" BY <2>6, <3>1, <1>f DEF Configure
    <3>2. CASE wpc' = "unregister" /\ event' = Ui("Failed", wkind)
      <4>1. MayEnd(event)'
        BY <2>6, <3>2, <1>c, <1>l, StillAnnounced DEF Configure, MayEnd, Ui
      <4> QED BY <2>6, <3>2, <4>1, StillAnnounced DEF Configure, Shown, EventsAreOwn
    <3> QED BY <2>6, <3>1, <3>2 DEF Configure
  <2>7. CASE CheckStop
    <3>1. CASE stopRequested
      <4>1. MayEnd(event)'
        BY <2>7, <3>1, <1>c, <1>l, StillAnnounced DEF CheckStop, MayEnd, Ui
      <4> QED BY <2>7, <3>1, <4>1, StillAnnounced DEF CheckStop, Shown, EventsAreOwn
    <3>2. CASE ~stopRequested
      <4> DEFINE m == [state |-> Ui("Running", wkind)]
      <4>1. m \in Messages BY UiType, Phases DEF TypeOK, Messages
      <4>2. mailbox' = Append(mailbox, m) BY <2>7, <3>2 DEF CheckStop, Post
      <4>3. Current' = wkind BY <2>7, <4>1, <4>2, <1>c, StillAnnounced DEF CheckStop
      <4>4. Announced' BY <4>1, <4>2, <4>3, More DEF TypeOK, Announced
      <4> QED BY <2>7, <3>2, <4>1, <4>2, <4>4, <1>f DEF CheckStop
    <3> QED BY <3>1, <3>2
  <2>8. CASE RunEngine BY <2>8, <1>g DEF RunEngine
  <2>9. CASE RunReturns BY <2>9, <1>f DEF RunReturns, Shown
  <2>10. CASE EndStoppedClient BY <2>10, <1>f DEF EndStoppedClient, Shown
  <2>11. CASE Outcome
    <3>1. MayEnd(event)'
      BY <2>11, <1>c, <1>l, StillAnnounced DEF Outcome, MayEnd, Ui, Shown
    <3> QED BY <2>11, <3>1, StillAnnounced DEF Outcome, Shown, EventsAreOwn
  <2>12. CASE Unregister BY <2>12, <1>f DEF Unregister, Shown
  <2>13. CASE ClearActiveTest BY <2>13, <1>f DEF ClearActiveTest, Shown
  <2>14. CASE FreeTest BY <2>14, <1>f DEF FreeTest, Shown
  <2>15. CASE Complete
    <3>1. [state |-> event] \in Messages BY DEF TypeOK, Messages
    <3> QED BY <2>15, <3>1, <1>f DEF Complete, Post
  <2> QED BY <1>6, <2>1, <2>2, <2>3, <2>4, <2>5, <2>6, <2>7, <2>8, <2>9, <2>10, <2>11,
             <2>12, <2>13, <2>14, <2>15 DEF Worker
<1>7. CASE JsonEvent
  <2>1. [json |-> test] \in Messages
    BY <1>7, <1>c DEF JsonEvent, Held, Holding, Messages
  <2> QED BY <1>7, <2>1, <1>f DEF JsonEvent, Post, Shown
<1>8. CASE StreamThread BY <1>8, <1>g DEF StreamThread
<1>9. CASE UNCHANGED vars BY <1>9, <1>g
<1> QED BY <1>1, <1>2, <1>3, <1>4, <1>5, <1>6, <1>7, <1>8, <1>9 DEF Next

LEMMA ClosesStep == TypeOK /\ Carried /\ Held /\ Closes /\ [Next]_vars => Closes'
<1> SUFFICES ASSUME TypeOK, Carried, Held, Closes, [Next]_vars PROVE Closes'
  OBVIOUS
<1> USE DEF Closes, Undisturbed, vars, sessionVars, mainVars, lockVars, workerVars, retryVars,
        memoryVars, WorkerAt
<1>t. sessions \in Nat BY MaxSessionsAssumption DEF TypeOK
<1>i. ASSUME Interrupt \/ UNCHANGED engVars
      PROVE  UNCHANGED <<epc, role, ctrl>>
  BY <1>i DEF Interrupt, engVars
<1>1. ASSUME NEW kind \in Kinds, StartSession(kind) PROVE Closes'
  <2>1. wpc = "idle" /\ wpc' = "idle" BY <1>1 DEF StartSession, Carried, Current
  <2>2. sessions' = sessions + 1 /\ UNCHANGED <<retries, rpc>> BY <1>1 DEF StartSession
  <2>3. sessions' <= 1 => sessions = 0 BY <2>2, <1>t
  <2>4. sessions' # 0 BY <2>2, <1>t
  <2> QED BY <2>1, <2>2, <2>3, <2>4
<1>2. CASE StartReturns BY <1>2 DEF StartReturns, engVars
<1>3. CASE Stop
  <2>1. sessions # 0 BY <1>3, UnderWay DEF Stop, Held
  <2>2. UNCHANGED <<epc, role, ctrl>> BY <1>3, <1>i DEF Stop, InterruptActive
  <2> QED BY <1>3, <2>1, <2>2 DEF Stop
<1>4. CASE Deliver BY <1>4 DEF Deliver, engVars
<1>5. CASE Retry
  <2>1. ~Undisturbed
    BY <1>5 DEF Retry, RetryBegin, RetryCheck, RetryWake
  <2>2. UNCHANGED <<epc, role, ctrl>>
    BY <1>5, <1>i DEF Retry, RetryBegin, RetryCheck, RetryWake, InterruptActive
  <2> QED BY <1>5, <2>1, <2>2 DEF Retry, RetryBegin, RetryCheck, RetryWake
<1>6. CASE Worker
  <2>1. CASE TakeTask BY <2>1 DEF TakeTask, engVars
  <2>2. CASE Create BY <2>2 DEF Create, NewTest
  <2>3. CASE FinishWithoutTest BY <2>3 DEF FinishWithoutTest
  <2>4. CASE Publish BY <2>4 DEF Publish, engVars
  <2>5. CASE Register BY <2>5 DEF Register, engVars
  <2>6. CASE Configure BY <2>6 DEF Configure, Ui, engVars
  <2>7. CASE CheckStop BY <2>7 DEF CheckStop, EnterRun, engVars
  <2>8. CASE RunEngine
    <3>1. UNCHANGED sessionVars /\ wpc = "engine" /\ EngineStep BY <2>8 DEF RunEngine
    <3>2. CASE LoopAgain BY <3>1, <3>2 DEF LoopAgain
    <3>3. CASE LeaveLoop BY <3>1, <3>3 DEF LeaveLoop, CleanupServer
    <3>4. CASE ServerStep
      BY <3>1, <3>4 DEF ServerStep, ServerListen, ServerEntersLoop, ServerReadsPipe,
         ServerAccept, ServerStartsTest, ServerHandle, ServerFails, ServerExpires,
         ServerSelectFails, ServerTurns, CleanupServer, AtServerSelect
    <3>5. ASSUME ClientFail PROVE Closes'
      BY <3>1, <3>5 DEF ClientFail, ClientEnd
    <3>6. CASE ClientStep
      <4>1. CASE ClientConnect BY <3>1, <3>5, <4>1 DEF ClientConnect
      <4>2. CASE ClientRead BY <3>1, <4>2 DEF ClientRead, ServerSends
      <4>3. CASE ClientLoses BY <3>5, <4>3 DEF ClientLoses
      <4>4. CASE ClientWakes BY <3>1, <4>4 DEF ClientWakes
      <4>5. CASE ClientHandle BY <3>1, <3>5, <4>5 DEF ClientHandle, ClientEnd
      <4>6. CASE ClientBody BY <3>1, <4>6 DEF ClientBody
      <4>7. CASE ClientSendsTestEnd BY <3>1, <3>5, <4>7 DEF ClientSendsTestEnd
      <4> QED BY <3>6, <4>1, <4>2, <4>3, <4>4, <4>5, <4>6, <4>7 DEF ClientStep
    <3> QED BY <3>1, <3>2, <3>3, <3>4, <3>6 DEF EngineStep
  <2>9. CASE RunReturns BY <2>9 DEF RunReturns, engVars
  <2>10. CASE EndStoppedClient
    <3>1. stopRequested => ctrl' # "open" BY <2>10 DEF EndStoppedClient, ClientEnd
    <3> QED BY <2>10, <3>1 DEF EndStoppedClient
  <2>11. CASE Outcome BY <2>11 DEF Outcome, engVars
  <2>12. CASE Unregister BY <2>12 DEF Unregister
  <2>13. CASE ClearActiveTest BY <2>13 DEF ClearActiveTest
  <2>14. CASE FreeTest BY <2>14 DEF FreeTest
  <2>15. CASE Complete BY <2>15 DEF Complete
  <2> QED BY <1>6, <2>1, <2>2, <2>3, <2>4, <2>5, <2>6, <2>7, <2>8, <2>9, <2>10, <2>11,
             <2>12, <2>13, <2>14, <2>15 DEF Worker
<1>7. CASE JsonEvent BY <1>7 DEF JsonEvent, engVars
<1>8. CASE StreamThread BY <1>8 DEF StreamThread, WorkersEnd
<1>9. CASE UNCHANGED vars BY <1>9 DEF engVars
<1> QED BY <1>1, <1>2, <1>3, <1>4, <1>5, <1>6, <1>7, <1>8, <1>9 DEF Next

LEMMA InvariantInit == Init => IInv
<1> SUFFICES ASSUME Init PROVE IInv
  OBVIOUS
<1>c. Current = NoKind /\ ui.phase = "Idle"
  BY Phases DEF Init, Current, activeKind, Ui
<1>1. Carried BY <1>c DEF Init, Carried, Counting
<1>2. Held BY <1>c DEF Init, Held, Holding
<1>3. Posted BY DEF Init, Posted
<1>4. Shown BY <1>c, Phases DEF Init, Shown, EventsAreOwn, activeKind
<1>5. Closes BY DEF Init, Closes, Undisturbed
<1> QED BY TypeInit, <1>1, <1>2, <1>3, <1>4, <1>5 DEF IInv

LEMMA InvariantStep == IInv /\ [Next]_vars => IInv'
BY TypeStep, CarriedStep, HeldStep, PostedStep, ShownStep, ClosesStep DEF IInv

LEMMA Invariant == Spec => []IInv
BY InvariantInit, InvariantStep, PTL DEF Spec
-----------------------------------------------------------------------------
(* The safety properties.                                                  *)

\* Every variable of the iOS runtime and of the engine below it keeps its type, and the
\* event list its bound.
THEOREM TypeCorrect == Spec => []TypeOK
<1>1. IInv => TypeOK BY DEF IInv
<1> QED BY <1>1, Invariant, PTL

\* stop and the retries only interrupt a test that is allocated, a JSON callback only
\* finds one, no test is freed twice, and every event shown is of the session started last.
THEOREM OwnSession == Spec => []ReachesItsOwn
<1>1. IInv => ReachesItsOwn
  <2> SUFFICES ASSUME IInv PROVE ReachesItsOwn
    OBVIOUS
  <2>1. wpc # "idle" => sessions \in Tests BY WorkerBusy DEF IInv
  <2>2. PointersAreLive BY <2>1 DEF IInv, Held, Holding, PointersAreLive, NoTest
  <2>3. EventsAreOwn BY DEF IInv, Shown
  <2> QED BY <2>2, <2>3 DEF ReachesItsOwn
<1> QED BY <1>1, Invariant, PTL

\* Screens that show no session under way can start one: the executor never answers
\* alreadyRunning, whatever is still in the main actor's mailbox.
THEOREM Accepted == Spec => []StartIsAccepted
<1>1. IInv => StartIsAccepted
  <2> SUFFICES ASSUME IInv, starting = NoKind, activeKind = NoKind
               PROVE  ~isActive /\ queue = <<>> /\ wpc = "idle"
    BY DEF StartIsAccepted
  <2>1. Current = NoKind BY DEF Current
  <2> QED BY <2>1 DEF IInv, Carried, Counting
<1> QED BY <1>1, Invariant, PTL

\* A session shown settled has given its test and its handler back, and a first client
\* that was stopped leaves no working control connection.
THEOREM Released == Spec => []SettledIsReleased
<1>1. IInv => SettledIsReleased
  <2> SUFFICES ASSUME IInv PROVE SettledIsReleased
    OBVIOUS
  <2>1. ASSUME starting = NoKind, activeKind = NoKind
        PROVE  activeTest = NoTest /\ handlers = {} /\ \A t \in Tests : heap[t] # "live"
    <3>1. wpc = "idle" BY <2>1 DEF IInv, Carried, Current
    <3> QED BY <3>1 DEF IInv, Held, Holding
  <2>2. sessions = 1 /\ wpc = "unregister" /\ wkind = "client" /\ event.phase = "Stopped" =>
          ctrl # "open"
    BY DEF IInv, Closes
  <2> QED BY <2>1, <2>2 DEF SettledIsReleased
<1> QED BY <1>1, Invariant, PTL
-----------------------------------------------------------------------------
(* Refinement: the observed state is a behaviour of SessionLifecycle.      *)

LEMMA RefinesInit == Init => Lifecycle!Init
BY DEF Init, Lifecycle!Init, Ui, Kinds

LEMMA RefinesStep ==
  IInv /\ [Next]_vars => [Lifecycle!Next]_<<ui.phase, ui.kind>>
<1> SUFFICES ASSUME IInv, [Next]_vars
             PROVE  Lifecycle!Next \/ ui' = ui
  OBVIOUS
<1> USE DEF sessionVars, mainVars
<1>s. TypeOK /\ Carried /\ Posted /\ Shown BY DEF IInv
<1>1. CASE StartReturns
  <2>1. ui.phase \in Lifecycle!Settled /\ starting \in Kinds
    BY <1>1, <1>s DEF StartReturns, Carried, TypeOK
  <2> QED BY <1>1, <2>1 DEF StartReturns, Ui, Lifecycle!Start, Lifecycle!Next
<1>2. CASE Stop
  <2>1. ui.phase \in {"Starting", "Running"} /\ ui.kind = activeKind
    BY <1>2, <1>s, UnderWay DEF Stop, Shown
  <2> QED BY <1>2, <2>1 DEF Stop, Ui, Lifecycle!Stop, Lifecycle!Next
<1>3. CASE Deliver
  <2>1. /\ starting = NoKind /\ Current = activeKind /\ activeKind # NoKind
        /\ ui.kind = activeKind
        /\ ui.phase \in {"Starting", "Running", "Stopping"}
        /\ stopRequested <=> ui.phase = "Stopping"
    BY <1>3, <1>s, Delivered, UnderWay DEF Shown
  <2>2. CASE ui.phase = "Starting" /\ ui' = Ui("Running", activeKind)
    BY <2>1, <2>2 DEF Ui, Lifecycle!Run, Lifecycle!Next
  <2>3. CASE MayEnd(ui') /\ Len(mailbox) = 1 /\ Head(mailbox) = [state |-> ui']
    <3>1. ui'.kind = ui.kind /\ ui'.phase \in Lifecycle!Terminal
      BY <2>1, <2>3 DEF MayEnd
    <3>2. Announced => ui.phase = "Running"
      <4>1. DOMAIN mailbox = {1} /\ mailbox[1] = [state |-> ui']
        <5>1. mailbox \in Seq(Messages) BY <1>s DEF TypeOK
        <5>2. DOMAIN mailbox = 1..1 BY <2>3, <5>1, LenProperties
        <5>3. mailbox # <<>> BY <5>2
        <5>4. mailbox[1] = Head(mailbox) BY <5>1, <5>3, Rest
        <5>5. 1..1 = {1} OBVIOUS
        <5> QED BY <2>3, <5>2, <5>4, <5>5
      <4>2. ui'.phase # "Running" BY <3>1, Phases
      <4>3. mailbox[1].state.phase # "Running" BY <4>1, <4>2
      <4> QED BY <4>1, <4>3 DEF Announced, Ui
    <3>3. ui'.phase = "Stopped" => stopRequested BY <2>3 DEF MayEnd
    <3>4. ui'.phase = "Finished" /\ ~stopRequested => ui.phase = "Running"
      BY <2>3, <3>2 DEF MayEnd
    <3>5. Lifecycle!End BY <2>1, <3>1, <3>3, <3>4, Phases DEF Lifecycle!End
    <3> QED BY <3>5 DEF Lifecycle!Next
  <2> QED BY <1>3, <1>s, <2>2, <2>3, Delivered
<1>4. CASE ui' = ui BY <1>4
<1> QED
  BY <1>1, <1>2, <1>3, <1>4
     DEF Next, StartSession, Retry, RetryBegin, RetryCheck, RetryWake, Worker, TakeTask,
         Create, FinishWithoutTest, Publish, Register, Configure, CheckStop, RunEngine,
         RunReturns, EndStoppedClient, Outcome, Unregister, ClearActiveTest, FreeTest,
         Complete, JsonEvent, StreamThread, vars

\* Whatever the screens observe of the iOS runtime is a behaviour of the abstract session
\* life cycle, the messages the main actor takes late included.
THEOREM ImplementsLifecycle == Spec => RefinesLifecycle
BY RefinesInit, RefinesStep, Invariant, PTL DEF Spec, RefinesLifecycle, Lifecycle!Spec
=============================================================================
