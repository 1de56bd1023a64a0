------------------------- MODULE NativeWorkerProofs -------------------------
(***************************************************************************)
(* Proofs about the worker isolate.  WInv says what the steps a handler    *)
(* has left mean for the tables, for the native handles and for the        *)
(* runtime's threads, in the middle of a handler too; every action keeps   *)
(* it, and the safety properties of NativeWorker follow from it.           *)
(***************************************************************************)
EXTENDS NativeWorker, SequenceTheorems, TLAPS

(***************************************************************************)
(* The bridge.  P is the instance of the bridge's proofs, B the one that   *)
(* the worker calls; they are the same, and what the bridge's invariant    *)
(* says holds between the worker's calls.                                  *)
(***************************************************************************)

P == INSTANCE LrlmBridgeProofs

LEMMA BridgeAssumed == P!BoundsAssumption
BY WorkerBounds DEF P!BoundsAssumption

LEMMA SameCalls ==
  /\ B!Id = P!Id /\ B!NoId = P!NoId /\ B!NoEvent = P!NoEvent /\ B!Chunk = P!Chunk
  /\ \A e : B!IsText(e) <=> P!IsText(e)
  /\ \A op, id, kind, error : B!Finish(op, id, kind, error) = P!Finish(op, id, kind, error)
  /\ \A op, id, chunk, n : B!Receive(op, id, chunk, n) = P!Receive(op, id, chunk, n)
  /\ \A id, op : B!Store(id, op) <=> P!Store(id, op)
  /\ B!lrlm_operation_create <=> P!lrlm_operation_create
  /\ \A error : B!StartFailed(error) <=> P!StartFailed(error)
  /\ \A id : B!StartBegin(id) <=> P!StartBegin(id)
  /\ \A id : B!lrlm_operation_cancel(id) <=> P!lrlm_operation_cancel(id)
  /\ \A id : B!lrlm_operation_take(id) <=> P!lrlm_operation_take(id)
  /\ \A id : B!lrlm_operation_delete(id) <=> P!lrlm_operation_delete(id)
  /\ \A th, chunk : B!CallbackRun(th, chunk) <=> P!CallbackRun(th, chunk)
<1>1. /\ B!Id = P!Id /\ B!NoId = P!NoId /\ B!NoEvent = P!NoEvent /\ B!Chunk = P!Chunk
      /\ \A e : B!IsText(e) <=> P!IsText(e)
  BY DEF B!Id, P!Id, B!NoId, P!NoId, B!NoEvent, P!NoEvent, B!Chunk, P!Chunk, B!IsText, P!IsText,
    B!TextKind, P!TextKind
<1>2. /\ \A op : B!Clear(op) = P!Clear(op)
      /\ \A id, op : B!Store(id, op) <=> P!Store(id, op)
  BY DEF B!Clear, P!Clear, B!Store, P!Store
<1>3. \A op, id, kind, error : B!Finish(op, id, kind, error) = P!Finish(op, id, kind, error)
  BY DEF B!Finish, P!Finish, B!FinishKind, P!FinishKind, B!FinishSize, P!FinishSize,
    B!Cancelled, P!Cancelled, B!Backpressure, P!Backpressure, B!Push, P!Push, B!Clear, P!Clear
<1>4. \A op, id, chunk, n : B!Receive(op, id, chunk, n) = P!Receive(op, id, chunk, n)
  BY DEF B!Receive, P!Receive, B!Offer, P!Offer, B!TextKind, P!TextKind, B!Complete, P!Complete,
    B!Error, P!Error, B!Finish, P!Finish, B!FinishKind, P!FinishKind, B!FinishSize,
    P!FinishSize, B!Cancelled, P!Cancelled, B!Backpressure, P!Backpressure, B!Push, P!Push,
    B!Clear, P!Clear
<1>5. /\ B!lrlm_operation_create <=> P!lrlm_operation_create
      /\ \A error : B!StartFailed(error) <=> P!StartFailed(error)
      /\ \A id : B!StartBegin(id) <=> P!StartBegin(id)
  BY <1>1, <1>2, <1>3 DEF B!lrlm_operation_create, P!lrlm_operation_create, B!StartFailed,
    P!StartFailed, B!StartBegin, P!StartBegin, B!history, P!history, B!Error, P!Error
<1>6. /\ \A id : B!lrlm_operation_cancel(id) <=> P!lrlm_operation_cancel(id)
      /\ \A id : B!lrlm_operation_take(id) <=> P!lrlm_operation_take(id)
      /\ \A id : B!lrlm_operation_delete(id) <=> P!lrlm_operation_delete(id)
  BY DEF B!lrlm_operation_cancel, P!lrlm_operation_cancel, B!CancelledOperation,
    P!CancelledOperation, B!Clear, P!Clear, B!Push, P!Push, B!Store, P!Store, B!NoId, P!NoId,
    B!NoEvent, P!NoEvent, B!IsText, P!IsText, B!TextKind, P!TextKind, B!Cancelled, P!Cancelled,
    B!lrlm_operation_take, P!lrlm_operation_take, B!TakenOperation, P!TakenOperation,
    B!lrlm_operation_delete, P!lrlm_operation_delete, B!Release, P!Release, B!history, P!history
<1>7. \A th, chunk : B!CallbackRun(th, chunk) <=> P!CallbackRun(th, chunk)
  BY <1>1, <1>2, <1>4 DEF B!CallbackRun, P!CallbackRun, B!Release, P!Release
<1>. QED BY <1>1, <1>2, <1>3, <1>4, <1>5, <1>6, <1>7

LEMMA SameBridge ==
  /\ B!Init <=> P!Init
  /\ B!Next <=> P!Next
  /\ UNCHANGED B!vars <=> UNCHANGED P!vars
  /\ B!TypeOK <=> P!TypeOK
<1>1. /\ B!Init <=> P!Init
      /\ UNCHANGED B!vars <=> UNCHANGED P!vars
      /\ B!TypeOK <=> P!TypeOK
  BY DEF B!Init, P!Init, B!TypeOK, P!TypeOK, B!Id, P!Id, B!NoId, P!NoId, B!TextKind, P!TextKind,
    B!Complete, P!Complete, B!Error, P!Error, B!Cancelled, P!Cancelled, B!Backpressure,
    P!Backpressure, B!TerminalKind, P!TerminalKind, B!Open, P!Open, B!NoEvent, P!NoEvent,
    B!Event, P!Event, B!Operation, P!Operation, B!NewOperation, P!NewOperation, B!vars, P!vars
<1>2. B!Next <=> P!Next
  BY SameCalls DEF B!Next, P!Next, B!StartOk, P!StartOk, B!lrlm_event_delete,
    P!lrlm_event_delete, B!CallbackFind, P!CallbackFind, B!history, P!history
<1>. QED BY <1>1, <1>2

LEMMA BridgeInit == B!Init => P!Inv
BY BridgeAssumed, SameBridge, P!InitInv

LEMMA BridgeStep == P!Inv /\ [B!Next]_(B!vars) => P!Inv'
BY BridgeAssumed, SameBridge, P!StepInv

LEMMA BridgeTypes == P!Inv => B!TypeOK
BY SameBridge DEF P!Inv

(* What each call leaves behind, as far as the worker's tables depend on it. *)

LEMMA CreateCall ==
  ASSUME P!Inv, B!lrlm_operation_create
  PROVE  /\ next_id \in B!Id \ operations
         /\ operations' = operations \union {next_id}
         /\ ~object[next_id].started
         /\ \A t \in Thread : callback[t] # next_id
         /\ UNCHANGED <<object, callback, starting, held>>
BY SameCalls, BridgeAssumed, P!CreateCall

LEMMA StoreFlags ==
  ASSUME P!Inv, NEW id \in B!Id, NEW op, B!Store(id, op)
  PROVE  /\ object'[id] = op
         /\ \A j \in B!Id \ {id} : object'[j] = object[j]
BY SameCalls, BridgeAssumed, P!StoreFlags

LEMMA StartCall ==
  ASSUME P!Inv, NEW id, B!StartBegin(id)
  PROVE  /\ id \in operations
         /\ \A j \in B!Id : P!Lasting(j)
         /\ \A j \in B!Id : object'[j].final = object[j].final
         /\ object'[id].started
         /\ starting' = id
         /\ UNCHANGED <<operations, callback, held>>
BY SameCalls, BridgeAssumed, P!StartCall

LEMMA StartFailedCall ==
  ASSUME P!Inv, NEW error, B!StartFailed(error)
  PROVE  /\ starting # B!NoId
         /\ starting \in operations
         /\ \A j \in B!Id : P!Lasting(j)
         /\ \A j \in B!Id \ {starting} : object'[j] = object[j]
         /\ object'[starting].final
         /\ UNCHANGED <<operations, callback, held>>
BY SameCalls, BridgeAssumed, P!StartFailedCall

LEMMA CancelCall ==
  ASSUME P!Inv, NEW id, B!lrlm_operation_cancel(id)
  PROVE  /\ \A j \in B!Id : /\ object'[j].final = object[j].final
                            /\ object'[j].started = object[j].started
         /\ UNCHANGED <<operations, callback, starting, held>>
BY SameCalls, BridgeAssumed, P!CancelCall

LEMMA TakeCall ==
  ASSUME P!Inv, NEW id, B!lrlm_operation_take(id)
  PROVE  /\ \A j \in B!Id : /\ object'[j].final = object[j].final
                            /\ object'[j].started = object[j].started
         /\ held' # B!NoEvent
         /\ ~B!IsText(held') => object'[id].final
         /\ UNCHANGED <<operations, callback, starting>>
BY SameCalls, BridgeAssumed, P!TakeCall

LEMMA DeleteCall ==
  ASSUME P!Inv, NEW id, B!lrlm_operation_delete(id)
  PROVE  /\ operations' = operations \ {id}
         /\ \A j \in B!Id : /\ object'[j].final = object[j].final
                            /\ object'[j].started = object[j].started
         /\ UNCHANGED <<callback, starting, held>>
BY SameCalls, BridgeAssumed, P!DeleteCall

LEMMA RunCall ==
  ASSUME P!Inv, NEW t \in Thread, NEW chunk \in B!Chunk, B!CallbackRun(t, chunk)
  PROVE  /\ callback[t] \in B!Id
         /\ callback[t] # B!NoId
         /\ \A j \in B!Id : P!Lasting(j)
         /\ \A j \in B!Id \ {callback[t]} : object'[j] = object[j]
         /\ callback' = [callback EXCEPT ![t] = B!NoId]
         /\ UNCHANGED <<operations, starting, held>>
BY SameCalls, BridgeAssumed, P!RunCall

LEMMA EventDeleteCall ==
  ASSUME B!lrlm_event_delete
  PROVE  /\ held # B!NoEvent /\ held' = B!NoEvent
         /\ UNCHANGED <<operations, object, callback, starting>>
BY DEF B!lrlm_event_delete

(***************************************************************************)
(* The worker makes no call that the bridge does not take.                 *)
(***************************************************************************)

\* The handlers that touch the bridge, and how.
LEMMA CallsBridge ==
  ASSUME P!Inv, Next
  PROVE  [B!Next]_(B!vars)
<1>. operations \subseteq B!Id
  BY DEF P!Inv, P!TypeOK, P!Id, B!Id
<1>1. CASE Command \/ Tick
  <2>1. UNCHANGED bridge
    BY <1>1 DEF Command, Tick, _loadEngine, _createSession, _budget, GenerateRefused, _generate,
      credit, cancelStream, cancelSession, disposeSession, disposeEngine, close, testCrash,
      Handler
  <2>. QED BY <2>1 DEF bridge, B!vars
<1>2. CASE HandlerStep
  <2>1. CASE DeleteHandle \/ Reopen \/ ReopenFails \/ IdsExhausted \/ Pump \/ Poll \/ FinishDiscards
             \/ FinishCommits \/ FinishThrows \/ Settle \/ Forget \/ DisposeNext
             \/ DeleteEngine \/ CloseNext \/ Exit
    <3>1. UNCHANGED bridge
      BY <2>1 DEF DeleteHandle, Reopen, ReopenFails, IdsExhausted, Pump, Poll, FinishDiscards,
        FinishCommits, FinishThrows, Settle, Forget, DisposeNext, DeleteEngine, CloseNext, Exit
    <3>. QED BY <3>1 DEF bridge, B!vars
  <2>2. CASE CreateOperation
    BY <2>2 DEF CreateOperation, B!Next
  <2>3. CASE Start
    BY <2>3 DEF Start, B!Next, B!StartBegin
  <2>4. CASE StartThrows
    BY <2>4 DEF StartThrows, B!Next, B!lrlm_operation_delete
  <2>5. CASE Started
    BY <2>5 DEF Started, B!Next
  <2>6. CASE Cancel
    <3>1. UNCHANGED bridge \/ B!lrlm_operation_cancel(ops[It.k].native)
      BY <2>6 DEF Cancel
    <3>2. CASE UNCHANGED bridge
      BY <3>2 DEF bridge, B!vars
    <3>3. CASE B!lrlm_operation_cancel(ops[It.k].native)
      BY <3>3 DEF B!Next, B!lrlm_operation_cancel
    <3>. QED BY <3>1, <3>2, <3>3
  <2>7. CASE Take
    <3>1. UNCHANGED bridge \/ B!lrlm_operation_take(ops[It.k].native)
      BY <2>7, Zenon DEF Take
    <3>2. CASE UNCHANGED bridge
      BY <3>2 DEF bridge, B!vars
    <3>3. CASE B!lrlm_operation_take(ops[It.k].native)
      BY <3>3, Zenon DEF B!Next, B!lrlm_operation_take
    <3>. QED BY <3>1, <3>2, <3>3
  <2>8. CASE Use
    BY <2>8, Zenon DEF Use, B!Next
  <2>9. CASE Retire
    BY <2>9 DEF Retire, B!Next, B!lrlm_operation_delete
  <2>. QED BY <1>2, <2>1, <2>2, <2>3, <2>4, <2>5, <2>6, <2>7, <2>8, <2>9 DEF HandlerStep
<1>3. CASE Runtime
  <2>1. PICK s \in Session : \/ RuntimeFind(s)
                             \/ \E chunk \in B!Chunk : RuntimeRun(s, chunk)
                             \/ RuntimeEnd(s)
    BY <1>3 DEF Runtime
  <2>2. CASE RuntimeFind(s)
    BY <2>1, <2>2 DEF RuntimeFind, B!Next, B!CallbackFind, Thread
  <2>3. CASE \E chunk \in B!Chunk : RuntimeRun(s, chunk)
    BY <2>1, <2>3 DEF RuntimeRun, B!Next, Thread
  <2>4. CASE RuntimeEnd(s)
    BY <2>4 DEF RuntimeEnd, bridge, B!vars
  <2>. QED BY <2>1, <2>2, <2>3, <2>4
<1>. QED BY <1>1, <1>2, <1>3 DEF Next

LEMMA BridgeKept == P!Inv /\ [Next]_vars => P!Inv'
<1>1. CASE Next
  BY <1>1, CallsBridge, BridgeStep
<1>2. CASE UNCHANGED vars
  BY <1>2, BridgeStep DEF vars, bridge, B!vars
<1>. QED BY <1>1, <1>2

\* Every kind of step there is.
Kind == {B!TextKind} \union B!TerminalKind

Step ==
    UNION {[do : {"cancel"}, k : Stream, overflow : BOOLEAN],
           [do : {"join", "forget"}, s : Session],
           [do : {"poll", "take", "use"}, k : Stream],
           [do : {"finish"}, k : Stream, kind : Kind, afterStop : BOOLEAN],
           [do : {"retire"}, k : Stream, kind : Kind, cancelled : BOOLEAN],
           [do : {"reopen", "start", "started"}, s : Session, k : Stream],
           [do : {"create"}, s : Session, k : Stream, batch : BOOLEAN],
           [do : {"pump"}, ks : SUBSET Stream],
           [do : {"engine"}, e : Engine, ss : SUBSET Session],
           [do : {"close"}, es : SUBSET Engine]}

At(i, does) == i \in DOMAIN todo /\ todo[i].do \in does

\* The steps that need their operation, those that are about one session, those
\* that end an operation, those that begin one.
OnOperation == {"cancel", "poll", "take", "use", "finish", "retire"}
OnSession   == OnOperation \union {"join", "forget"}
Ending      == {"finish", "retire"}
Beginning   == {"reopen", "create", "start", "started"}

\* A handler is nested calls: a step pushes only steps of its own rank or below,
\* and above the lowest rank there is one step of each.
Rank(step) ==
    IF step.do \in {"cancel", "join", "reopen", "create", "start"} THEN 0
    ELSE IF step.do \in {"poll", "take", "use", "finish", "retire"} THEN 1
    ELSE IF step.do \in {"started", "pump", "forget"} THEN 2
    ELSE IF step.do = "engine" THEN 3
    ELSE 4

Ordered ==
    \A i, j \in DOMAIN todo :
        i < j => \/ Rank(todo[i]) < Rank(todo[j])
                 \/ Rank(todo[i]) = 0 /\ Rank(todo[j]) = 0

SubjectOf(step) ==
    IF step.do \in {"join", "forget"} THEN step.s ELSE ops[step.k].session

OneSubject ==
    \A i, j \in DOMAIN todo :
        At(i, OnSession) /\ At(j, OnSession)
          => SubjectOf(todo[i]) = SubjectOf(todo[j])

StepsLive == \A i \in DOMAIN todo : At(i, OnOperation) => todo[i].k \in Running

JoinAhead(s)  == \E j \in DOMAIN todo : At(j, {"join"}) /\ todo[j].s = s
AboutToEnd(k) == \E j \in DOMAIN todo : At(j, Ending) /\ todo[j].k = k

\* A cancel never waits behind another step, and its handle is there.
CancelOK(i) ==
    At(i, {"cancel"}) => i = 1 /\ HandleOf(todo[i].k).open

\* A handle goes when no operation is running on it, or one that is ended next.
JoinOK(i) ==
    At(i, {"join"}) =>
        LET s == todo[i].s
        IN  /\ s \in Alive
            /\ sessions[s].streamId \in Running => AboutToEnd(sessions[s].streamId)

\* A turn is completed only right after its terminal event was taken.
FinishOK(i) ==
    At(i, {"finish"}) =>
        LET step == todo[i]
        IN  /\ step.kind \in B!TerminalKind
            /\ step.afterStop => step.kind = B!Error
            /\ step.kind = B!Complete =>
                  /\ i = 1
                  /\ HandleOf(step.k).open
                  /\ object[ops[step.k].native].final

\* An operation is retired when its thread is gone or said its last word.
RetireOK(i) ==
    At(i, {"retire"}) =>
        LET step == todo[i]
        IN  /\ step.kind \in B!TerminalKind
            /\ i = 1 => \/ ~HandleOf(step.k).open
                        \/ object[ops[step.k].native].final
            /\ i # 1 => At(1, {"join"}) /\ todo[1].s = ops[step.k].session
            /\ ~step.cancelled /\ step.kind = B!Complete =>
                  ~ops[step.k].cancelRequested

\* A session is forgotten after its handle and its operation are gone.
ForgetOK(i) ==
    At(i, {"forget"}) =>
        LET s == todo[i].s
        IN  /\ s \in Alive
            /\ sessions[s].handle.open => JoinAhead(s)
            /\ sessions[s].streamId # NoStream => AboutToEnd(sessions[s].streamId)

\* The event a step is about to use is in the worker's hands.
UseOK(i) ==
    At(i, {"use"}) =>
        /\ i = 1
        /\ held # B!NoEvent
        /\ ~B!IsText(held) => object[ops[todo[i].k].native].final

PumpOK(i) ==
    At(i, {"pump"}) =>
        /\ todo[i].ks \subseteq Running
        /\ \A j \in DOMAIN todo : At(j, OnOperation) => todo[j].k \notin todo[i].ks

\* No session of an engine that is being disposed is missed.
EngineOK(i) ==
    At(i, {"engine"}) =>
        /\ todo[i].ss \subseteq Alive
        /\ \A j \in DOMAIN todo : At(j, {"forget"}) => todo[j].s \notin todo[i].ss
        /\ \A s \in Alive : sessions[s].engineId = todo[i].e =>
              \/ s \in todo[i].ss
              \/ \E j \in DOMAIN todo : At(j, {"forget"}) /\ todo[j].s = s

\* No engine is missed when the worker closes.
CloseOK(i) ==
    At(i, {"close"}) =>
        \A e \in engines :
            \/ e \in todo[i].es
            \/ \E j \in DOMAIN todo : At(j, {"engine"}) /\ todo[j].e = e

StepsSound ==
    \A i \in DOMAIN todo :
        /\ CancelOK(i) /\ JoinOK(i) /\ FinishOK(i) /\ RetireOK(i) /\ ForgetOK(i)
        /\ UseOK(i) /\ PumpOK(i) /\ EngineOK(i) /\ CloseOK(i)

\* A handler that begins an operation does nothing else.
Requested(s, k) ==
    /\ s \in Alive
    /\ sessions[s].streamId = NoStream
    /\ k \notin Running
    /\ k < nextStream
    /\ ended[k] = "no"
    /\ k \notin askedCancel

ReopenStep(s, k)  == [do |-> "reopen", s |-> s, k |-> k]
CreateStep(s, k, batch) == [do |-> "create", s |-> s, k |-> k, batch |-> batch]
StartStep(s, k)   == [do |-> "start", s |-> s, k |-> k]
StartedStep(s, k) == [do |-> "started", s |-> s, k |-> k]

Begins(s, k) ==
    \/ /\ Requested(s, k)
       /\ \/ todo = <<JoinStep(s), ReopenStep(s, k), CreateStep(s, k, TRUE),
                      StartStep(s, k), StartedStep(s, k)>>
          \/ /\ ~sessions[s].handle.open
             /\ todo = <<ReopenStep(s, k), CreateStep(s, k, TRUE),
                         StartStep(s, k), StartedStep(s, k)>>
          \/ /\ sessions[s].handle.open
             /\ \E batch \in BOOLEAN :
                   todo = <<CreateStep(s, k, batch), StartStep(s, k),
                            StartedStep(s, k)>>
    \/ /\ k \in Running
       /\ ops[k].session = s
       /\ \/ /\ todo = <<StartStep(s, k), StartedStep(s, k)>>
             /\ sessions[s].handle.open
             /\ ~object[ops[k].native].started
          \/ /\ todo = <<StartedStep(s, k)>>
             /\ starting = ops[k].native

BeginningSound ==
    (\E i \in DOMAIN todo : At(i, Beginning)) =>
        \E s \in Session, k \in Stream : Begins(s, k)

\* The tables agree in the middle of a handler too, but for handles and timer.
OperationsKnown ==
    \A k \in Running :
        LET s == ops[k].session
        IN  /\ s \in Alive
            /\ sessions[s].streamId = k
            /\ sessions[s].phase = IF ops[k].cancelRequested
                                   THEN "cancelRequested" ELSE "generating"
            /\ sessions[s].handle.open \/ AboutToEnd(k)
            /\ ended[k] = "no"
            /\ k < nextStream
            /\ timer \/ \E s1 \in Session : todo \in {<<StartStep(s1, k), StartedStep(s1, k)>>,
                                               <<StartedStep(s1, k)>>}

SessionsKnown ==
    \A s \in Alive :
        /\ \/ sessions[s].streamId \in Running
              /\ ops[sessions[s].streamId].session = s
           \/ sessions[s].streamId = NoStream /\ sessions[s].phase = "ready"
        /\ sessions[s].engineId \in engines
        /\ s < nextSession

Registered ==
    /\ operations = {ops[k].native : k \in Running}
    /\ \A j, k \in Running : ops[j].native = ops[k].native => j = k

Streams ==
    /\ \A k \in Stream : k >= nextStream => ended[k] = "no"
    /\ \A k \in askedCancel :
          /\ k < nextStream
          /\ IF k \in Running THEN ops[k].cancelRequested
             ELSE ended[k] # "complete"

\* A thread works on the open handle of a live session, for that session's
\* operation until it said its last word.
WorksFor(s, id) == \E k \in Running : ops[k].native = id /\ ops[k].session = s

Producers ==
    \A s \in Session :
        /\ producer[s] # B!NoId =>
              /\ s \in Alive
              /\ sessions[s].handle.open
              /\ object[producer[s]].started
              /\ object[producer[s]].final \/ producer[s] \in operations
              /\ producer[s] \in operations => WorksFor(s, producer[s])
        /\ callback[s] # B!NoId =>
              callback[s] = producer[s] /\ ~object[callback[s]].final

Held == held # B!NoEvent => Now("use")

Gone == exited => todo = <<>> /\ engines = {} /\ ~timer

StepsInv == Ordered /\ OneSubject /\ StepsLive /\ StepsSound /\ BeginningSound
TablesInv == OperationsKnown /\ SessionsKnown /\ Registered /\ Streams
ThreadsInv == Producers /\ Held

WInv ==
    /\ WorkerTypeOK /\ todo \in Seq(Step)
    /\ StepsInv /\ TablesInv /\ ThreadsInv /\ Gone

-----------------------------------------------------------------------------
(* Lists of steps. *)

LEMMA KindsDiffer ==
  /\ B!TextKind = 0 /\ B!Complete = 1 /\ B!Error = 2 /\ B!Cancelled = 3
  /\ B!Backpressure = 4
  /\ B!TerminalKind = {1, 2, 3, 4} /\ Kind = {0, 1, 2, 3, 4}
BY DEF B!TextKind, B!Complete, B!Error, B!Cancelled, B!Backpressure, B!TerminalKind, Kind

LEMMA StepsTyped ==
  /\ \A k \in Stream, overflow \in BOOLEAN : CancelStep(k, overflow) \in Step
  /\ \A s \in Session : JoinStep(s) \in Step
  /\ \A s \in Session : [do |-> "forget", s |-> s] \in Step
  /\ \A k \in Stream : [do |-> "poll", k |-> k] \in Step
  /\ \A k \in Stream : [do |-> "take", k |-> k] \in Step
  /\ \A k \in Stream : [do |-> "use", k |-> k] \in Step
  /\ \A k \in Stream, kind \in Kind, afterStop \in BOOLEAN :
        FinishStep(k, kind, afterStop) \in Step
  /\ \A k \in Stream, kind \in Kind, cancelled \in BOOLEAN :
        [do |-> "retire", k |-> k, kind |-> kind, cancelled |-> cancelled] \in Step
  /\ \A s \in Session, k \in Stream :
        /\ ReopenStep(s, k) \in Step /\ StartStep(s, k) \in Step
        /\ StartedStep(s, k) \in Step
  /\ \A s \in Session, k \in Stream, batch \in BOOLEAN :
        CreateStep(s, k, batch) \in Step
  /\ \A ks \in SUBSET Stream : PumpStep(ks) \in Step
  /\ \A e \in Engine, ss \in SUBSET Session : EngineStep(e, ss) \in Step
  /\ \A es \in SUBSET Engine : CloseStep(es) \in Step
BY DEF Step, CancelStep, JoinStep, FinishStep, ReopenStep, StartStep, StartedStep, CreateStep,
  PumpStep, EngineStep, CloseStep

\* What a step of a kind is about.
LEMMA StepFields ==
  ASSUME NEW step \in Step
  PROVE  /\ step.do \in OnOperation => step.k \in Stream
         /\ step.do \in {"join", "forget"} => step.s \in Session
         /\ step.do = "cancel" => step.overflow \in BOOLEAN
         /\ step.do = "finish" => step.kind \in Kind /\ step.afterStop \in BOOLEAN
         /\ step.do = "retire" => step.kind \in Kind /\ step.cancelled \in BOOLEAN
         /\ step.do \in Beginning => step.s \in Session /\ step.k \in Stream
         /\ step.do = "create" => step.batch \in BOOLEAN
         /\ step.do = "pump" => step.ks \in SUBSET Stream
         /\ step.do = "engine" => step.e \in Engine /\ step.ss \in SUBSET Session
         /\ step.do = "close" => step.es \in SUBSET Engine
         /\ step.do \in OnSession \union Beginning \union {"pump", "engine", "close"}
BY DEF Step, OnOperation, OnSession, Beginning

\* Continue replaces the first step: where every step of the new list was, and
\* where every later one goes.
LEMMA Shift ==
  ASSUME todo \in Seq(Step), todo # <<>>, NEW steps \in Seq(Step), Continue(steps)
  PROVE  /\ todo' \in Seq(Step)
         /\ Len(steps) \in Nat
         /\ Len(todo) \in Nat \ {0} /\ DOMAIN todo = 1 .. Len(todo)
         /\ It = todo[1] /\ It \in Step
         /\ Len(todo') = Len(steps) + Len(todo) - 1
         /\ DOMAIN todo' = 1 .. Len(todo')
         /\ \A i \in DOMAIN todo' :
              \/ i \in 1 .. Len(steps) /\ todo'[i] = steps[i]
              \/ /\ i > Len(steps)
                 /\ (i - Len(steps)) + 1 \in DOMAIN todo
                 /\ todo'[i] = todo[(i - Len(steps)) + 1]
         /\ \A i \in 1 .. Len(steps) : i \in DOMAIN todo' /\ todo'[i] = steps[i]
         /\ \A j \in DOMAIN todo \ {1} :
              /\ (j + Len(steps)) - 1 \in DOMAIN todo'
              /\ todo'[(j + Len(steps)) - 1] = todo[j]
<1>. DEFINE m == Len(steps)
            n == Len(todo)
            r == Tail(todo)
            t == todo'
<1>1. t = steps \o r
  BY DEF Continue
<1>2. /\ n \in Nat \ {0} /\ DOMAIN todo = 1 .. n
      /\ It = todo[1] /\ It \in Step
      /\ m \in Nat /\ DOMAIN steps = 1 .. m
  BY DEF It
<1>3. /\ r \in Seq(Step)
      /\ Len(r) = n - 1
      /\ \A i \in 1 .. n - 1 : r[i] = todo[i + 1]
  BY <1>2
<1>. HIDE DEF r
<1>4. /\ t \in Seq(Step)
      /\ Len(t) = m + n - 1
      /\ DOMAIN t = 1 .. m + n - 1
      /\ \A i \in 1 .. m + n - 1 : t[i] = IF i <= m THEN steps[i] ELSE r[i - m]
  <2>. HIDE DEF t
  <2>1. /\ t \in Seq(Step)
        /\ Len(t) = Len(steps) + Len(r)
        /\ \A i \in 1 .. Len(steps) + Len(r) :
              t[i] = IF i <= Len(steps) THEN steps[i] ELSE r[i - Len(steps)]
    BY <1>1, <1>3, ConcatProperties
  <2>. QED BY <1>2, <1>3, <2>1, LenProperties
<1>. HIDE DEF m, n, t
<1>5. ASSUME NEW i \in DOMAIN t
      PROVE  \/ i \in 1 .. m /\ t[i] = steps[i]
             \/ i > m /\ (i - m) + 1 \in DOMAIN todo /\ t[i] = todo[(i - m) + 1]
  <2>1. CASE i <= m
    BY <1>2, <1>4, <2>1
  <2>2. CASE i > m
    <3>1. i - m \in 1 .. n - 1
      BY <1>2, <1>4, <2>2
    <3>2. t[i] = r[i - m]
      BY <1>2, <1>4, <2>2
    <3>. QED BY <1>2, <1>3, <2>2, <3>1, <3>2
  <2>. QED BY <1>2, <1>4, <2>1, <2>2
<1>6. ASSUME NEW i \in 1 .. m
      PROVE  i \in DOMAIN t /\ t[i] = steps[i]
  BY <1>2, <1>4
<1>7. ASSUME NEW j \in DOMAIN todo \ {1}
      PROVE  (j + m) - 1 \in DOMAIN t /\ t[(j + m) - 1] = todo[j]
  <2>1. j \in 2 .. n
    BY <1>2
  <2>2. /\ (j + m) - 1 \in 1 .. m + n - 1
        /\ ~((j + m) - 1 <= m)
        /\ ((j + m) - 1) - m = j - 1
        /\ j - 1 \in 1 .. n - 1
        /\ (j - 1) + 1 = j
    BY <1>2, <2>1
  <2>3. t[(j + m) - 1] = r[j - 1]
    BY <1>4, <2>2
  <2>. QED BY <1>3, <1>4, <2>2, <2>3
<1>. QED BY <1>2, <1>4, <1>5, <1>6, <1>7 DEF m, n, t

LEMMA NoStepsLeft ==
  ASSUME todo' = <<>>
  PROVE  StepsInv' /\ todo' \in Seq(Step)
BY DEF StepsInv, Ordered, OneSubject, StepsLive, StepsSound, BeginningSound, At

LEMMA InitWorker == Init => WInv
<1>. SUFFICES ASSUME Init PROVE WInv
  OBVIOUS
<1>1. /\ todo = <<>> /\ sessions = <<>> /\ ops = <<>> /\ engines = {}
      /\ nextEngine = 1 /\ nextSession = 1 /\ nextStream = 1
      /\ timer = FALSE /\ fatalExit = FALSE /\ exited = FALSE
      /\ producer = [s \in Session |-> B!NoId]
      /\ nativeOf = [k \in Stream |-> B!NoId]
      /\ tokens = [k \in Stream |-> 0]
      /\ ended = [k \in Stream |-> "no"]
      /\ askedCancel = {}
  BY DEF Init
<1>2. operations = {} /\ held = B!NoEvent /\ callback = [t \in Thread |-> B!NoId]
  BY DEF Init, B!Init
<1>3. Alive = {} /\ Running = {}
  BY <1>1 DEF Alive, Running
<1>4. WorkerTypeOK
  <2>1. nextEngine \in 1 .. MaxEngine + 1 /\ nextSession \in 1 .. MaxSession + 1
        /\ nextStream \in 1 .. MaxStream + 1
    BY <1>1, WorkerBounds
  <2>2. /\ producer \in [Session -> B!Id \union {B!NoId}]
        /\ nativeOf \in [Stream -> B!Id \union {B!NoId}]
        /\ tokens \in [Stream -> Nat]
        /\ ended \in [Stream -> StreamEnd]
    BY <1>1 DEF StreamEnd
  <2>3. engines \subseteq Engine /\ askedCancel \subseteq Stream
        /\ timer \in BOOLEAN /\ fatalExit \in BOOLEAN /\ exited \in BOOLEAN
    BY <1>1
  <2>. QED BY <1>3, <2>1, <2>2, <2>3 DEF WorkerTypeOK
<1>5. StepsInv /\ todo \in Seq(Step)
  BY <1>1 DEF StepsInv, Ordered, OneSubject, StepsLive, StepsSound, BeginningSound, At
<1>6. TablesInv
  BY <1>1, <1>2, <1>3 DEF TablesInv, OperationsKnown, SessionsKnown, Registered, Streams
<1>7. ThreadsInv /\ Gone
  BY <1>1, <1>2 DEF ThreadsInv, Producers, Held, Gone, Thread
<1>. QED BY <1>4, <1>5, <1>6, <1>7 DEF WInv

-----------------------------------------------------------------------------
(* Commands.  Between two handlers the tables agree without exception. *)

LEMMA Settled ==
  ASSUME WInv, todo = <<>>
  PROVE  /\ \A i : ~(i \in DOMAIN todo)
         /\ \A k : ~AboutToEnd(k)
         /\ \A k \in Running :
              /\ ops[k].session \in Alive
              /\ sessions[ops[k].session].streamId = k
              /\ sessions[ops[k].session].handle.open
              /\ ended[k] = "no"
              /\ k < nextStream
              /\ timer
         /\ held = B!NoEvent
<1>1. \A i : ~(i \in DOMAIN todo)
  OBVIOUS
<1>2. \A k : ~AboutToEnd(k)
  BY <1>1 DEF AboutToEnd
<1>3. \A s1, k : todo # <<StartStep(s1, k), StartedStep(s1, k)>> /\ todo # <<StartedStep(s1, k)>>
  OBVIOUS
<1>4. held = B!NoEvent
  BY DEF WInv, ThreadsInv, Held, Now
<1>. QED BY <1>1, <1>2, <1>3, <1>4 DEF WInv, TablesInv, OperationsKnown

\* What was seen and asked, without what the conversations completed.
asked == <<nextStream, nativeOf, tokens, ended, askedCancel>>

LEMMA LoadEngineKeeps == WInv /\ _loadEngine => WInv'
<1>. SUFFICES ASSUME WInv, _loadEngine PROVE WInv'
  OBVIOUS
<1>1. /\ todo = <<>> /\ ~exited /\ nextEngine <= MaxEngine
      /\ engines' = engines \union {nextEngine} /\ nextEngine' = nextEngine + 1
      /\ UNCHANGED <<bridge, sessions, nextSession, ops, timer, todo, flags,
                     producer, seen>>
  BY DEF _loadEngine, Idle
<1>2. Alive' = Alive /\ Running' = Running
  BY <1>1 DEF Alive, Running
<1>3. WorkerTypeOK'
  BY <1>1, <1>2, WorkerBounds DEF WInv, WorkerTypeOK, seen, flags, Engine
<1>4. StepsInv' /\ (todo \in Seq(Step))'
  BY <1>1, NoStepsLeft
<1>5. TablesInv'
  BY <1>1, <1>2, Settled DEF WInv, TablesInv, OperationsKnown, SessionsKnown, Registered,
    Streams, bridge, seen
<1>6. ThreadsInv' /\ Gone'
  BY <1>1, <1>2, Settled DEF WInv, ThreadsInv, Producers, Held, Gone, bridge, flags, WorksFor
<1>. QED BY <1>3, <1>4, <1>5, <1>6 DEF WInv

LEMMA PromptTyped ==
  ASSUME NEW configured \in Configured
  PROVE  Prompt(configured) \in Seq(Message)
<1>1. PICK m : m = [turn |-> NoStream, part |-> "configured"]
  OBVIOUS
<1>2. m \in Message
  BY <1>1 DEF Message
<1>3. <<m>> \in Seq(Message) /\ <<>> \in Seq(Message)
  BY <1>2
<1>. QED BY <1>1, <1>3 DEF Prompt

LEMMA CreateSessionKeeps ==
  ASSUME WInv, NEW e \in Engine, NEW conversation \in Conversation,
         NEW messages \in Seq(Message),
         _createSession(e, conversation, messages)
  PROVE  WInv'
<1>1. /\ todo = <<>> /\ ~exited /\ e \in engines /\ nextSession <= MaxSession
      /\ sessions' = With(sessions, nextSession,
                          NewSession(e, conversation, messages))
      /\ nextSession' = nextSession + 1
      /\ UNCHANGED <<bridge, engines, nextEngine, ops, timer, todo, flags,
                     producer, asked>>
  BY DEF _createSession, Idle, asked
<1>2. /\ nextSession \in Session /\ nextSession \notin Alive
      /\ conversation \in BOOLEAN
  BY <1>1, WorkerBounds DEF WInv, WorkerTypeOK, TablesInv, SessionsKnown, Session
<1>3. /\ Alive' = Alive \union {nextSession}
      /\ \A s \in Alive : sessions'[s] = sessions[s]
      /\ sessions'[nextSession] =
            NewSession(e, conversation, messages)
      /\ Running' = Running
  BY <1>1, <1>2 DEF Alive, Running, With
<1>4. NewSession(e, conversation, messages) \in NativeSession
  BY <1>2 DEF NewSession, NativeSession, Opened, Handle
<1>5. WorkerTypeOK'
  <2>1. nextSession' \in 1 .. MaxSession + 1
    BY <1>1, WorkerBounds DEF WInv, WorkerTypeOK
  <2>2. \A s \in Alive' : sessions'[s] \in NativeSession
    BY <1>3, <1>4 DEF WInv, WorkerTypeOK
  <2>3. Alive' \subseteq Session
    BY <1>2, <1>3 DEF WInv, WorkerTypeOK
  <2>. QED BY <1>1, <1>3, <2>1, <2>2, <2>3 DEF WInv, WorkerTypeOK, asked, flags
<1>6. StepsInv' /\ (todo \in Seq(Step))'
  BY <1>1, NoStepsLeft
<1>7. OperationsKnown' /\ Registered' /\ Streams'
  BY <1>1, <1>2, <1>3, Settled DEF WInv, TablesInv, OperationsKnown, Registered, Streams,
    bridge, asked
<1>8. SessionsKnown'
  <2>1. ASSUME NEW s \in Alive
        PROVE  s < nextSession + 1 /\ sessions'[s] = sessions[s]
    <3>1. s \in Session /\ nextSession \in 1 .. MaxSession + 1
      BY DEF WInv, WorkerTypeOK
    <3>2. s \in Int /\ nextSession \in Int
      BY <3>1, WorkerBounds DEF Session
    <3>3. s < nextSession
      BY DEF WInv, TablesInv, SessionsKnown
    <3>. QED BY <1>3, <3>2, <3>3
  <2>2. /\ NewSession(e, conversation, messages).streamId = NoStream
        /\ NewSession(e, conversation, messages).phase = "ready"
        /\ NewSession(e, conversation, messages).engineId = e
    BY DEF NewSession
  <2>. QED BY <1>1, <1>2, <1>3, <2>1, <2>2 DEF WInv, TablesInv, SessionsKnown, Session
<1>9. ThreadsInv' /\ Gone'
  BY <1>1, <1>2, <1>3, Settled DEF WInv, ThreadsInv, Producers, Held, Gone, bridge, flags,
    WorksFor
<1>. QED BY <1>5, <1>6, <1>7, <1>8, <1>9 DEF WInv, TablesInv

\* Opening the handle of an idle session, from its history.
LEMMA OpenTyped ==
  ASSUME WorkerTypeOK, NEW s \in Alive, NEW preface \in Seq(Message),
         Change(s, "handle", Opened(preface))
  PROVE  /\ Alive' = Alive
         /\ \A t \in Alive : sessions'[t] \in NativeSession
         /\ \A t \in Alive \ {s} : sessions'[t] = sessions[t]
         /\ sessions'[s].handle.open
         /\ sessions'[s].streamId = sessions[s].streamId
         /\ sessions'[s].phase = sessions[s].phase
         /\ sessions'[s].engineId = sessions[s].engineId
<1>1. sessions[s] \in NativeSession
  BY DEF WorkerTypeOK
<1>2. /\ Alive' = Alive
      /\ sessions'[s] = [sessions[s] EXCEPT !.handle = Opened(preface)]
      /\ \A t \in Alive \ {s} : sessions'[t] = sessions[t]
  BY DEF Change, Alive
<1>3. Opened(preface) \in Handle /\ Opened(preface).open
  BY DEF Opened, Handle
<1>4. [sessions[s] EXCEPT !.handle = Opened(preface)] \in NativeSession
  BY <1>1, <1>3 DEF NativeSession
<1>5. /\ sessions'[s].handle = Opened(preface)
      /\ sessions'[s].streamId = sessions[s].streamId
      /\ sessions'[s].phase = sessions[s].phase
      /\ sessions'[s].engineId = sessions[s].engineId
  BY <1>1, <1>2 DEF NativeSession
<1>. QED BY <1>2, <1>3, <1>4, <1>5 DEF WorkerTypeOK

\* What is left as it was when handles are opened between two handlers.
OnlyOpened ==
    /\ Alive' = Alive
    /\ \A s \in Alive :
         /\ sessions'[s] \in NativeSession
         /\ sessions[s].handle.open => sessions'[s].handle.open
         /\ sessions'[s].streamId = sessions[s].streamId
         /\ sessions'[s].phase = sessions[s].phase
         /\ sessions'[s].engineId = sessions[s].engineId

LEMMA OpenOnly ==
  ASSUME WorkerTypeOK, NEW s \in Alive,
         UNCHANGED sessions \/ Change(s, "handle", Opened(sessions[s].history))
  PROVE  OnlyOpened
<1>1. sessions[s].history \in Seq(Message)
  BY DEF WorkerTypeOK, NativeSession
<1>2. CASE UNCHANGED sessions
  BY <1>2 DEF OnlyOpened, Alive, WorkerTypeOK
<1>3. CASE Change(s, "handle", Opened(sessions[s].history))
  BY <1>1, <1>3, OpenTyped DEF OnlyOpened, WorkerTypeOK
<1>. QED BY <1>2, <1>3

LEMMA OpenedTables ==
  ASSUME WInv, todo = <<>>, OnlyOpened,
         UNCHANGED <<bridge, engines, nextSession, ops, timer, flags, producer,
                     askedCancel>>,
         nextStream' \in {nextStream, nextStream + 1},
         \/ UNCHANGED ended
         \/ /\ nextStream <= MaxStream /\ nextStream' = nextStream + 1
            /\ ended' = [ended EXCEPT ![nextStream] = "error"]
  PROVE  TablesInv' /\ Producers' /\ (~exited => Gone')
<1>1. Running' = Running
  BY DEF Running
<1>2. /\ \A k \in Running : ended'[k] = ended[k]
      /\ \A k \in askedCancel : ended'[k] = ended[k]
      /\ \A k \in Stream : k >= nextStream' => ended'[k] = "no"
      /\ nextStream' >= nextStream
  <2>1. /\ nextStream \in Nat /\ ended \in [Stream -> StreamEnd]
        /\ Running \subseteq Stream /\ askedCancel \subseteq Stream
        /\ \A k \in Running \union askedCancel : k < nextStream
        /\ \A k \in Stream : k >= nextStream => ended[k] = "no"
        /\ Stream \subseteq Nat
    BY DEF WInv, WorkerTypeOK, TablesInv, OperationsKnown, Streams, Stream
  <2>2. nextStream' \in Nat /\ nextStream' >= nextStream
    BY <2>1
  <2>3. \A k \in Stream : k # nextStream => ended'[k] = ended[k]
    BY <2>1
  <2>4. \A k \in Running \union askedCancel : k \in Stream /\ k # nextStream
    BY <2>1
  <2>5. ASSUME NEW k \in Stream, k >= nextStream'
        PROVE  ended'[k] = "no"
    <3>1. k \in Nat /\ k >= nextStream
      BY <2>1, <2>2, <2>5
    <3>2. CASE UNCHANGED ended
      BY <2>1, <3>1, <3>2
    <3>3. CASE nextStream' = nextStream + 1
      BY <2>1, <2>3, <2>5, <3>1, <3>3
    <3>. QED BY <3>2, <3>3
  <2>. QED BY <2>2, <2>3, <2>4, <2>5
<1>3. OperationsKnown'
  <2>1. ASSUME NEW k \in Running
        PROVE  /\ ops[k].session \in Alive
               /\ sessions'[ops[k].session].streamId = k
               /\ sessions'[ops[k].session].phase =
                    IF ops[k].cancelRequested THEN "cancelRequested" ELSE "generating"
               /\ sessions'[ops[k].session].handle.open
               /\ ended'[k] = "no"
               /\ k < nextStream'
               /\ timer
    BY <1>2, Settled DEF WInv, WorkerTypeOK, TablesInv, OperationsKnown, OnlyOpened, Stream
  <2>. QED BY <1>1, <2>1 DEF OperationsKnown, OnlyOpened
<1>4. SessionsKnown'
  BY <1>1 DEF WInv, TablesInv, SessionsKnown, OnlyOpened
<1>5. Registered'
  BY <1>1 DEF WInv, TablesInv, Registered, bridge
<1>6. Streams'
  BY <1>1, <1>2 DEF WInv, WorkerTypeOK, TablesInv, Streams, Stream
<1>7. Producers'
  BY <1>1 DEF WInv, ThreadsInv, Producers, WorksFor, OnlyOpened, bridge
<1>8. ~exited => Gone'
  BY DEF Gone, flags
<1>. QED BY <1>3, <1>4, <1>5, <1>6, <1>7, <1>8 DEF TablesInv

LEMMA BudgetKeeps ==
  ASSUME WInv, NEW s \in Session, _budget(s)
  PROVE  WInv'
<1>1. /\ todo = <<>> /\ ~exited /\ s \in Alive
      /\ Change(s, "handle", Opened(sessions[s].history))
      /\ UNCHANGED <<bridge, engines, nextEngine, nextSession, ops, timer, todo,
                     flags, producer, seen>>
  BY DEF _budget, Idle
<1>2. OnlyOpened
  BY <1>1, OpenOnly DEF WInv
<1>3. WorkerTypeOK'
  BY <1>1, <1>2 DEF WInv, WorkerTypeOK, OnlyOpened, seen, flags, Running
<1>4. StepsInv' /\ (todo \in Seq(Step))'
  BY <1>1, NoStepsLeft
<1>5. TablesInv' /\ Producers' /\ Gone'
  BY <1>1, <1>2, OpenedTables DEF seen
<1>6. Held'
  BY <1>1, Settled DEF Held, bridge
<1>. QED BY <1>3, <1>4, <1>5, <1>6 DEF WInv, ThreadsInv

LEMMA RefusedKeeps ==
  ASSUME WInv, NEW s \in Session, GenerateRefused(s)
  PROVE  WInv'
<1>1. /\ todo = <<>> /\ ~exited /\ nextStream <= MaxStream
      /\ ended' = [ended EXCEPT ![nextStream] = "error"]
      /\ nextStream' = nextStream + 1
      /\ \/ UNCHANGED sessions
         \/ s \in Alive /\ Change(s, "handle", Opened(sessions[s].history))
      /\ UNCHANGED <<bridge, engines, nextEngine, nextSession, ops, timer, todo,
                     flags, producer, nativeOf, tokens, askedCancel, completed>>
  BY DEF GenerateRefused, Idle
<1>2. OnlyOpened
  <2>1. CASE UNCHANGED sessions
    BY <2>1 DEF OnlyOpened, Alive, WInv, WorkerTypeOK
  <2>2. CASE s \in Alive /\ Change(s, "handle", Opened(sessions[s].history))
    BY <2>2, OpenOnly DEF WInv
  <2>. QED BY <1>1, <2>1, <2>2
<1>3. WorkerTypeOK'
  <2>1. nextStream' \in 1 .. MaxStream + 1 /\ ended' \in [Stream -> StreamEnd]
    <3>1. /\ nextStream \in Nat /\ nextStream >= 1 /\ MaxStream \in Nat
          /\ ended \in [Stream -> StreamEnd] /\ "error" \in StreamEnd
      BY WorkerBounds DEF WInv, WorkerTypeOK, StreamEnd
    <3>2. nextStream' \in 1 .. MaxStream + 1
      BY <1>1, <3>1
    <3>3. ended' \in [Stream -> StreamEnd]
      BY <1>1, <3>1
    <3>. QED BY <3>2, <3>3
  <2>. QED BY <1>1, <1>2, <2>1 DEF WInv, WorkerTypeOK, OnlyOpened, flags, Running
<1>4. StepsInv' /\ (todo \in Seq(Step))'
  BY <1>1, NoStepsLeft
<1>5. TablesInv' /\ Producers' /\ Gone'
  BY <1>1, <1>2, OpenedTables
<1>6. Held'
  BY <1>1, Settled DEF Held, bridge
<1>. QED BY <1>3, <1>4, <1>5, <1>6 DEF WInv, ThreadsInv

LEMMA CreditKeeps ==
  ASSUME WInv, NEW k \in Stream, credit(k)
  PROVE  WInv'
<1>1. /\ todo = <<>> /\ ~exited /\ k \in Running
      /\ ops' = [ops EXCEPT ![k].credit = TRUE]
      /\ UNCHANGED <<bridge, engines, nextEngine, sessions, nextSession, timer,
                     todo, flags, producer, seen>>
  BY DEF credit, Idle
<1>2. /\ Running' = Running /\ Alive' = Alive
      /\ \A j \in Running :
           /\ ops'[j] \in NativeOperation
           /\ ops'[j].session = ops[j].session
           /\ ops'[j].native = ops[j].native
           /\ ops'[j].cancelRequested = ops[j].cancelRequested
  BY <1>1 DEF Running, Alive, WInv, WorkerTypeOK, NativeOperation
<1>3. WorkerTypeOK'
  BY <1>1, <1>2 DEF WInv, WorkerTypeOK, flags, seen
<1>4. StepsInv' /\ (todo \in Seq(Step))'
  BY <1>1, NoStepsLeft
<1>5. OperationsKnown'
  BY <1>1, <1>2, Settled DEF WInv, TablesInv, OperationsKnown, seen
<1>6. SessionsKnown' /\ Registered' /\ Streams'
  BY <1>1, <1>2 DEF WInv, WorkerTypeOK, TablesInv, SessionsKnown, Registered, Streams, bridge,
    seen
<1>7. ThreadsInv' /\ Gone'
  BY <1>1, <1>2, Settled DEF WInv, ThreadsInv, Producers, Held, Gone, bridge, flags, WorksFor
<1>. QED BY <1>3, <1>4, <1>5, <1>6, <1>7 DEF WInv, TablesInv

\* Elements of a concatenation.
LEMMA Joined ==
  ASSUME NEW S, NEW p \in Seq(S), NEW q \in Seq(S), NEW u, u = p \o q
  PROVE  /\ u \in Seq(S) /\ Len(u) = Len(p) + Len(q) /\ DOMAIN u = 1 .. Len(p) + Len(q)
         /\ \A i \in 1 .. Len(p) : u[i] = p[i]
         /\ \A i \in 1 .. Len(q) : u[Len(p) + i] = q[i]
<1>1. u \in Seq(S) /\ Len(u) = Len(p) + Len(q)
  OBVIOUS
<1>2. DOMAIN u = 1 .. Len(u)
  BY <1>1
<1>3. \A i \in 1 .. Len(p) : u[i] = p[i]
  OBVIOUS
<1>4. \A i \in 1 .. Len(q) : u[Len(p) + i] = q[i]
  OBVIOUS
<1>. QED BY <1>1, <1>2, <1>3, <1>4

LEMMA Concat23 ==
  ASSUME NEW j \in Step, NEW r \in Step, NEW c \in Step, NEW b \in Step,
         NEW d \in Step
  PROVE  <<j, r>> \o <<c, b, d>> = <<j, r, c, b, d>>
<1>. DEFINE p == <<j, r>>
            q == <<c, b, d>>
            u == <<j, r, c, b, d>>
<1>1. p \in Seq(Step) /\ q \in Seq(Step) /\ u \in Seq(Step)
  OBVIOUS
<1>2. Len(p) = 2 /\ Len(q) = 3 /\ Len(u) = 5
  OBVIOUS
<1>3. /\ p[1] = j /\ p[2] = r /\ q[1] = c /\ q[2] = b /\ q[3] = d
      /\ u[1] = j /\ u[2] = r /\ u[3] = c /\ u[4] = b /\ u[5] = d
  OBVIOUS
<1>. HIDE DEF p, q, u
<1>4. ASSUME NEW t, t = p \o q
      PROVE  t = u
  <2>1. t \in Seq(Step) /\ Len(t) = Len(p) + Len(q)
    BY <1>1, <1>4
  <2>2. \A i \in 1 .. Len(p) : t[i] = p[i]
    BY <1>1, <1>4
  <2>3. \A i \in 1 .. Len(q) : t[Len(p) + i] = q[i]
    BY <1>1, <1>4
  <2>4. t[1] = p[1] /\ t[2] = p[2]
    BY <1>2, <2>2
  <2>5. t[2 + 1] = q[1] /\ t[2 + 2] = q[2] /\ t[2 + 3] = q[3]
    BY <1>2, <2>3
  <2>6. \A i \in 1 .. 5 : u[i] = t[i]
    BY <1>3, <2>4, <2>5
  <2>. QED  BY <1>1, <1>2, <2>1, <2>6
<1>5. p \o q = u
  BY <1>4
<1>. QED  BY <1>5 DEF p, q, u

\* A handler that begins an operation does nothing that needs one.
LEMMA BeginningSteps ==
  ASSUME NEW s \in Session, NEW k \in Stream, Begins(s, k)',
         Running' \subseteq Stream
  PROVE  StepsInv' /\ (todo \in Seq(Step))'
<1>. DEFINE j == JoinStep(s)
            r == ReopenStep(s, k)
            c == CreateStep(s, k, TRUE)
            b == StartStep(s, k)
            d == StartedStep(s, k)
<1>1. /\ j.do = "join" /\ j.s = s
      /\ r.do = "reopen"
      /\ c.do = "create"
      /\ b.do = "start" /\ d.do = "started"
  BY DEF JoinStep, ReopenStep, CreateStep, StartStep, StartedStep
<1>2. /\ j \in Step /\ r \in Step /\ b \in Step /\ d \in Step
      /\ c \in Step
  BY StepsTyped
<1>3. PICK e \in Step :
     /\ e.do = "create"
     /\ \/ todo' = <<j, r, c, b, d>> /\ s \in Alive' /\ sessions'[s].streamId = NoStream
        \/ todo' = <<r, c, b, d>>
        \/ todo' = <<e, b, d>>
        \/ todo' = <<b, d>>
        \/ todo' = <<d>>
  <2>1. CASE \E batch \in BOOLEAN : todo' = <<CreateStep(s, k, batch), b, d>>
    <3>1. PICK batch \in BOOLEAN : todo' = <<CreateStep(s, k, batch), b, d>>
      BY <2>1
    <3>2. CreateStep(s, k, batch).do = "create" /\ CreateStep(s, k, batch) \in Step
      <4>1. CreateStep(s, k, batch) \in Step
        BY StepsTyped
      <4>. QED BY <4>1 DEF CreateStep
    <3>. QED BY <3>1, <3>2
  <2>2. CASE ~\E batch \in BOOLEAN : todo' = <<CreateStep(s, k, batch), b, d>>
    <3>1. \/ todo' = <<j, r, c, b, d>>
             /\ s \in Alive' /\ sessions'[s].streamId = NoStream
          \/ todo' = <<r, c, b, d>>
          \/ todo' = <<b, d>>
          \/ todo' = <<d>>
      BY <2>2 DEF Begins, Requested
    <3>. QED BY <1>1, <1>2, <3>1
  <2>. QED BY <2>1, <2>2
<1>. HIDE DEF j, r, c, b, d
<1>4. todo' \in Seq(Step)
  <2>1. /\ <<j, r, c, b, d>> \in Seq(Step) /\ <<r, c, b, d>> \in Seq(Step)
        /\ <<e, b, d>> \in Seq(Step) /\ <<b, d>> \in Seq(Step) /\ <<d>> \in Seq(Step)
    BY <1>2
  <2>. QED BY <1>3, <2>1
<1>4a. ASSUME NEW i \in DOMAIN todo'
       PROVE  \/ /\ todo'[i] = j /\ i = 1
                 /\ s \in Alive' /\ sessions'[s].streamId = NoStream
              \/ todo'[i].do \in Beginning
  <2>1. CASE todo' = <<j, r, c, b, d>> /\ s \in Alive' /\ sessions'[s].streamId = NoStream
    <3>1. i \in 1 .. 5
      BY <2>1
    <3>2. todo'[1] = j /\ todo'[2] = r /\ todo'[3] = c /\ todo'[4] = b /\ todo'[5] = d
      BY <2>1
    <3>. QED BY <1>1, <2>1, <3>1, <3>2 DEF Beginning
  <2>2. CASE todo' = <<r, c, b, d>>
    <3>1. i \in 1 .. 4
      BY <2>2
    <3>2. todo'[1] = r /\ todo'[2] = c /\ todo'[3] = b /\ todo'[4] = d
      BY <2>2
    <3>. QED BY <1>1, <3>1, <3>2 DEF Beginning
  <2>3. CASE todo' = <<e, b, d>>
    BY <1>1, <1>3, <2>3 DEF Beginning
  <2>4. CASE todo' = <<b, d>>
    BY <1>1, <2>4 DEF Beginning
  <2>5. CASE todo' = <<d>>
    BY <1>1, <2>5 DEF Beginning
  <2>. QED BY <1>3, <2>1, <2>2, <2>3, <2>4, <2>5
<1>4b. ASSUME NEW i \in DOMAIN todo', NEW h \in DOMAIN todo', i < h
       PROVE  todo'[i].do \in {"join", "reopen", "create", "start"}
  <2>1. CASE todo' = <<j, r, c, b, d>>
    <3>1. i \in 1 .. 4
      BY <1>4b, <2>1
    <3>2. todo'[1] = j /\ todo'[2] = r /\ todo'[3] = c /\ todo'[4] = b
      BY <2>1
    <3>. QED BY <1>1, <3>1, <3>2
  <2>2. CASE todo' = <<r, c, b, d>>
    <3>1. i \in 1 .. 3
      BY <1>4b, <2>2
    <3>2. todo'[1] = r /\ todo'[2] = c /\ todo'[3] = b
      BY <2>2
    <3>. QED BY <1>1, <3>1, <3>2
  <2>3. CASE todo' = <<e, b, d>>
    BY <1>1, <1>3, <1>4b, <2>3
  <2>4. CASE todo' = <<b, d>>
    BY <1>1, <1>4b, <2>4
  <2>5. CASE todo' = <<d>>
    BY <1>1, <1>4b, <2>5
  <2>. QED BY <1>3, <2>1, <2>2, <2>3, <2>4, <2>5
<1>5. Ordered'
  BY <1>1, <1>4a, <1>4b DEF Ordered, Rank, Beginning
<1>6. OneSubject' /\ StepsLive'
  BY <1>1, <1>4a DEF OneSubject, StepsLive, At, OnSession, OnOperation, Beginning
<1>7. StepsSound'
  <2>1. ASSUME NEW i \in DOMAIN todo'
        PROVE  /\ CancelOK(i)' /\ FinishOK(i)' /\ RetireOK(i)' /\ ForgetOK(i)'
               /\ UseOK(i)' /\ PumpOK(i)' /\ EngineOK(i)' /\ CloseOK(i)'
    BY <1>1, <1>4a DEF CancelOK, FinishOK, RetireOK, ForgetOK, UseOK, PumpOK, EngineOK, CloseOK,
      At, Beginning
  <2>2. ASSUME NEW i \in DOMAIN todo'
        PROVE  JoinOK(i)'
    BY <1>1, <1>4a DEF JoinOK, At, Beginning, NoStream, Stream
  <2>. QED BY <2>1, <2>2 DEF StepsSound
<1>8. BeginningSound'
  BY DEF BeginningSound
<1>. QED BY <1>4, <1>5, <1>6, <1>7, <1>8 DEF StepsInv

LEMMA GenerateKeeps ==
  ASSUME WInv, NEW s \in Session, NEW batch \in BOOLEAN, _generate(s, batch)
  PROVE  WInv'
<1>0. PICK k \in Stream : k = nextStream
  BY WorkerBounds DEF _generate, WInv, WorkerTypeOK, Stream
<1>1. /\ todo = <<>> /\ ~exited /\ k <= MaxStream /\ s \in Alive
      /\ sessions[s].streamId = NoStream
      /\ IF sessions[s].handle.open THEN UNCHANGED sessions
         ELSE Change(s, "handle", Opened(sessions[s].history))
      /\ nextStream' = k + 1
      /\ todo' = (IF batch THEN <<JoinStep(s), ReopenStep(s, k)>> ELSE <<>>)
                   \o <<CreateStep(s, k, batch), StartStep(s, k), StartedStep(s, k)>>
      /\ UNCHANGED <<bridge, engines, nextEngine, nextSession, ops, timer, flags,
                     producer, nativeOf, tokens, ended, askedCancel, completed>>
  BY <1>0 DEF _generate, Idle, ReopenStep, CreateStep, StartStep, StartedStep
<1>2. OnlyOpened
  BY <1>1, OpenOnly DEF WInv
<1>3. sessions'[s].handle.open
  <2>1. sessions[s].history \in Seq(Message)
    BY <1>1 DEF WInv, WorkerTypeOK, NativeSession
  <2>. QED BY <1>1, <2>1, OpenTyped DEF WInv
<1>4. k \in Stream /\ k + 1 \in 1 .. MaxStream + 1 /\ k < k + 1 /\ Running' = Running
  BY <1>0, <1>1, WorkerBounds DEF Stream, Running
<1>5. WorkerTypeOK'
  BY <1>1, <1>2, <1>4 DEF WInv, WorkerTypeOK, OnlyOpened, flags, Running
<1>6. Requested(s, k)'
  <2>1. k \notin Running /\ k \notin askedCancel /\ ended[k] = "no"
    BY <1>0, <1>4 DEF WInv, WorkerTypeOK, TablesInv, OperationsKnown, Streams, Stream
  <2>. QED BY <1>1, <1>2, <1>4, <2>1 DEF Requested, OnlyOpened
<1>7. StepsInv' /\ (todo \in Seq(Step))'
  <2>1. CASE batch
    <3>. DEFINE j == JoinStep(s)
                r == ReopenStep(s, k)
                c == CreateStep(s, k, TRUE)
                b == StartStep(s, k)
                d == StartedStep(s, k)
    <3>0. CreateStep(s, k, batch) = c
      BY <2>1
    <3>a. todo' = <<j, r>> \o <<c, b, d>>
      BY <1>1, <2>1, <3>0
    <3>. HIDE DEF j, r, c, b, d
    <3>b. todo' = <<j, r, c, b, d>>
      <4>1. /\ j \in Step /\ r \in Step /\ c \in Step /\ b \in Step /\ d \in Step
        BY <1>4, StepsTyped DEF j, r, c, b, d
      <4>2. <<j, r>> \o <<c, b, d>> = <<j, r, c, b, d>>
        BY <4>1, Concat23
      <4>. QED BY <3>a, <4>2
    <3>1. todo' = <<JoinStep(s), ReopenStep(s, k), CreateStep(s, k, TRUE),
                    StartStep(s, k), StartedStep(s, k)>>
      BY <3>b DEF j, r, c, b, d
    <3>2. Begins(s, k)'
      BY <1>6, <3>1 DEF Begins
    <3>. QED BY <1>4, <1>5, <3>2, BeginningSteps DEF WorkerTypeOK
  <2>2. CASE ~batch
    <3>. DEFINE steps == <<CreateStep(s, k, batch), StartStep(s, k), StartedStep(s, k)>>
    <3>0. todo' = <<>> \o steps
      BY <1>1, <2>2
    <3>1. todo' = steps
      BY <3>0
    <3>2. Begins(s, k)'
      BY <1>3, <1>6, <3>1 DEF Begins
    <3>. QED BY <1>4, <1>5, <3>2, BeginningSteps DEF WorkerTypeOK
  <2>. QED BY <2>1, <2>2
<1>8. TablesInv' /\ Producers' /\ Gone'
  BY <1>0, <1>1, <1>2, OpenedTables
<1>9. Held'
  BY <1>1, Settled DEF Held, bridge
<1>. QED BY <1>5, <1>7, <1>8, <1>9 DEF WInv, ThreadsInv

\* Taking up a handler changes nothing yet.
LEMMA HandlerTables ==
  ASSUME WInv, NEW steps \in Seq(Step), Handler(steps), fatalExit' \in BOOLEAN
  PROVE  /\ WorkerTypeOK' /\ TablesInv' /\ ThreadsInv' /\ Gone'
         /\ todo' = steps /\ (todo \in Seq(Step))'
         /\ Running' = Running /\ Alive' = Alive /\ todo = <<>>
         /\ UNCHANGED <<bridge, tables>>
<1>1. /\ todo = <<>> /\ ~exited /\ todo' = steps
      /\ UNCHANGED <<bridge, engines, nextEngine, sessions, nextSession, ops, timer,
                     exited, producer, nextStream, nativeOf, tokens, ended,
                     askedCancel, completed>>
  BY DEF Handler, Idle, tables, seen
<1>2. Alive' = Alive /\ Running' = Running
  BY <1>1 DEF Alive, Running
<1>3. WorkerTypeOK'
  BY <1>1, <1>2 DEF WInv, WorkerTypeOK
<1>4. OperationsKnown'
  BY <1>1, <1>2, Settled DEF WInv, TablesInv, OperationsKnown
<1>5. SessionsKnown' /\ Registered' /\ Streams'
  BY <1>1, <1>2 DEF WInv, TablesInv, SessionsKnown, Registered, Streams, bridge
<1>6. ThreadsInv' /\ Gone'
  BY <1>1, <1>2, Settled DEF WInv, ThreadsInv, Producers, Held, Gone, bridge, WorksFor
<1>. QED BY <1>1, <1>2, <1>3, <1>4, <1>5, <1>6 DEF TablesInv, tables

\* One step alone has no order to keep.
LEMMA OneStep ==
  ASSUME NEW step, todo' = <<step>>
  PROVE  /\ DOMAIN todo' = {1} /\ todo'[1] = step
         /\ Ordered' /\ OneSubject'
         /\ step.do \notin Beginning => BeginningSound'
<1>1. DOMAIN todo' = {1} /\ todo'[1] = step
  OBVIOUS
<1>. QED BY <1>1 DEF Ordered, OneSubject, BeginningSound, At

LEMMA CancelBegins ==
  ASSUME WInv, NEW k \in Running, Handler(<<CancelStep(k, FALSE)>>),
         UNCHANGED fatalExit
  PROVE  WInv'
<1>. DEFINE step == CancelStep(k, FALSE)
<1>1. k \in Stream /\ fatalExit \in BOOLEAN
  BY DEF WInv, WorkerTypeOK
<1>2. step \in Step /\ step.do = "cancel" /\ step.k = k
  <2>1. step \in Step
    BY <1>1, StepsTyped
  <2>. QED BY <2>1 DEF CancelStep
<1>. HIDE DEF step
<1>3. /\ WorkerTypeOK' /\ TablesInv' /\ ThreadsInv' /\ Gone'
      /\ todo' = <<step>> /\ (todo \in Seq(Step))'
      /\ Running' = Running /\ todo = <<>>
      /\ UNCHANGED <<bridge, tables>>
  <2>1. <<step>> \in Seq(Step)
    BY <1>2
  <2>. QED BY <1>1, <2>1, HandlerTables DEF step
<1>4. HandleOf(k)'.open
  BY <1>3, Settled DEF HandleOf, tables
<1>5. StepsLive' /\ StepsSound'
  BY <1>2, <1>3, <1>4, OneStep DEF StepsLive, StepsSound, At, CancelOK, JoinOK, FinishOK,
    RetireOK, ForgetOK, UseOK, PumpOK, EngineOK, CloseOK
<1>6. Ordered' /\ OneSubject' /\ BeginningSound'
  BY <1>2, <1>3, OneStep DEF Beginning
<1>. QED BY <1>3, <1>5, <1>6 DEF WInv, StepsInv

-----------------------------------------------------------------------------
(* The steps of a handler. *)

LEMMA HeadStep ==
  ASSUME todo \in Seq(Step), todo # <<>>
  PROVE  /\ 1 \in DOMAIN todo /\ It = todo[1] /\ It \in Step
         /\ DOMAIN todo = 1 .. Len(todo) /\ Len(todo) \in Nat \ {0}
BY DEF It

\* What a step of the beginning is followed by.
LEMMA NoBeginning ==
  ASSUME WInv, todo # <<>>, It.do \notin Beginning \union {"join"}
  PROVE  /\ \A i \in DOMAIN todo : todo[i].do \notin Beginning
         /\ timer \/ Running = {}
<1>1. \A s \in Session, k \in Stream :
        /\ JoinStep(s).do = "join" /\ ReopenStep(s, k).do = "reopen"
        /\ StartStep(s, k).do = "start" /\ StartedStep(s, k).do = "started"
        /\ \A batch \in BOOLEAN : CreateStep(s, k, batch).do = "create"
  BY DEF JoinStep, ReopenStep, StartStep, StartedStep, CreateStep
<1>3. ASSUME NEW s \in Session, NEW k \in Stream, Begins(s, k)
      PROVE  FALSE
  <2>. DEFINE j == JoinStep(s)
              r == ReopenStep(s, k)
              c == CreateStep(s, k, TRUE)
              b == StartStep(s, k)
              d == StartedStep(s, k)
  <2>1. /\ j.do = "join" /\ r.do = "reopen" /\ b.do = "start" /\ d.do = "started"
    BY <1>1
  <2>2. PICK e : /\ e.do = "create"
                 /\ \/ todo = <<j, r, c, b, d>>
                    \/ todo = <<r, c, b, d>>
                    \/ todo = <<e, b, d>>
                    \/ todo = <<b, d>>
                    \/ todo = <<d>>
    <3>1. CASE \E batch \in BOOLEAN : todo = <<CreateStep(s, k, batch), b, d>>
      BY <1>1, <3>1
    <3>2. CASE ~\E batch \in BOOLEAN : todo = <<CreateStep(s, k, batch), b, d>>
      BY <1>1, <1>3, <3>2 DEF Begins
    <3>. QED BY <3>1, <3>2
  <2>. HIDE DEF j, r, c, b, d
  <2>3. It \in {j, r, e, b, d}
    <3>1. CASE todo = <<j, r, c, b, d>>
      BY <3>1 DEF It
    <3>2. CASE todo = <<r, c, b, d>>
      BY <3>2 DEF It
    <3>3. CASE todo = <<e, b, d>>
      BY <3>3 DEF It
    <3>4. CASE todo = <<b, d>>
      BY <3>4 DEF It
    <3>5. CASE todo = <<d>>
      BY <3>5 DEF It
    <3>. QED BY <2>2, <3>1, <3>2, <3>3, <3>4, <3>5
  <2>. QED BY <2>1, <2>2, <2>3 DEF Beginning
<1>4. \A i \in DOMAIN todo : todo[i].do \notin Beginning
  BY <1>3 DEF WInv, StepsInv, BeginningSound, At
<1>5. ASSUME NEW s \in Session, NEW k \in Stream
      PROVE  todo \notin {<<StartStep(s, k), StartedStep(s, k)>>, <<StartedStep(s, k)>>}
  <2>. DEFINE b == StartStep(s, k)
              d == StartedStep(s, k)
  <2>1. b.do = "start" /\ d.do = "started"
    BY <1>1
  <2>. HIDE DEF b, d
  <2>2. todo # <<b, d>> /\ todo # <<d>>
    BY <2>1 DEF It, Beginning
  <2>. QED BY <2>2 DEF b, d
<1>6. \A k \in Running : timer
  BY <1>5 DEF WInv, WorkerTypeOK, TablesInv, OperationsKnown
<1>. QED BY <1>4, <1>6

\* What follows a step that is not one of the lowest rank.
LEMMA RestHigh ==
  ASSUME WInv, todo # <<>>, It.do \notin Beginning, Rank(It) >= 1
  PROVE  \A j \in DOMAIN todo \ {1} :
            /\ Rank(todo[j]) > Rank(It)
            /\ todo[j] \in Step
            /\ todo[j].do \in {"pump", "forget", "engine", "close"}
<1>1. 1 \in DOMAIN todo /\ It = todo[1] /\ DOMAIN todo = 1 .. Len(todo) /\ Len(todo) \in Nat
  BY HeadStep DEF WInv
<1>2. It.do # "join"
  BY DEF Rank
<1>3. \A i \in DOMAIN todo : todo[i].do \notin Beginning
  BY <1>2, NoBeginning
<1>4. ASSUME NEW j \in DOMAIN todo \ {1}
      PROVE  /\ Rank(todo[j]) > Rank(It)
             /\ todo[j].do \in {"pump", "forget", "engine", "close"}
  <2>1. 1 < j /\ Rank(It) \in Int /\ Rank(todo[j]) \in Int
    BY <1>1 DEF Rank
  <2>2. Rank(todo[j]) > Rank(It)
    BY <1>1, <2>1 DEF WInv, StepsInv, Ordered
  <2>3. Rank(todo[j]) >= 2
    BY <2>1, <2>2
  <2>4. todo[j] \in Step
    BY <1>1 DEF WInv
  <2>5. todo[j].do \in OnSession \union Beginning \union {"pump", "engine", "close"}
    BY <2>4, StepFields
  <2>. QED BY <1>3, <2>2, <2>3, <2>5 DEF Rank, OnSession, OnOperation, Beginning
<1>. QED BY <1>1, <1>4 DEF WInv

\* The new steps keep the order when none has a higher rank than the first had.
LEMMA OrderKept ==
  ASSUME WInv, todo # <<>>, NEW steps \in Seq(Step), Continue(steps),
         \A i \in 1 .. Len(steps) : Rank(steps[i]) <= Rank(It),
         \A i, j \in 1 .. Len(steps) :
            i < j => \/ Rank(steps[i]) < Rank(steps[j])
                     \/ Rank(steps[i]) = 0 /\ Rank(steps[j]) = 0
  PROVE  Ordered'
<1>. DEFINE m == Len(steps)
            t == todo'
<1>1. \A step : Rank(step) \in Nat
  BY DEF Rank
<1>2. /\ m \in Nat /\ 1 \in DOMAIN todo /\ It = todo[1]
      /\ DOMAIN todo \subseteq Nat /\ DOMAIN t \subseteq Nat
      /\ \A i \in DOMAIN t :
           \/ i \in 1 .. m /\ t[i] = steps[i]
           \/ i > m /\ (i - m) + 1 \in DOMAIN todo /\ t[i] = todo[(i - m) + 1]
  <2>1. todo \in Seq(Step)
    BY DEF WInv
  <2>. QED BY <2>1, Shift, HeadStep
<1>. HIDE DEF m, t
<1>3. ASSUME NEW i \in DOMAIN t, NEW j \in DOMAIN t, i < j
      PROVE  \/ Rank(t[i]) < Rank(t[j])
             \/ Rank(t[i]) = 0 /\ Rank(t[j]) = 0
  <2>1. i \in Nat /\ j \in Nat
    BY <1>2
  <2>2. CASE i \in 1 .. m /\ j \in 1 .. m
    BY <1>2, <1>3, <2>2 DEF m
  <2>3. CASE i \in 1 .. m /\ j > m
    <3>1. Rank(t[i]) <= Rank(It)
      BY <1>2, <2>3 DEF m
    <3>2. (j - m) + 1 \in DOMAIN todo /\ t[j] = todo[(j - m) + 1] /\ 1 < (j - m) + 1
      BY <1>2, <2>1, <2>3
    <3>3. \/ Rank(It) < Rank(t[j])
          \/ Rank(It) = 0 /\ Rank(t[j]) = 0
      BY <1>2, <3>2 DEF WInv, StepsInv, Ordered
    <3>. QED BY <1>1, <3>1, <3>3
  <2>4. CASE i > m
    <3>1. /\ (i - m) + 1 \in DOMAIN todo /\ t[i] = todo[(i - m) + 1]
          /\ (j - m) + 1 \in DOMAIN todo /\ t[j] = todo[(j - m) + 1]
          /\ (i - m) + 1 < (j - m) + 1
      BY <1>2, <1>3, <2>1, <2>4
    <3>. QED BY <3>1 DEF WInv, StepsInv, Ordered
  <2>. QED BY <1>2, <1>3, <2>1, <2>2, <2>3, <2>4
<1>. QED BY <1>3 DEF Ordered, t

\* Every step of the new list is one of the pushed or one that was waiting, and
\* none is lost.
LEMMA Pushed ==
  ASSUME todo \in Seq(Step), todo # <<>>, NEW steps \in Seq(Step), Continue(steps)
  PROVE  /\ todo' \in Seq(Step)
         /\ \A h \in DOMAIN todo' :
              \/ h \in 1 .. Len(steps) /\ todo'[h] = steps[h]
              \/ h > Len(steps) /\ \E j \in DOMAIN todo \ {1} : todo'[h] = todo[j]
         /\ \A h \in 1 .. Len(steps) : h \in DOMAIN todo' /\ todo'[h] = steps[h]
         /\ \A j \in DOMAIN todo \ {1} : \E h \in DOMAIN todo' : todo'[h] = todo[j]
<1>. DEFINE m == Len(steps)
            t == todo'
<1>1. /\ t \in Seq(Step) /\ m \in Nat /\ DOMAIN t \subseteq Nat
      /\ \A i \in DOMAIN t :
           \/ i \in 1 .. m /\ t[i] = steps[i]
           \/ i > m /\ (i - m) + 1 \in DOMAIN todo /\ t[i] = todo[(i - m) + 1]
      /\ \A i \in 1 .. m : i \in DOMAIN t /\ t[i] = steps[i]
      /\ \A j \in DOMAIN todo \ {1} :
           (j + m) - 1 \in DOMAIN t /\ t[(j + m) - 1] = todo[j]
  BY Shift
<1>. HIDE DEF m, t
<1>2. ASSUME NEW h \in DOMAIN t, h > m
      PROVE  \E j \in DOMAIN todo \ {1} : t[h] = todo[j]
  <2>1. (h - m) + 1 \in DOMAIN todo /\ t[h] = todo[(h - m) + 1] /\ (h - m) + 1 # 1
    BY <1>1, <1>2
  <2>. QED BY <2>1
<1>. QED BY <1>1, <1>2 DEF m, t

\* A step that leaves the tables as they are, as far as the invariant sees.
Quiet ==
    /\ Running' = Running /\ Alive' = Alive
    /\ \A k \in Running : /\ ops'[k].session = ops[k].session
                          /\ ops'[k].native = ops[k].native
                          /\ ops'[k].cancelRequested = ops[k].cancelRequested
    /\ \A s \in Alive : /\ sessions'[s].handle.open = sessions[s].handle.open
                        /\ sessions'[s].streamId = sessions[s].streamId
                        /\ sessions'[s].phase = sessions[s].phase
                        /\ sessions'[s].engineId = sessions[s].engineId
    /\ \A id \in B!Id : /\ object'[id].final = object[id].final
                        /\ object'[id].started = object[id].started
    /\ UNCHANGED <<engines, nextSession, nextStream, ended, askedCancel, operations,
                   callback, starting, producer, timer, exited>>

LEMMA QuietTables ==
  ASSUME WInv, P!Inv, Quiet, todo # <<>>, It.do \notin Beginning \union {"join"},
         \A k : AboutToEnd(k) => AboutToEnd(k)'
  PROVE  TablesInv' /\ Producers' /\ Gone'
<1>1. OperationsKnown'
  <2>1. \A k \in Running :
          LET s == ops[k].session
          IN  /\ s \in Alive
              /\ sessions[s].streamId = k
              /\ sessions[s].phase = IF ops[k].cancelRequested
                                     THEN "cancelRequested" ELSE "generating"
              /\ sessions[s].handle.open \/ AboutToEnd(k)
              /\ ended[k] = "no"
              /\ k < nextStream
              /\ timer
    BY NoBeginning DEF WInv, TablesInv, OperationsKnown
  <2>. QED BY <2>1 DEF OperationsKnown, Quiet
<1>2. SessionsKnown' /\ Registered' /\ Streams'
  <2>1. SessionsKnown'
    BY DEF WInv, TablesInv, SessionsKnown, Quiet
  <2>2. Registered'
    BY DEF WInv, TablesInv, Registered, Quiet
  <2>3. Streams'
    BY DEF WInv, TablesInv, Streams, Quiet
  <2>. QED BY <2>1, <2>2, <2>3
<1>3. Producers'
  <2>1. \A s \in Session : /\ producer[s] \in B!Id \union {B!NoId}
                           /\ callback[s] # B!NoId => callback[s] \in B!Id
    BY DEF WInv, WorkerTypeOK, P!Inv, P!TypeOK, P!Id, B!Id, P!NoId, B!NoId, Thread
  <2>. QED BY <2>1 DEF WInv, ThreadsInv, Producers, WorksFor, Quiet
<1>4. Gone'
  BY DEF WInv, Gone, Quiet
<1>. QED BY <1>1, <1>2, <1>3, <1>4 DEF TablesInv

\* The steps of the pump and of a finish push what concerns one operation, in the
\* order of their ranks, and each may stand where it is put.
Levelled(steps, rank) ==
    /\ \A i \in 1 .. Len(steps) : Rank(steps[i]) <= rank
    /\ \A i, j \in 1 .. Len(steps) :
         i < j => \/ Rank(steps[i]) < Rank(steps[j])
                  \/ Rank(steps[i]) = 0 /\ Rank(steps[j]) = 0

Concern(steps, k) ==
    \A i \in 1 .. Len(steps) :
        /\ steps[i].do \in OnOperation \union {"join", "pump"}
        /\ steps[i].do \in OnOperation => steps[i].k = k
        /\ steps[i].do = "join" => steps[i].s = ops[k].session
        /\ steps[i].do = "pump" => /\ It.do = "pump"
                                   /\ steps[i].ks \subseteq Running \ {k}

MayStand(i) ==
    CancelOK(i)' /\ JoinOK(i)' /\ FinishOK(i)' /\ RetireOK(i)' /\ UseOK(i)'

LEMMA QuietSteps ==
  ASSUME WInv, Quiet, todo # <<>>,
         It.do \in {"pump", "poll", "take", "use", "finish"},
         NEW steps \in Seq(Step), Continue(steps), NEW k \in Running,
         It.do # "pump" => It.do \in OnOperation /\ It.k = k,
         Levelled(steps, Rank(It)),
         Concern(steps, k),
         \A i \in 1 .. Len(steps) : MayStand(i),
         It.do = "finish" =>
            \E i \in 1 .. Len(steps) : steps[i].do \in Ending /\ steps[i].k = k
  PROVE  /\ StepsInv' /\ (todo \in Seq(Step))'
         /\ \A h : AboutToEnd(h) => AboutToEnd(h)'
<1>. DEFINE t == todo'
<1>1. /\ t \in Seq(Step) /\ Len(steps) \in Nat
      /\ \A h \in DOMAIN t :
           \/ h \in 1 .. Len(steps) /\ t[h] = steps[h]
           \/ h > Len(steps) /\ \E j \in DOMAIN todo \ {1} : t[h] = todo[j]
      /\ \A h \in 1 .. Len(steps) : h \in DOMAIN t /\ t[h] = steps[h]
      /\ \A j \in DOMAIN todo \ {1} : \E h \in DOMAIN t : t[h] = todo[j]
  BY Pushed DEF WInv
<1>2. /\ 1 \in DOMAIN todo /\ It = todo[1]
      /\ Rank(It) >= 1 /\ It.do \notin Beginning \union {"join", "forget", "engine"}
  BY HeadStep DEF WInv, Rank, Beginning
<1>3. \A j \in DOMAIN todo \ {1} :
            /\ Rank(todo[j]) > Rank(It)
            /\ todo[j].do \in {"pump", "forget", "engine", "close"}
  BY <1>2, RestHigh
<1>. HIDE DEF t
<1>4. \A h \in DOMAIN t : \/ /\ t[h].do \in OnOperation \union {"join", "pump"}
                             /\ t[h].do \in OnOperation => t[h].k = k
                             /\ t[h].do = "join" => t[h].s = ops[k].session
                             /\ t[h].do = "pump" => /\ It.do = "pump"
                                                    /\ t[h].ks \subseteq Running \ {k}
                             /\ h \in 1 .. Len(steps)
                          \/ /\ t[h].do \in {"pump", "forget", "engine", "close"}
                             /\ \E j \in DOMAIN todo \ {1} : t[h] = todo[j]
  BY <1>1, <1>3 DEF Concern
<1>5. Ordered'
  BY OrderKept DEF Levelled
<1>6. OneSubject'
  <2>1. ASSUME NEW j \in DOMAIN todo \ {1}, todo[j].do = "forget"
        PROVE  It.do \in OnOperation /\ todo[j].s = ops[k].session
    <3>1. It.do \in OnOperation
      BY <1>3, <2>1 DEF Rank
    <3>. QED BY <1>2, <2>1, <3>1 DEF WInv, StepsInv, OneSubject, SubjectOf, At, OnSession,
      OnOperation
  <2>2. ASSUME NEW h \in DOMAIN t, t[h].do \in OnSession
        PROVE  IF t[h].do \in {"join", "forget"} THEN t[h].s = ops[k].session
               ELSE t[h].k = k
    BY <1>4, <2>1, <2>2 DEF OnSession, OnOperation
  <2>3. ops'[k].session = ops[k].session
    BY DEF Quiet
  <2>. QED BY <2>2, <2>3 DEF OneSubject, SubjectOf, At, t
<1>7. StepsLive'
  BY <1>4 DEF StepsLive, At, t, OnOperation, Quiet
<1>8. \A h : AboutToEnd(h) => AboutToEnd(h)'
  <2>1. ASSUME NEW h, AboutToEnd(h)
        PROVE  It.do = "finish" /\ h = k
    <3>1. PICK j \in DOMAIN todo : At(j, Ending) /\ todo[j].k = h
      BY <2>1 DEF AboutToEnd
    <3>2. j = 1
      BY <1>3, <3>1 DEF At, Ending
    <3>. QED BY <1>2, <3>1, <3>2 DEF At, Ending, OnOperation
  <2>. QED BY <1>1, <2>1 DEF AboutToEnd, At, t
<1>9. StepsSound'
  <2>1. ASSUME NEW i \in DOMAIN t, i \in 1 .. Len(steps)
        PROVE  /\ CancelOK(i)' /\ JoinOK(i)' /\ FinishOK(i)' /\ RetireOK(i)'
               /\ UseOK(i)' /\ ForgetOK(i)' /\ EngineOK(i)' /\ CloseOK(i)'
    <3>1. t[i].do \in OnOperation \union {"join", "pump"}
      BY <1>1, <2>1 DEF Concern
    <3>. QED BY <2>1, <3>1 DEF MayStand, ForgetOK, EngineOK, CloseOK, At, OnOperation, t
  <2>2. ASSUME NEW i \in DOMAIN t, NEW j \in DOMAIN todo \ {1}, t[i] = todo[j]
        PROVE  /\ CancelOK(i)' /\ JoinOK(i)' /\ FinishOK(i)' /\ RetireOK(i)'
               /\ UseOK(i)'
    BY <1>3, <2>2 DEF CancelOK, JoinOK, FinishOK, RetireOK, UseOK, At, t
  <2>3. ASSUME NEW i \in DOMAIN t
        PROVE  PumpOK(i)'
    <3>1. CASE i \in 1 .. Len(steps) /\ t[i].do = "pump"
      <4>1. It.do = "pump" /\ t[i].ks \subseteq Running \ {k}
        BY <1>1, <3>1 DEF Concern
      <4>2. \A h \in DOMAIN t : t[h].do \in OnOperation => t[h].k = k
        BY <1>4 DEF OnOperation
      <4>. QED BY <4>1, <4>2 DEF PumpOK, At, t, Quiet
    <3>2. CASE t[i].do = "pump" /\ ~(i \in 1 .. Len(steps))
      <4>1. PICK j \in DOMAIN todo \ {1} : t[i] = todo[j]
        BY <1>1, <3>2
      <4>2. It.do \in OnOperation /\ It.k = k
        BY <1>3, <3>2, <4>1 DEF Rank
      <4>3. todo[j].ks \subseteq Running /\ k \notin todo[j].ks
        BY <1>2, <3>2, <4>1, <4>2 DEF WInv, StepsInv, StepsSound, PumpOK, At
      <4>4. \A h \in DOMAIN t : t[h].do \in OnOperation => t[h].k = k
        BY <1>4 DEF OnOperation
      <4>. QED BY <4>1, <4>3, <4>4 DEF PumpOK, At, t, Quiet
    <3>. QED BY <3>1, <3>2 DEF PumpOK, At, t
  <2>4. ASSUME NEW i \in DOMAIN t, NEW j \in DOMAIN todo \ {1}, t[i] = todo[j]
        PROVE  ForgetOK(i)'
    <3>1. CASE t[i].do = "forget"
      <4>. DEFINE s == todo[j].s
      <4>1. /\ s \in Alive
            /\ sessions[s].handle.open => JoinAhead(s)
            /\ sessions[s].streamId # NoStream => AboutToEnd(sessions[s].streamId)
        BY <2>4, <3>1 DEF WInv, StepsInv, StepsSound, ForgetOK, At
      <4>2. ~JoinAhead(s)
        BY <1>2, <1>3 DEF JoinAhead, At
      <4>3. /\ s \in Alive' /\ ~sessions'[s].handle.open
            /\ sessions'[s].streamId = sessions[s].streamId
        BY <4>1, <4>2 DEF Quiet, WInv, WorkerTypeOK, NativeSession, Handle
      <4>. QED BY <1>8, <2>4, <4>1, <4>3 DEF ForgetOK, At, t
    <3>. QED BY <3>1 DEF ForgetOK, At, t
  <2>5. ASSUME NEW i \in DOMAIN t, NEW j \in DOMAIN todo \ {1}, t[i] = todo[j]
        PROVE  EngineOK(i)'
    <3>1. CASE t[i].do = "engine"
      <4>1. /\ todo[j].ss \subseteq Alive
            /\ \A h \in DOMAIN todo : At(h, {"forget"}) => todo[h].s \notin todo[j].ss
            /\ \A s \in Alive : sessions[s].engineId = todo[j].e =>
                  \/ s \in todo[j].ss
                  \/ \E h \in DOMAIN todo : At(h, {"forget"}) /\ todo[h].s = s
        BY <2>5, <3>1 DEF WInv, StepsInv, StepsSound, EngineOK, At
      <4>2. \A h \in DOMAIN t : t[h].do = "forget" => t[h].s \notin todo[j].ss
        BY <1>4, <4>1 DEF At, OnOperation
      <4>3. \A s : (\E h \in DOMAIN todo : At(h, {"forget"}) /\ todo[h].s = s)
                     => \E h \in DOMAIN t : t[h].do = "forget" /\ t[h].s = s
        BY <1>1, <1>2 DEF At
      <4>4. t[i].ss \subseteq Alive'
        BY <2>5, <4>1 DEF Quiet
      <4>5. \A h \in DOMAIN t : t[h].do = "forget" => t[h].s \notin t[i].ss
        BY <2>5, <4>2
      <4>6. \A s \in Alive' : sessions'[s].engineId = t[i].e =>
               \/ s \in t[i].ss
               \/ \E h \in DOMAIN t : t[h].do = "forget" /\ t[h].s = s
        BY <2>5, <4>1, <4>3 DEF Quiet
      <4>. QED BY <4>4, <4>5, <4>6 DEF EngineOK, At, t
    <3>. QED BY <3>1 DEF EngineOK, At, t
  <2>6. ASSUME NEW i \in DOMAIN t, NEW j \in DOMAIN todo \ {1}, t[i] = todo[j]
        PROVE  CloseOK(i)'
    <3>1. CASE t[i].do = "close"
      <4>1. \A e \in engines :
                \/ e \in todo[j].es
                \/ \E h \in DOMAIN todo : At(h, {"engine"}) /\ todo[h].e = e
        BY <2>6, <3>1 DEF WInv, StepsInv, StepsSound, CloseOK, At
      <4>2. \A e : (\E h \in DOMAIN todo : At(h, {"engine"}) /\ todo[h].e = e)
                     => \E h \in DOMAIN t : t[h].do = "engine" /\ t[h].e = e
        BY <1>1, <1>2 DEF At
      <4>. QED BY <2>6, <4>1, <4>2 DEF CloseOK, At, t, Quiet
    <3>. QED BY <3>1 DEF CloseOK, At, t
  <2>. QED BY <1>1, <2>1, <2>2, <2>3, <2>4, <2>5, <2>6 DEF StepsSound, t
<1>10. BeginningSound'
  BY <1>4 DEF BeginningSound, At, Beginning, OnOperation, t
<1>. QED BY <1>1, <1>5, <1>6, <1>7, <1>8, <1>9, <1>10 DEF StepsInv, t

-----------------------------------------------------------------------------
(* The pump and the finish of an operation. *)

LEMMA Concat12 ==
  ASSUME NEW a \in Step, NEW b \in Step, NEW c \in Step
  PROVE  <<a>> \o <<b, c>> = <<a, b, c>>
<1>. DEFINE p == <<a>>
            q == <<b, c>>
            u == <<a, b, c>>
<1>1. p \in Seq(Step) /\ q \in Seq(Step) /\ u \in Seq(Step)
  OBVIOUS
<1>2. /\ Len(p) = 1 /\ Len(q) = 2 /\ Len(u) = 3
      /\ p[1] = a /\ q[1] = b /\ q[2] = c /\ u[1] = a /\ u[2] = b /\ u[3] = c
  OBVIOUS
<1>. HIDE DEF p, q, u
<1>3. ASSUME NEW t, t = p \o q
      PROVE  t = u
  <2>1. t \in Seq(Step) /\ Len(t) = Len(p) + Len(q)
    BY <1>1, <1>3
  <2>2. \A i \in 1 .. Len(p) : t[i] = p[i]
    BY <1>1, <1>3
  <2>3. \A i \in 1 .. Len(q) : t[Len(p) + i] = q[i]
    BY <1>1, <1>3
  <2>4. t[1] = p[1] /\ t[1 + 1] = q[1] /\ t[1 + 2] = q[2]
    BY <1>2, <2>2, <2>3
  <2>5. \A i \in 1 .. 3 : u[i] = t[i]
    BY <1>2, <2>4
  <2>. QED BY <1>1, <1>2, <2>1, <2>5
<1>4. p \o q = u
  BY <1>3
<1>. QED BY <1>4 DEF p, q, u

LEMMA NothingChanged ==
  ASSUME WInv, UNCHANGED <<bridge, tables, flags, producer, seen>>
  PROVE  WorkerTypeOK' /\ Quiet
<1>1. Alive' = Alive /\ Running' = Running
  BY DEF Alive, Running, tables
<1>2. WorkerTypeOK'
  BY <1>1 DEF WInv, WorkerTypeOK, tables, flags, seen
<1>3. Quiet
  BY <1>1 DEF Quiet, bridge, tables, flags, seen
<1>. QED BY <1>2, <1>3

\* Between two steps the operation that is worked on is there, with its session.
LEMMA WorkedOn ==
  ASSUME WInv, todo # <<>>, NEW k \in Running
  PROVE  /\ k \in Stream
         /\ ops[k] \in NativeOperation
         /\ ops[k].session \in Session /\ ops[k].session \in Alive
         /\ ops[k].native \in B!Id
         /\ sessions[ops[k].session] \in NativeSession
         /\ sessions[ops[k].session].streamId = k
         /\ HandleOf(k).open \/ AboutToEnd(k)
BY DEF WInv, WorkerTypeOK, TablesInv, OperationsKnown, HandleOf, NativeOperation

\* Nothing that waits behind a step of a higher rank ends an operation.
LEMMA OnlyHeadEnds ==
  ASSUME WInv, todo # <<>>, It.do \notin Beginning, Rank(It) >= 1,
         NEW k, AboutToEnd(k)
  PROVE  It.do \in Ending /\ It.k = k
<1>1. PICK i \in DOMAIN todo : todo[i].do \in Ending /\ todo[i].k = k
  BY DEF AboutToEnd, At
<1>2. i = 1
  BY <1>1, RestHigh DEF Ending
<1>. QED BY <1>1, <1>2, HeadStep DEF WInv

LEMMA PumpKeeps == ASSUME WInv, P!Inv, Pump PROVE WInv'
<1>1. PICK k \in Stream :
        /\ todo # <<>> /\ It.do = "pump"
        /\ k \in It.ks
        /\ LET rest == <<[do |-> "poll", k |-> k], PumpStep(It.ks \ {k})>>
           IN  Continue(IF Overran(k) THEN <<CancelStep(k, TRUE)>> \o rest ELSE rest)
        /\ UNCHANGED <<bridge, tables, flags, producer, seen>>
  BY DEF Pump, Now, It, First
<1>2. /\ 1 \in DOMAIN todo /\ It = todo[1] /\ It \in Step
      /\ It.do \notin Beginning \union Ending \union {"join"} /\ Rank(It) = 2
  BY <1>1, HeadStep DEF WInv, Beginning, Ending, Rank
<1>3. /\ It.ks \subseteq Running /\ It.ks \in SUBSET Stream
  BY <1>1, <1>2, StepFields DEF WInv, StepsInv, StepsSound, PumpOK, At
<1>4. k \in Running /\ HandleOf(k).open
  BY <1>1, <1>2, <1>3, WorkedOn, OnlyHeadEnds
<1>5. WorkerTypeOK' /\ Quiet
  BY <1>1, NothingChanged
<1>6. HandleOf(k)'.open
  BY <1>4, <1>1 DEF HandleOf, tables
<1>. DEFINE c == CancelStep(k, TRUE)
            p == [do |-> "poll", k |-> k]
            n == PumpStep(It.ks \ {k})
<1>7. /\ c \in Step /\ p \in Step /\ n \in Step
  BY <1>3, StepsTyped
<1>8. /\ c.do = "cancel" /\ c.k = k /\ p.do = "poll" /\ p.k = k
      /\ n.do = "pump" /\ n.ks = It.ks \ {k}
  BY DEF CancelStep, PumpStep
<1>9. Rank(c) = 0 /\ Rank(p) = 1 /\ Rank(n) = 2
  BY <1>8 DEF Rank
<1>10. Continue(<<c, p, n>>) \/ Continue(<<p, n>>)
  <2>1. <<c>> \o <<p, n>> = <<c, p, n>>
    BY <1>7, Concat12
  <2>. QED BY <1>1, <2>1
<1>. HIDE DEF c, p, n
<1>11. ASSUME NEW steps \in Seq(Step), Continue(steps),
              steps \in {<<c, p, n>>, <<p, n>>}
       PROVE  StepsInv' /\ (todo \in Seq(Step))' /\ \A h : AboutToEnd(h) => AboutToEnd(h)'
  <2>1. \A i \in 1 .. Len(steps) : i \in DOMAIN todo' /\ todo'[i] = steps[i]
    BY <1>1, <1>11, Pushed DEF WInv
  <2>2. \A i \in 1 .. Len(steps) : \/ steps[i] = c /\ i = 1
                                   \/ steps[i] \in {p, n}
    <3>1. CASE steps = <<c, p, n>>
      <4>1. Len(steps) = 3 /\ steps[1] = c /\ steps[2] = p /\ steps[3] = n
        BY <3>1
      <4>. QED BY <4>1
    <3>2. CASE steps = <<p, n>>
      BY <3>2
    <3>. QED BY <1>11, <3>1, <3>2
  <2>3. \A i, j \in 1 .. Len(steps) : i < j => Rank(steps[i]) < Rank(steps[j])
    <3>1. CASE steps = <<c, p, n>>
      <4>1. Len(steps) = 3 /\ steps[1] = c /\ steps[2] = p /\ steps[3] = n
        BY <3>1
      <4>. QED BY <1>9, <4>1
    <3>2. CASE steps = <<p, n>>
      BY <1>9, <3>2
    <3>. QED BY <1>11, <3>1, <3>2
  <2>4. \A i \in 1 .. Len(steps) : Rank(steps[i]) <= Rank(It)
    BY <1>2, <1>9, <2>2
  <2>5. Levelled(steps, Rank(It))
    BY <2>3, <2>4 DEF Levelled
  <2>6. Concern(steps, k)
    BY <1>1, <1>2, <1>3, <1>8, <2>2 DEF OnOperation, Concern
  <2>7. \A i \in 1 .. Len(steps) : MayStand(i)
    BY <1>6, <1>8, <2>1, <2>2 DEF MayStand, CancelOK, JoinOK, FinishOK, RetireOK, UseOK, At
  <2>. QED BY <1>1, <1>4, <1>5, <1>11, <2>5, <2>6, <2>7, QuietSteps
<1>12. StepsInv' /\ (todo \in Seq(Step))' /\ \A h : AboutToEnd(h) => AboutToEnd(h)'
  <2>1. <<c, p, n>> \in Seq(Step) /\ <<p, n>> \in Seq(Step)
    BY <1>7
  <2>. QED BY <1>10, <1>11, <2>1
<1>13. TablesInv' /\ Producers' /\ Gone'
  BY <1>1, <1>2, <1>5, <1>12, QuietTables
<1>14. Held'
  BY <1>1 DEF WInv, ThreadsInv, Held, Now, It, bridge
<1>. QED BY <1>5, <1>12, <1>13, <1>14 DEF WInv, ThreadsInv

LEMMA PushedOne ==
  ASSUME WInv, todo # <<>>, NEW step \in Step, Continue(<<step>>)
  PROVE  1 \in DOMAIN todo' /\ todo'[1] = step /\ todo' # <<>>
<1>. DEFINE steps == <<step>>
<1>1. /\ steps \in Seq(Step) /\ Continue(steps) /\ 1 \in 1 .. Len(steps)
      /\ steps[1] = step
  OBVIOUS
<1>. HIDE DEF steps
<1>2. 1 \in DOMAIN todo' /\ todo'[1] = step
  BY <1>1, Pushed DEF WInv
<1>. QED BY <1>2

\* Nothing is pushed, or one step about the operation of the step before it.
LEMMA NoneOfOperation ==
  ASSUME WInv, P!Inv, WorkerTypeOK', Quiet, todo # <<>>,
         It.do \in {"poll", "take", "use"}, It.k \in Running,
         Continue(<<>>), Held'
  PROVE  WInv'
<1>1. It.do \notin Beginning \union {"join"} /\ Rank(It) = 1 /\ It.do \in OnOperation
  BY DEF Beginning, Rank, OnOperation
<1>2. StepsInv' /\ (todo \in Seq(Step))' /\ \A h : AboutToEnd(h) => AboutToEnd(h)'
  <2>. DEFINE steps == <<>>
  <2>1. steps \in Seq(Step) /\ Continue(steps) /\ \A i \in 1 .. Len(steps) : FALSE
    OBVIOUS
  <2>. HIDE DEF steps
  <2>2. Levelled(steps, Rank(It)) /\ Concern(steps, It.k)
    BY <2>1 DEF Levelled, Concern
  <2>. QED BY <1>1, <2>1, <2>2, QuietSteps
<1>3. TablesInv' /\ Producers' /\ Gone'
  BY <1>1, <1>2, QuietTables
<1>. QED BY <1>2, <1>3 DEF WInv, ThreadsInv

LEMMA NextOfOperation ==
  ASSUME WInv, P!Inv, WorkerTypeOK', Quiet, todo # <<>>,
         It.do \in {"poll", "take", "use"}, It.k \in Running,
         NEW next \in Step, next.do \in OnOperation \ {"cancel"}, next.k = It.k,
         Rank(next) = 1,
         Continue(<<next>>), FinishOK(1)', RetireOK(1)', UseOK(1)',
         Held'
  PROVE  WInv'
<1>1. It.do \notin Beginning \union {"join"} /\ Rank(It) = 1 /\ It.do \in OnOperation
  BY DEF Beginning, Rank, OnOperation
<1>2. 1 \in DOMAIN todo' /\ todo'[1] = next
  BY PushedOne
<1>3. next.do \notin {"cancel", "join"}
  BY DEF OnOperation
<1>4. CancelOK(1)' /\ JoinOK(1)'
  BY <1>2, <1>3 DEF CancelOK, JoinOK, At
<1>5. StepsInv' /\ (todo \in Seq(Step))' /\ \A h : AboutToEnd(h) => AboutToEnd(h)'
  <2>. DEFINE steps == <<next>>
  <2>1. /\ steps \in Seq(Step) /\ Continue(steps)
        /\ \A i \in 1 .. Len(steps) : i = 1 /\ steps[i] = next
    OBVIOUS
  <2>. HIDE DEF steps
  <2>2. Levelled(steps, Rank(It))
    BY <1>1, <2>1 DEF Levelled
  <2>3. Concern(steps, It.k)
    BY <1>3, <2>1 DEF OnOperation, Concern
  <2>4. \A i \in 1 .. Len(steps) : MayStand(i)
    BY <1>4, <2>1 DEF MayStand
  <2>. QED BY <1>1, <2>1, <2>2, <2>3, <2>4, QuietSteps
<1>6. TablesInv' /\ Producers' /\ Gone'
  BY <1>1, <1>5, QuietTables
<1>. QED BY <1>5, <1>6 DEF WInv, ThreadsInv

\* The head of a list that needs an operation has it.
LEMMA HeadOperation ==
  ASSUME WInv, todo # <<>>, It.do \in OnOperation
  PROVE  /\ It.k \in Running /\ It.k \in Stream
         /\ 1 \in DOMAIN todo /\ It = todo[1] /\ It \in Step
<1>1. 1 \in DOMAIN todo /\ It = todo[1] /\ It \in Step
  BY HeadStep DEF WInv
<1>2. It.k \in Running
  BY <1>1 DEF WInv, StepsInv, StepsLive, At
<1>. QED BY <1>1, <1>2 DEF WInv, WorkerTypeOK

LEMMA PollKeeps == ASSUME WInv, P!Inv, Poll PROVE WInv'
<1>. DEFINE next == [do |-> "take", k |-> It.k]
<1>1. /\ todo # <<>> /\ It.do = "poll"
      /\ Continue(<<>>) \/ Continue(<<next>>)
      /\ UNCHANGED <<bridge, tables, flags, producer, seen>>
  BY DEF Poll, Now, It
<1>2. It.k \in Running /\ It.k \in Stream
  BY <1>1, HeadOperation DEF OnOperation
<1>3. next \in Step
  BY <1>2, StepsTyped
<1>4. /\ next.do = "take" /\ next.k = It.k /\ Rank(next) = 1
      /\ next.do \in OnOperation \ {"cancel"}
  BY DEF Rank, OnOperation
<1>. HIDE DEF next
<1>5. WorkerTypeOK' /\ Quiet
  BY <1>1, NothingChanged
<1>6. Held'
  BY <1>1 DEF WInv, ThreadsInv, Held, Now, It, bridge
<1>7. Continue(<<next>>) => todo'[1] = next
  BY <1>1, <1>3, PushedOne
<1>8. Continue(<<next>>) => FinishOK(1)' /\ RetireOK(1)' /\ UseOK(1)'
  BY <1>4, <1>7 DEF FinishOK, RetireOK, UseOK, At
<1>9. CASE Continue(<<>>)
  BY <1>1, <1>2, <1>5, <1>6, <1>9, NoneOfOperation
<1>10. CASE Continue(<<next>>)
  BY <1>1, <1>2, <1>3, <1>4, <1>5, <1>6, <1>8, <1>10, NextOfOperation
<1>. QED BY <1>1, <1>9, <1>10

LEMMA TakeKeeps == ASSUME WInv, P!Inv, Take PROVE WInv'
<1>. DEFINE next == [do |-> "use", k |-> It.k]
            native == ops[It.k].native
<1>1. /\ todo # <<>> /\ It.do = "take"
      /\ \/ UNCHANGED bridge /\ Continue(<<>>)
         \/ B!lrlm_operation_take(native) /\ Continue(<<next>>)
      /\ UNCHANGED <<tables, flags, producer, seen>>
  BY DEF Take, Now, It
<1>2. It.k \in Running /\ It.k \in Stream
  BY <1>1, HeadOperation DEF OnOperation
<1>3. next \in Step
  BY <1>2, StepsTyped
<1>4. /\ next.do = "use" /\ next.k = It.k /\ Rank(next) = 1
      /\ next.do \in OnOperation \ {"cancel"}
  BY DEF Rank, OnOperation
<1>. HIDE DEF next
<1>5. Alive' = Alive /\ Running' = Running
  BY <1>1 DEF Alive, Running, tables
<1>6. WorkerTypeOK'
  BY <1>1, <1>5 DEF WInv, WorkerTypeOK, tables, flags, seen
<1>7. Continue(<<next>>) => todo'[1] = next /\ todo' # <<>> /\ 1 \in DOMAIN todo'
  BY <1>1, <1>3, PushedOne
<1>8. CASE UNCHANGED bridge /\ Continue(<<>>)
  <2>1. Quiet
    BY <1>1, <1>8, NothingChanged
  <2>2. Held'
    BY <1>1, <1>8 DEF WInv, ThreadsInv, Held, Now, It, bridge
  <2>. QED BY <1>1, <1>2, <1>6, <1>8, <2>1, <2>2, NoneOfOperation
<1>9. CASE B!lrlm_operation_take(native) /\ Continue(<<next>>)
  <2>1. /\ \A j \in B!Id : /\ object'[j].final = object[j].final
                           /\ object'[j].started = object[j].started
        /\ held' # B!NoEvent
        /\ ~B!IsText(held') => object'[native].final
        /\ UNCHANGED <<operations, callback, starting>>
    BY <1>9, TakeCall
  <2>2. Quiet
    BY <1>1, <1>5, <2>1 DEF Quiet, tables, flags, seen
  <2>3. Held'
    BY <1>4, <1>7, <1>9 DEF Held, Now, It
  <2>4. ops' = ops
    BY <1>1 DEF tables
  <2>5. UseOK(1)'
    BY <1>4, <1>7, <1>9, <2>1, <2>4 DEF UseOK, At, B!IsText
  <2>6. FinishOK(1)' /\ RetireOK(1)'
    BY <1>4, <1>7, <1>9 DEF FinishOK, RetireOK, At
  <2>. QED BY <1>1, <1>2, <1>3, <1>4, <1>6, <1>9, <2>2, <2>3, <2>5, <2>6, NextOfOperation
<1>. QED BY <1>1, <1>8, <1>9

LEMMA PushedTwo ==
  ASSUME WInv, todo # <<>>, NEW a \in Step, NEW b \in Step, Continue(<<a, b>>)
  PROVE  /\ 1 \in DOMAIN todo' /\ todo'[1] = a /\ 2 \in DOMAIN todo' /\ todo'[2] = b
<1>. DEFINE steps == <<a, b>>
<1>1. /\ steps \in Seq(Step) /\ Continue(steps) /\ Len(steps) = 2
      /\ steps[1] = a /\ steps[2] = b
  OBVIOUS
<1>. HIDE DEF steps
<1>2. \A h \in 1 .. Len(steps) : h \in DOMAIN todo' /\ todo'[h] = steps[h]
  BY <1>1, Pushed DEF WInv
<1>3. 1 \in 1 .. Len(steps) /\ 2 \in 1 .. Len(steps)
  BY <1>1
<1>. QED BY <1>1, <1>2, <1>3

LEMMA PushedThree ==
  ASSUME WInv, todo # <<>>, NEW a \in Step, NEW b \in Step, NEW c \in Step,
         Continue(<<a, b, c>>)
  PROVE  /\ 1 \in DOMAIN todo' /\ todo'[1] = a /\ 2 \in DOMAIN todo' /\ todo'[2] = b
         /\ 3 \in DOMAIN todo' /\ todo'[3] = c
<1>. DEFINE steps == <<a, b, c>>
<1>1. /\ steps \in Seq(Step) /\ Continue(steps) /\ Len(steps) = 3
      /\ steps[1] = a /\ steps[2] = b /\ steps[3] = c
  OBVIOUS
<1>. HIDE DEF steps
<1>2. \A h \in 1 .. Len(steps) : h \in DOMAIN todo' /\ todo'[h] = steps[h]
  BY <1>1, Pushed DEF WInv
<1>3. 1 \in 1 .. Len(steps) /\ 2 \in 1 .. Len(steps) /\ 3 \in 1 .. Len(steps)
  BY <1>1
<1>. QED BY <1>1, <1>2, <1>3

LEMMA FailKeeps ==
  ASSUME WInv, P!Inv, WorkerTypeOK', Quiet, todo # <<>>,
         It.do \in {"use", "finish"}, It.k \in Running, HandleOf(It.k).open,
         Continue(FailSteps(It.k)), Held'
  PROVE  WInv'
<1>0. PICK k \in Stream : k = It.k /\ k \in Running
  BY WorkedOn
<1>0a. PICK s \in Session : s = ops[k].session
  BY <1>0, WorkedOn
<1>. DEFINE a == CancelStep(k, FALSE)
            b == JoinStep(s)
            c == FinishStep(k, B!Error, TRUE)
            steps == <<a, b, c>>
<1>1. /\ It.do \notin Beginning \union {"join"} /\ Rank(It) = 1 /\ It.do \in OnOperation
  BY DEF Beginning, Rank, OnOperation
<1>2. /\ k \in Stream /\ s \in Session /\ s \in Alive /\ sessions[s].streamId = k
      /\ ops'[k].session = s /\ k \in Running' /\ s \in Alive'
      /\ sessions'[s].streamId = k /\ sessions'[s].handle.open
  BY <1>0, <1>0a, WorkedOn DEF Quiet, HandleOf
<1>3. /\ a \in Step /\ b \in Step /\ c \in Step
  BY <1>2, StepsTyped, KindsDiffer
<1>4. /\ a.do = "cancel" /\ a.k = k /\ b.do = "join" /\ b.s = s
      /\ c.do = "finish" /\ c.k = k /\ c.kind = B!Error /\ c.afterStop = TRUE
      /\ Rank(a) = 0 /\ Rank(b) = 0 /\ Rank(c) = 1
  BY DEF CancelStep, JoinStep, FinishStep, Rank
<1>5. Continue(steps)
  BY <1>0, <1>0a DEF FailSteps
<1>. HIDE DEF a, b, c
<1>6. /\ 1 \in DOMAIN todo' /\ todo'[1] = a /\ 2 \in DOMAIN todo' /\ todo'[2] = b
      /\ 3 \in DOMAIN todo' /\ todo'[3] = c
  BY <1>3, <1>5, PushedThree
<1>7. /\ steps \in Seq(Step)
      /\ Len(steps) = 3 /\ steps[1] = a /\ steps[2] = b /\ steps[3] = c
  BY <1>3
<1>. HIDE DEF steps
<1>8. AboutToEnd(k)'
  BY <1>4, <1>6 DEF AboutToEnd, At, Ending
<1>9. CancelOK(1)' /\ JoinOK(1)' /\ FinishOK(1)' /\ RetireOK(1)' /\ UseOK(1)'
  BY <1>2, <1>4, <1>6 DEF CancelOK, JoinOK, FinishOK, RetireOK, UseOK, At, HandleOf
<1>10. CancelOK(2)' /\ JoinOK(2)' /\ FinishOK(2)' /\ RetireOK(2)' /\ UseOK(2)'
  BY <1>2, <1>4, <1>6, <1>8 DEF CancelOK, JoinOK, FinishOK, RetireOK, UseOK, At
<1>11. CancelOK(3)' /\ JoinOK(3)' /\ FinishOK(3)' /\ RetireOK(3)' /\ UseOK(3)'
  BY <1>4, <1>6, KindsDiffer DEF CancelOK, JoinOK, FinishOK, RetireOK, UseOK, At
<1>12. StepsInv' /\ (todo \in Seq(Step))' /\ \A h : AboutToEnd(h) => AboutToEnd(h)'
  <2>0. \A i \in 1 .. Len(steps) : i = 1 \/ i = 2 \/ i = 3
    BY <1>7
  <2>1. Levelled(steps, Rank(It))
    BY <1>1, <1>4, <1>7, <2>0 DEF Levelled
  <2>2. Concern(steps, k)
    BY <1>0a, <1>4, <1>7, <2>0 DEF OnOperation, Concern
  <2>3. \A i \in 1 .. Len(steps) : MayStand(i)
    BY <1>9, <1>10, <1>11, <2>0 DEF MayStand
  <2>4. \E i \in 1 .. Len(steps) : steps[i].do \in Ending /\ steps[i].k = k
    <3>1. 3 \in 1 .. Len(steps) /\ steps[3].do \in Ending /\ steps[3].k = k
      BY <1>4, <1>7 DEF Ending
    <3>. QED BY <3>1
  <2>. QED BY <1>0, <1>1, <1>5, <1>7, <2>1, <2>2, <2>3, <2>4, QuietSteps
<1>13. TablesInv' /\ Producers' /\ Gone'
  BY <1>1, <1>12, QuietTables
<1>. QED BY <1>12, <1>13 DEF WInv, ThreadsInv

LEMMA UseKeeps == ASSUME WInv, P!Inv, Use PROVE WInv'
<1>0. PICK k : k = It.k
  OBVIOUS
<1>. DEFINE next == FinishStep(k, held.kind, FALSE)
<1>1. /\ todo # <<>> /\ It.do = "use"
      /\ B!lrlm_event_delete
      /\ tokens' \in {[tokens EXCEPT ![k] = @ + 0], [tokens EXCEPT ![k] = @ + 1]}
      /\ UNCHANGED ops \/ ops' = [ops EXCEPT ![k].credit = FALSE]
      /\ \/ Continue(<<>>)
         \/ ~B!IsText(held) /\ Continue(<<next>>)
         \/ Continue(FailSteps(k))
      /\ UNCHANGED <<engines, nextEngine, sessions, nextSession, timer, flags,
                     producer, nextStream, nativeOf, ended, askedCancel, completed>>
  BY <1>0 DEF Use, Now, It
<1>2. /\ k \in Running /\ k \in Stream /\ 1 \in DOMAIN todo /\ It = todo[1]
  BY <1>0, <1>1, HeadOperation DEF OnOperation
<1>3. /\ held # B!NoEvent /\ held' = B!NoEvent
      /\ ~B!IsText(held) => object[ops[k].native].final
      /\ UNCHANGED <<operations, object, callback, starting>>
  BY <1>0, <1>1, <1>2, EventDeleteCall DEF WInv, StepsInv, StepsSound, UseOK, At
<1>4. /\ Running' = Running /\ Alive' = Alive
      /\ \A j \in Running : /\ ops'[j] \in NativeOperation
                            /\ ops'[j].session = ops[j].session
                            /\ ops'[j].native = ops[j].native
                            /\ ops'[j].cancelRequested = ops[j].cancelRequested
  <2>1. \A j \in Running : ops[j] \in NativeOperation
    BY DEF WInv, WorkerTypeOK
  <2>2. CASE UNCHANGED ops
    BY <1>1, <2>1, <2>2 DEF Running, Alive
  <2>3. CASE ops' = [ops EXCEPT ![k].credit = FALSE]
    <3>1. /\ DOMAIN ops' = DOMAIN ops
          /\ ops'[k] = [ops[k] EXCEPT !.credit = FALSE]
          /\ \A j \in Running \ {k} : ops'[j] = ops[j]
      BY <1>2, <2>3 DEF Running
    <3>2. /\ ops'[k] \in NativeOperation
          /\ ops'[k].session = ops[k].session
          /\ ops'[k].native = ops[k].native
          /\ ops'[k].cancelRequested = ops[k].cancelRequested
      BY <1>2, <2>1, <3>1 DEF NativeOperation
    <3>. QED BY <1>1, <2>1, <3>1, <3>2 DEF Running, Alive
  <2>. QED BY <1>1, <2>2, <2>3
<1>5. Quiet
  BY <1>1, <1>3, <1>4 DEF Quiet, flags
<1>6. WorkerTypeOK'
  <2>1. tokens' \in [Stream -> Nat]
    <3>1. tokens \in [Stream -> Nat] /\ tokens[k] \in Nat
      BY <1>2 DEF WInv, WorkerTypeOK
    <3>. QED BY <1>1, <3>1
  <2>. QED BY <1>1, <1>4, <2>1 DEF WInv, WorkerTypeOK, flags
<1>7. Held'
  BY <1>3 DEF Held
<1>8. HandleOf(k).open
  BY <1>0, <1>1, <1>2, WorkedOn, OnlyHeadEnds DEF Ending, Beginning, Rank
<1>9. CASE Continue(<<>>)
  BY <1>0, <1>1, <1>2, <1>5, <1>6, <1>7, <1>9, NoneOfOperation
<1>10. CASE ~B!IsText(held) /\ Continue(<<next>>)
  <2>1. held \in B!Event
    BY <1>3, BridgeTypes DEF B!TypeOK
  <2>2. held.kind \in B!TerminalKind
    BY <1>10, <2>1, KindsDiffer DEF B!Event, B!IsText
  <2>3. next \in Step
    BY <1>2, <2>2, StepsTyped DEF Kind
  <2>4. /\ next.do = "finish" /\ next.k = k /\ next.kind = held.kind
        /\ next.afterStop = FALSE /\ Rank(next) = 1
        /\ next.do \in OnOperation \ {"cancel"}
    BY DEF FinishStep, Rank, OnOperation
  <2>. HIDE DEF next
  <2>5. 1 \in DOMAIN todo' /\ todo'[1] = next
    BY <1>1, <1>10, <2>3, PushedOne
  <2>6. object'[ops'[k].native].final /\ HandleOf(k)'.open
    BY <1>1, <1>2, <1>3, <1>4, <1>8, <1>10 DEF HandleOf
  <2>7. FinishOK(1)'
    BY <2>2, <2>4, <2>5, <2>6 DEF FinishOK, At
  <2>8. RetireOK(1)' /\ UseOK(1)'
    BY <2>4, <2>5 DEF RetireOK, UseOK, At
  <2>. QED BY <1>0, <1>1, <1>2, <1>5, <1>6, <1>7, <1>10, <2>3, <2>4, <2>7, <2>8, NextOfOperation
<1>11. CASE Continue(FailSteps(k))
  BY <1>0, <1>1, <1>2, <1>5, <1>6, <1>7, <1>8, <1>11, FailKeeps
<1>. QED BY <1>1, <1>9, <1>10, <1>11

\* What a finish is about.
LEMMA FinishHead ==
  ASSUME WInv, todo # <<>>, It.do = "finish", NEW k, k = It.k
  PROVE  /\ k \in Running /\ k \in Stream
         /\ It.kind \in B!TerminalKind /\ It.afterStop \in BOOLEAN
         /\ It.afterStop => It.kind = B!Error
         /\ It.kind = B!Complete => /\ HandleOf(k).open
                                    /\ object[ops[k].native].final
         /\ It.do \notin Beginning \union {"join"} /\ Rank(It) = 1
         /\ It.do \in OnOperation
<1>1. /\ k \in Running /\ k \in Stream /\ 1 \in DOMAIN todo /\ It = todo[1] /\ It \in Step
  BY HeadOperation DEF OnOperation
<1>2. It.afterStop \in BOOLEAN
  BY <1>1, StepFields
<1>3. /\ It.kind \in B!TerminalKind
      /\ It.afterStop => It.kind = B!Error
      /\ It.kind = B!Complete => /\ HandleOf(k).open
                                 /\ object[ops[k].native].final
  BY <1>1 DEF WInv, StepsInv, StepsSound, FinishOK, At
<1>. QED BY <1>1, <1>2, <1>3 DEF Beginning, Rank, OnOperation

LEMMA FinishDiscardsKeeps == ASSUME WInv, P!Inv, FinishDiscards PROVE WInv'
<1>0. PICK k : k = It.k
  OBVIOUS
<1>1. /\ todo # <<>> /\ It.do = "finish"
      /\ Discards(It)
      /\ Continue(<<JoinStep(ops[k].session), RetireStep(It)>>)
      /\ UNCHANGED <<bridge, tables, flags, producer, seen>>
  BY <1>0 DEF FinishDiscards, Now, It
<1>2. /\ k \in Running /\ k \in Stream
      /\ It.kind \in B!TerminalKind
      /\ It.do \notin Beginning \union {"join"} /\ Rank(It) = 1
      /\ It.do \in OnOperation
  BY <1>0, <1>1, FinishHead
<1>3. PICK s \in Session : s = ops[k].session
  BY <1>1, <1>2, WorkedOn
<1>4. WorkerTypeOK' /\ Quiet
  BY <1>1, NothingChanged
<1>5. Held'
  BY <1>1 DEF WInv, ThreadsInv, Held, Now, It, bridge
<1>6. /\ s \in Alive /\ sessions[s].streamId = k
      /\ ops'[k].session = s /\ k \in Running' /\ s \in Alive'
      /\ sessions'[s].streamId = k
  BY <1>1, <1>2, <1>3, <1>4, WorkedOn DEF Quiet
<1>. DEFINE b == JoinStep(s)
            c == RetireStep(It)
            steps == <<b, c>>
<1>7. b.do = "join" /\ b.s = s /\ Rank(b) = 0 /\ b \in Step
  BY StepsTyped DEF JoinStep, Rank
<1>8. PICK cancelled \in BOOLEAN : cancelled = FinishCancelled(It)
  BY <1>1, <1>2, <1>6, WorkedOn, FinishHead DEF FinishCancelled, NativeOperation
<1>9. c = [do |-> "retire", k |-> k, kind |-> It.kind, cancelled |-> cancelled]
  BY <1>0, <1>8 DEF RetireStep
<1>10. /\ c.do = "retire" /\ c.k = k /\ c.kind = It.kind /\ c.cancelled = cancelled
       /\ Rank(c) = 1 /\ c \in Step
  BY <1>2, <1>9, StepsTyped, KindsDiffer DEF Rank
<1>11. c.cancelled \/ c.kind # B!Complete
  BY <1>1, <1>8, <1>10 DEF Discards
<1>12. Continue(steps)
  BY <1>1, <1>3
<1>. HIDE DEF b, c
<1>13. /\ 1 \in DOMAIN todo' /\ todo'[1] = b /\ 2 \in DOMAIN todo' /\ todo'[2] = c
  BY <1>1, <1>7, <1>10, <1>12, PushedTwo
<1>14. steps \in Seq(Step) /\ Len(steps) = 2 /\ steps[1] = b /\ steps[2] = c
  BY <1>7, <1>10
<1>. HIDE DEF steps
<1>15. AboutToEnd(k)'
  BY <1>10, <1>13 DEF AboutToEnd, At, Ending
<1>16. MayStand(1)
  BY <1>6, <1>7, <1>13, <1>15 DEF MayStand, CancelOK, JoinOK, FinishOK, RetireOK, UseOK, At
<1>17. MayStand(2)
  BY <1>2, <1>6, <1>7, <1>10, <1>11, <1>13 DEF MayStand, CancelOK, JoinOK, FinishOK, RetireOK,
    UseOK, At
<1>18. StepsInv' /\ (todo \in Seq(Step))' /\ \A h : AboutToEnd(h) => AboutToEnd(h)'
  <2>0. \A i \in 1 .. Len(steps) : i = 1 \/ i = 2
    BY <1>14
  <2>1. Levelled(steps, Rank(It))
    BY <1>2, <1>7, <1>10, <1>14, <2>0 DEF Levelled
  <2>2. Concern(steps, k)
    BY <1>3, <1>7, <1>10, <1>14, <2>0 DEF OnOperation, Concern
  <2>3. \A i \in 1 .. Len(steps) : MayStand(i)
    BY <1>16, <1>17, <2>0
  <2>4. \E i \in 1 .. Len(steps) : steps[i].do \in Ending /\ steps[i].k = k
    <3>1. 2 \in 1 .. Len(steps) /\ steps[2].do \in Ending /\ steps[2].k = k
      BY <1>10, <1>14 DEF Ending
    <3>. QED BY <3>1
  <2>. QED BY <1>0, <1>1, <1>2, <1>4, <1>12, <1>14, <2>1, <2>2, <2>3, <2>4, QuietSteps
<1>19. TablesInv' /\ Producers' /\ Gone'
  BY <1>1, <1>2, <1>4, <1>18, QuietTables
<1>. QED BY <1>4, <1>5, <1>18, <1>19 DEF WInv, ThreadsInv

LEMMA FinishCommitsKeeps == ASSUME WInv, P!Inv, FinishCommits PROVE WInv'
<1>0. PICK k : k = It.k
  OBVIOUS
<1>1. /\ todo # <<>> /\ It.do = "finish"
      /\ ~Discards(It)
      /\ Change(ops[k].session, "history", CommittedHistory(sessions[ops[k].session]))
      /\ Continue(<<RetireStep(It)>>)
      /\ UNCHANGED <<bridge, engines, nextEngine, nextSession, ops, timer, flags,
                     producer, seen>>
  BY <1>0 DEF FinishCommits, Now, It
<1>2. /\ k \in Running /\ k \in Stream
      /\ It.kind \in B!TerminalKind
      /\ It.do \notin Beginning \union {"join"} /\ Rank(It) = 1
      /\ It.do \in OnOperation
  BY <1>0, <1>1, FinishHead
<1>3. PICK s \in Session : s = ops[k].session
  BY <1>1, <1>2, WorkedOn
<1>4. /\ s \in Alive /\ sessions[s] \in NativeSession
  BY <1>1, <1>2, <1>3, WorkedOn
<1>5. CommittedHistory(sessions[s]) \in Seq(Message)
  BY <1>4 DEF CommittedHistory, NativeSession, Handle
<1>6. /\ Alive' = Alive /\ Running' = Running
      /\ \A j \in Alive : /\ sessions'[j] \in NativeSession
                          /\ sessions'[j].handle.open = sessions[j].handle.open
                          /\ sessions'[j].streamId = sessions[j].streamId
                          /\ sessions'[j].phase = sessions[j].phase
                          /\ sessions'[j].engineId = sessions[j].engineId
  <2>. DEFINE h == CommittedHistory(sessions[s])
  <2>1. /\ DOMAIN sessions' = DOMAIN sessions
        /\ sessions'[s] = [sessions[s] EXCEPT !.history = h]
        /\ \A j \in Alive \ {s} : sessions'[j] = sessions[j]
    BY <1>1, <1>3, <1>4 DEF Change, Alive
  <2>. HIDE DEF h
  <2>2. /\ sessions'[s] \in NativeSession
        /\ sessions'[s].handle = sessions[s].handle
        /\ sessions'[s].streamId = sessions[s].streamId
        /\ sessions'[s].phase = sessions[s].phase
        /\ sessions'[s].engineId = sessions[s].engineId
    BY <1>4, <1>5, <2>1 DEF NativeSession, h
  <2>. QED BY <1>1, <2>1, <2>2 DEF Alive, Running, WInv, WorkerTypeOK
<1>7. Quiet
  BY <1>1, <1>6 DEF Quiet, bridge, flags, seen
<1>8. WorkerTypeOK'
  BY <1>1, <1>6 DEF WInv, WorkerTypeOK, flags, seen
<1>9. Held'
  BY <1>1 DEF WInv, ThreadsInv, Held, Now, It, bridge
<1>. DEFINE c == RetireStep(It)
            steps == <<c>>
<1>10. /\ It.kind = B!Complete /\ FinishCancelled(It) = FALSE
       /\ It.afterStop = FALSE /\ ~ops[k].cancelRequested
  BY <1>0, <1>1, FinishHead, KindsDiffer DEF Discards, FinishCancelled
<1>11. c = [do |-> "retire", k |-> k, kind |-> B!Complete, cancelled |-> FALSE]
  BY <1>0, <1>10 DEF RetireStep
<1>12. /\ c.do = "retire" /\ c.k = k /\ c.kind = B!Complete /\ c.cancelled = FALSE
       /\ Rank(c) = 1 /\ c \in Step
  <2>1. B!Complete \in Kind
    BY KindsDiffer
  <2>2. [do |-> "retire", k |-> k, kind |-> B!Complete, cancelled |-> FALSE] \in Step
    BY <1>2, <2>1, StepsTyped
  <2>. QED BY <1>11, <2>2 DEF Rank
<1>13. Continue(steps)
  BY <1>1
<1>. HIDE DEF c
<1>14. 1 \in DOMAIN todo' /\ todo'[1] = c
  BY <1>1, <1>12, <1>13, PushedOne
<1>15. steps \in Seq(Step) /\ Len(steps) = 1 /\ steps[1] = c
  BY <1>12
<1>. HIDE DEF steps
<1>16. object'[ops'[k].native].final /\ ~ops'[k].cancelRequested
  BY <1>0, <1>1, <1>10, FinishHead DEF bridge
<1>17. MayStand(1)
  BY <1>2, <1>10, <1>12, <1>14, <1>16, KindsDiffer DEF MayStand, CancelOK, JoinOK, FinishOK,
    RetireOK, UseOK, At
<1>18. StepsInv' /\ (todo \in Seq(Step))' /\ \A h : AboutToEnd(h) => AboutToEnd(h)'
  <2>0. \A i \in 1 .. Len(steps) : i = 1
    BY <1>15
  <2>1. Levelled(steps, Rank(It))
    BY <1>2, <1>12, <1>15, <2>0 DEF Levelled
  <2>2. Concern(steps, k)
    BY <1>12, <1>15, <2>0 DEF OnOperation, Concern
  <2>3. \A i \in 1 .. Len(steps) : MayStand(i)
    BY <1>17, <2>0
  <2>4. \E i \in 1 .. Len(steps) : steps[i].do \in Ending /\ steps[i].k = k
    <3>1. 1 \in 1 .. Len(steps) /\ steps[1].do \in Ending /\ steps[1].k = k
      BY <1>12, <1>15 DEF Ending
    <3>. QED BY <3>1
  <2>. QED BY <1>0, <1>1, <1>2, <1>7, <1>13, <1>15, <2>1, <2>2, <2>3, <2>4, QuietSteps
<1>19. TablesInv' /\ Producers' /\ Gone'
  BY <1>1, <1>2, <1>7, <1>18, QuietTables
<1>. QED BY <1>8, <1>9, <1>18, <1>19 DEF WInv, ThreadsInv

LEMMA FinishThrowsKeeps == ASSUME WInv, P!Inv, FinishThrows PROVE WInv'
<1>1. /\ todo # <<>> /\ It.do = "finish"
      /\ ~Discards(It)
      /\ Continue(FailSteps(It.k))
      /\ UNCHANGED <<bridge, tables, flags, producer, seen>>
  BY DEF FinishThrows, Now, It
<1>2. WorkerTypeOK' /\ Quiet
  BY <1>1, NothingChanged
<1>3. Held'
  BY <1>1 DEF WInv, ThreadsInv, Held, Now, It, bridge
<1>4. It.k \in Running /\ HandleOf(It.k).open
  BY <1>1, FinishHead DEF Discards
<1>. QED BY <1>1, <1>2, <1>3, <1>4, FailKeeps

-----------------------------------------------------------------------------
(* Steps that push nothing. *)

LEMMA Popped ==
  ASSUME todo \in Seq(Step), todo # <<>>, Continue(<<>>)
  PROVE  /\ todo' \in Seq(Step) /\ DOMAIN todo' \subseteq Nat \ {0}
         /\ \A h \in DOMAIN todo' : h + 1 \in DOMAIN todo \ {1} /\ todo'[h] = todo[h + 1]
         /\ \A h \in DOMAIN todo' : \E j \in DOMAIN todo \ {1} : todo'[h] = todo[j]
         /\ \A j \in DOMAIN todo \ {1} : j - 1 \in DOMAIN todo' /\ todo'[j - 1] = todo[j]
         /\ DOMAIN todo \subseteq Nat \ {0}
         /\ 1 \in DOMAIN todo /\ It = todo[1] /\ It \in Step
<1>. DEFINE steps == <<>>
            t == todo'
<1>1. steps \in Seq(Step) /\ Len(steps) = 0 /\ Continue(steps)
  OBVIOUS
<1>. HIDE DEF steps
<1>1a. /\ t \in Seq(Step) /\ DOMAIN t = 1 .. Len(t)
       /\ \A i \in DOMAIN t :
           \/ i \in 1 .. Len(steps) /\ t[i] = steps[i]
           \/ /\ i > Len(steps)
              /\ (i - Len(steps)) + 1 \in DOMAIN todo
              /\ t[i] = todo[(i - Len(steps)) + 1]
       /\ \A j \in DOMAIN todo \ {1} :
              /\ (j + Len(steps)) - 1 \in DOMAIN t
              /\ t[(j + Len(steps)) - 1] = todo[j]
  BY <1>1, Shift
<1>. HIDE DEF t
<1>2. /\ t \in Seq(Step) /\ DOMAIN t = 1 .. Len(t) /\ Len(t) \in Nat
      /\ DOMAIN todo = 1 .. Len(todo) /\ Len(todo) \in Nat
      /\ \A h \in DOMAIN t : h > 0 => /\ (h - 0) + 1 \in DOMAIN todo
                                      /\ t[h] = todo[(h - 0) + 1]
      /\ \A j \in DOMAIN todo \ {1} : (j + 0) - 1 \in DOMAIN t /\ t[(j + 0) - 1] = todo[j]
  <2>1. t \in Seq(Step) /\ DOMAIN t = 1 .. Len(t) /\ Len(t) \in Nat
    BY <1>1a
  <2>2. ~\E i : i \in 1 .. Len(steps)
    BY <1>1
  <2>3. ASSUME NEW h \in DOMAIN t
        PROVE  (h - 0) + 1 \in DOMAIN todo /\ t[h] = todo[(h - 0) + 1]
    BY <1>1, <1>1a, <2>2
  <2>4. ASSUME NEW j \in DOMAIN todo \ {1}
        PROVE  (j + 0) - 1 \in DOMAIN t /\ t[(j + 0) - 1] = todo[j]
    BY <1>1, <1>1a
  <2>. QED BY <2>1, <2>3, <2>4
<1>3. \A h \in DOMAIN t : h + 1 \in DOMAIN todo \ {1} /\ t[h] = todo[h + 1]
  BY <1>2
<1>3a. \A h \in DOMAIN t : \E j \in DOMAIN todo \ {1} : t[h] = todo[j]
  BY <1>3
<1>4. \A j \in DOMAIN todo \ {1} : j - 1 \in DOMAIN t /\ t[j - 1] = todo[j]
  BY <1>2
<1>. QED BY <1>2, <1>3, <1>3a, <1>4, HeadStep DEF t

LEMMA PoppedOrder ==
  ASSUME WInv, todo # <<>>, Continue(<<>>)
  PROVE  Ordered'
<1>1. /\ todo' \in Seq(Step) /\ DOMAIN todo' \subseteq Nat \ {0}
      /\ \A h \in DOMAIN todo' : h + 1 \in DOMAIN todo \ {1} /\ todo'[h] = todo[h + 1]
  BY Popped DEF WInv
<1>2. ASSUME NEW i \in DOMAIN todo', NEW j \in DOMAIN todo', i < j
      PROVE  \/ Rank(todo'[i]) < Rank(todo'[j])
             \/ Rank(todo'[i]) = 0 /\ Rank(todo'[j]) = 0
  <2>1. i + 1 < j + 1
    BY <1>1, <1>2
  <2>. QED BY <1>1, <2>1 DEF WInv, StepsInv, Ordered
<1>. QED BY <1>2 DEF Ordered

\* A step that takes no operation and no session away, and may close handles.
Calm ==
    /\ Running' = Running /\ Alive' = Alive
    /\ \A k \in Running : /\ ops'[k].session = ops[k].session
                          /\ ops'[k].native = ops[k].native
    /\ \A s \in Alive : /\ sessions'[s].handle.open => sessions[s].handle.open
                        /\ sessions'[s].streamId = sessions[s].streamId
                        /\ sessions'[s].engineId = sessions[s].engineId
    /\ engines' = engines

LEMMA PopSteps ==
  ASSUME WInv, Calm, todo # <<>>, It.do \in {"cancel", "join"}, Continue(<<>>),
         \A i \in DOMAIN todo : todo[i].do \notin Beginning,
         It.do = "join" => ~sessions'[It.s].handle.open /\ ops' = ops
  PROVE  /\ StepsInv' /\ (todo \in Seq(Step))'
         /\ \A h : AboutToEnd(h) => AboutToEnd(h)'
<1>. DEFINE t == todo'
<1>1. /\ t \in Seq(Step) /\ DOMAIN t \subseteq Nat \ {0}
      /\ \A h \in DOMAIN t : h + 1 \in DOMAIN todo \ {1} /\ t[h] = todo[h + 1]
      /\ \A j \in DOMAIN todo \ {1} : j - 1 \in DOMAIN t /\ t[j - 1] = todo[j]
      /\ DOMAIN todo \subseteq Nat \ {0}
      /\ 1 \in DOMAIN todo /\ It = todo[1]
  BY Popped DEF WInv
<1>2. Ordered'
  BY PoppedOrder
<1>. HIDE DEF t
<1>2a. \A h \in DOMAIN t : \E j \in DOMAIN todo \ {1} : t[h] = todo[j]
  BY Popped DEF WInv, t
<1>2b. \A j \in DOMAIN todo \ {1} : \E h \in DOMAIN t : t[h] = todo[j]
  BY <1>1
<1>2c. \A h \in DOMAIN todo : todo[h].do \in {"forget", "engine"} => h # 1
  BY <1>1
<1>3. OneSubject'
  <2>1. ASSUME NEW h \in DOMAIN t, t[h].do \in OnOperation
        PROVE  t[h].k \in Running /\ ops'[t[h].k].session = ops[t[h].k].session
    BY <1>2a, <2>1 DEF WInv, StepsInv, StepsLive, At, Calm
  <2>2. ASSUME NEW h \in DOMAIN t, NEW g \in DOMAIN t,
               t[h].do \in OnSession, t[g].do \in OnSession
        PROVE  SubjectOf(t[h]) = SubjectOf(t[g])
    BY <1>2a, <2>2 DEF WInv, StepsInv, OneSubject, At
  <2>3. ASSUME NEW h \in DOMAIN t, t[h].do \in OnSession
        PROVE  (IF t[h].do \in {"join", "forget"} THEN t[h].s ELSE ops'[t[h].k].session)
                 = SubjectOf(t[h])
    BY <2>1, <2>3 DEF SubjectOf, OnSession
  <2>. QED BY <2>2, <2>3 DEF OneSubject, At, SubjectOf, t
<1>4. StepsLive'
  BY <1>2a DEF WInv, StepsInv, StepsLive, At, t, Calm
<1>5. \A h : AboutToEnd(h) => AboutToEnd(h)'
  <2>1. ASSUME NEW h, AboutToEnd(h)
        PROVE  AboutToEnd(h)'
    <3>1. PICK j \in DOMAIN todo : At(j, Ending) /\ todo[j].k = h
      BY <2>1 DEF AboutToEnd
    <3>2. j # 1
      BY <1>1, <3>1 DEF At, Ending
    <3>3. j - 1 \in DOMAIN t /\ t[j - 1] = todo[j]
      BY <1>1, <3>2
    <3>. QED BY <3>1, <3>3 DEF AboutToEnd, At, t
  <2>. QED BY <2>1
<1>6. BeginningSound'
  BY <1>1 DEF BeginningSound, At, t
<1>7. ASSUME NEW i \in DOMAIN t, NEW j, j = i + 1
      PROVE  /\ CancelOK(i)' /\ FinishOK(i)' /\ UseOK(i)' /\ JoinOK(i)' /\ RetireOK(i)'
             /\ ForgetOK(i)' /\ PumpOK(i)' /\ EngineOK(i)' /\ CloseOK(i)'
  <2>1. j \in DOMAIN todo /\ j # 1 /\ t[i] = todo[j] /\ j > 1 /\ i >= 1
    BY <1>1, <1>7
  <2>2. CancelOK(i)' /\ UseOK(i)'
    BY <2>1 DEF WInv, StepsInv, StepsSound, CancelOK, UseOK, At, t
  <2>3. FinishOK(i)'
    BY <2>1 DEF WInv, StepsInv, StepsSound, FinishOK, At, t
  <2>4. JoinOK(i)'
    BY <1>5, <2>1 DEF WInv, StepsInv, StepsSound, JoinOK, At, t, Calm
  <2>5. RetireOK(i)'
    <3>1. CASE t[i].do = "retire"
      <4>1. /\ todo[j].kind \in B!TerminalKind
            /\ At(1, {"join"}) /\ todo[1].s = ops[todo[j].k].session
            /\ ~todo[j].cancelled /\ todo[j].kind = B!Complete =>
                  ~ops[todo[j].k].cancelRequested
        BY <2>1, <3>1 DEF WInv, StepsInv, StepsSound, RetireOK, At
      <4>2. /\ It.do = "join" /\ It.s = ops[todo[j].k].session
            /\ ops' = ops
            /\ ~sessions'[ops[todo[j].k].session].handle.open
        BY <1>1, <4>1 DEF At
      <4>3. CASE i = 1
        BY <2>1, <4>1, <4>2, <4>3 DEF RetireOK, HandleOf, At, t
      <4>4. CASE i # 1
        <5>1. /\ 1 \in DOMAIN t /\ t[1] = todo[2] /\ 2 \in DOMAIN todo /\ 2 < j
          <6>1. DOMAIN todo = 1 .. Len(todo) /\ Len(todo) \in Nat
            BY HeadStep DEF WInv
          <6>2. 2 \in DOMAIN todo /\ 2 < j
            BY <1>1, <1>7, <2>1, <4>4, <6>1
          <6>3. 2 - 1 \in DOMAIN t /\ t[2 - 1] = todo[2]
            BY <1>1, <6>2
          <6>. QED BY <6>2, <6>3
        <5>2. Rank(todo[j]) = 1
          BY <2>1, <3>1 DEF Rank
        <5>3. Rank(todo[2]) = 0
          <6>1. Rank(todo[2]) \in Nat /\ Rank(todo[2]) < 1
            BY <2>1, <5>1, <5>2 DEF WInv, StepsInv, Ordered, Rank
          <6>. QED BY <6>1
        <5>4. todo[2].do # "cancel"
          BY <5>1 DEF WInv, StepsInv, StepsSound, CancelOK, At
        <5>5. todo[2].do = "join"
          BY <5>1, <5>3, <5>4 DEF Rank, Beginning
        <5>6. SubjectOf(todo[2]) = SubjectOf(todo[j])
          BY <2>1, <3>1, <5>1, <5>5 DEF WInv, StepsInv, OneSubject, At, OnSession, OnOperation
        <5>7. todo[2].s = ops[todo[j].k].session
          BY <2>1, <3>1, <5>5, <5>6 DEF SubjectOf
        <5>. QED BY <2>1, <4>1, <4>2, <4>4, <5>1, <5>5, <5>7 DEF RetireOK, At, t
      <4>. QED BY <4>3, <4>4
    <3>. QED BY <3>1 DEF RetireOK, At, t
  <2>6. ForgetOK(i)'
    <3>1. CASE t[i].do = "forget"
      <4>1. PICK s : s = todo[j].s
        OBVIOUS
      <4>2. /\ s \in Alive
            /\ sessions[s].handle.open => JoinAhead(s)
            /\ sessions[s].streamId # NoStream => AboutToEnd(sessions[s].streamId)
        BY <2>1, <3>1, <4>1 DEF WInv, StepsInv, StepsSound, ForgetOK, At
      <4>3. sessions'[s].handle.open => JoinAhead(s)'
        <5>1. SUFFICES ASSUME sessions'[s].handle.open PROVE JoinAhead(s)'
          OBVIOUS
        <5>2. PICK g \in DOMAIN todo : todo[g].do = "join" /\ todo[g].s = s
          BY <4>2, <5>1 DEF JoinAhead, At, Calm
        <5>3. g # 1
          BY <1>1, <5>1, <5>2
        <5>4. g - 1 \in DOMAIN t /\ t[g - 1] = todo[g]
          BY <1>1, <5>3
        <5>. QED BY <5>2, <5>4 DEF JoinAhead, At, t
      <4>4. /\ s \in Alive' /\ sessions'[s].streamId = sessions[s].streamId
        BY <4>2 DEF Calm
      <4>. QED BY <1>5, <2>1, <4>1, <4>2, <4>3, <4>4 DEF ForgetOK, At, t
    <3>. QED BY <3>1 DEF ForgetOK, At, t
  <2>7. PumpOK(i)'
    <3>1. CASE t[i].do = "pump"
      <4>1. /\ todo[j].ks \subseteq Running
            /\ \A h \in DOMAIN todo : At(h, OnOperation) => todo[h].k \notin todo[j].ks
        BY <2>1, <3>1 DEF WInv, StepsInv, StepsSound, PumpOK, At
      <4>2. \A h \in DOMAIN t : t[h].do \in OnOperation => t[h].k \notin todo[j].ks
        BY <1>2a, <4>1 DEF At
      <4>. QED BY <2>1, <4>1, <4>2 DEF PumpOK, At, t, Calm
    <3>. QED BY <3>1 DEF PumpOK, At, t
  <2>8. EngineOK(i)'
    <3>1. CASE t[i].do = "engine"
      <4>1. /\ todo[j].ss \subseteq Alive
            /\ \A h \in DOMAIN todo : At(h, {"forget"}) => todo[h].s \notin todo[j].ss
            /\ \A s \in Alive : sessions[s].engineId = todo[j].e =>
                  \/ s \in todo[j].ss
                  \/ \E h \in DOMAIN todo : At(h, {"forget"}) /\ todo[h].s = s
        BY <2>1, <3>1 DEF WInv, StepsInv, StepsSound, EngineOK, At
      <4>2. \A h \in DOMAIN t : t[h].do = "forget" => t[h].s \notin todo[j].ss
        BY <1>2a, <4>1 DEF At
      <4>3. \A s : (\E h \in DOMAIN todo : At(h, {"forget"}) /\ todo[h].s = s)
                     => \E h \in DOMAIN t : t[h].do = "forget" /\ t[h].s = s
        BY <1>2b, <1>2c DEF At
      <4>4. t[i] = todo[j]
        BY <2>1
      <4>. QED BY <4>1, <4>2, <4>3, <4>4 DEF EngineOK, At, t, Calm
    <3>. QED BY <3>1 DEF EngineOK, At, t
  <2>9. CloseOK(i)'
    <3>1. CASE t[i].do = "close"
      <4>1. \A e \in engines :
                \/ e \in todo[j].es
                \/ \E h \in DOMAIN todo : At(h, {"engine"}) /\ todo[h].e = e
        BY <2>1, <3>1 DEF WInv, StepsInv, StepsSound, CloseOK, At
      <4>2. \A e : (\E h \in DOMAIN todo : At(h, {"engine"}) /\ todo[h].e = e)
                     => \E h \in DOMAIN t : t[h].do = "engine" /\ t[h].e = e
        BY <1>2b, <1>2c DEF At
      <4>. QED BY <2>1, <4>1, <4>2 DEF CloseOK, At, t, Calm
    <3>. QED BY <3>1 DEF CloseOK, At, t
  <2>. QED BY <2>2, <2>3, <2>4, <2>5, <2>6, <2>7, <2>8, <2>9
<1>8. StepsSound'
  BY <1>7 DEF StepsSound, t
<1>. QED BY <1>1, <1>2, <1>3, <1>4, <1>5, <1>6, <1>8 DEF StepsInv, t

LEMMA CancelKeeps == ASSUME WInv, P!Inv, Cancel PROVE WInv'
<1>0. PICK k : k = It.k
  OBVIOUS
<1>1. /\ todo # <<>> /\ It.do = "cancel"
      /\ \/ ops[k].cancelRequested /\ UNCHANGED <<bridge, ops, sessions>>
         \/ /\ ops' = [ops EXCEPT ![k].cancelRequested = TRUE,
                                  ![k].backpressure = It.overflow]
            /\ sessions' = [sessions EXCEPT ![ops[k].session].phase = "cancelRequested"]
            /\ UNCHANGED bridge \/ B!lrlm_operation_cancel(ops[k].native)
      /\ askedCancel' = IF It.overflow THEN askedCancel ELSE askedCancel \union {k}
      /\ Continue(<<>>)
      /\ UNCHANGED <<engines, nextEngine, nextSession, timer, flags, producer,
                     nextStream, nativeOf, tokens, ended, completed>>
  BY <1>0 DEF Cancel, Now, It
<1>2. /\ k \in Running /\ k \in Stream /\ It \in Step /\ It.overflow \in BOOLEAN
      /\ It.do \notin Beginning \union {"join"}
  <2>1. k \in Running /\ k \in Stream /\ It \in Step
    BY <1>0, <1>1, HeadOperation DEF OnOperation
  <2>. QED BY <1>1, <2>1, StepFields DEF Beginning
<1>3. PICK s \in Session : s = ops[k].session
  BY <1>1, <1>2, WorkedOn
<1>4. /\ s \in Alive /\ sessions[s] \in NativeSession /\ ops[k] \in NativeOperation
      /\ sessions[s].streamId = k
  BY <1>1, <1>2, <1>3, WorkedOn
<1>5. /\ \A id \in B!Id : /\ object'[id].final = object[id].final
                          /\ object'[id].started = object[id].started
      /\ UNCHANGED <<operations, callback, starting, held>>
  BY <1>1, CancelCall DEF bridge
<1>6. /\ Running' = Running /\ Alive' = Alive
      /\ ops'[k] \in NativeOperation
      /\ ops'[k].session = ops[k].session /\ ops'[k].native = ops[k].native
      /\ ops'[k].cancelRequested
      /\ \A j \in Running \ {k} : ops'[j] = ops[j]
  <2>1. CASE ops[k].cancelRequested /\ UNCHANGED <<bridge, ops, sessions>>
    BY <1>4, <2>1 DEF Running, Alive
  <2>2. CASE /\ ops' = [ops EXCEPT ![k].cancelRequested = TRUE,
                                  ![k].backpressure = It.overflow]
             /\ sessions' = [sessions EXCEPT ![ops[k].session].phase = "cancelRequested"]
    <3>1. /\ DOMAIN ops' = DOMAIN ops /\ DOMAIN sessions' = DOMAIN sessions
          /\ ops'[k] = [ops[k] EXCEPT !.cancelRequested = TRUE, !.backpressure = It.overflow]
          /\ \A j \in Running \ {k} : ops'[j] = ops[j]
      BY <1>2, <2>2 DEF Running
    <3>2. /\ ops'[k] \in NativeOperation
          /\ ops'[k].session = ops[k].session /\ ops'[k].native = ops[k].native
          /\ ops'[k].cancelRequested
      BY <1>2, <1>4, <3>1 DEF NativeOperation
    <3>. QED BY <3>1, <3>2 DEF Running, Alive
  <2>. QED BY <1>1, <2>1, <2>2
<1>7. /\ sessions'[s] \in NativeSession
      /\ sessions'[s].handle = sessions[s].handle
      /\ sessions'[s].streamId = sessions[s].streamId
      /\ sessions'[s].engineId = sessions[s].engineId
      /\ sessions'[s].phase = "cancelRequested"
      /\ \A j \in Alive \ {s} : sessions'[j] = sessions[j]
  <2>1. CASE ops[k].cancelRequested /\ UNCHANGED <<bridge, ops, sessions>>
    BY <1>2, <1>3, <1>4, <2>1 DEF WInv, TablesInv, OperationsKnown
  <2>2. CASE sessions' = [sessions EXCEPT ![ops[k].session].phase = "cancelRequested"]
    <3>1. /\ sessions'[s] = [sessions[s] EXCEPT !.phase = "cancelRequested"]
          /\ \A j \in Alive \ {s} : sessions'[j] = sessions[j]
      BY <1>3, <1>4, <2>2 DEF Alive
    <3>. QED BY <1>4, <3>1 DEF NativeSession
  <2>. QED BY <1>1, <2>1, <2>2
<1>8. WorkerTypeOK'
  BY <1>1, <1>2, <1>6, <1>7 DEF WInv, WorkerTypeOK, flags
<1>9. Calm
  BY <1>1, <1>6, <1>7 DEF Calm
<1>10. /\ \A i \in DOMAIN todo : todo[i].do \notin Beginning
       /\ timer \/ Running = {}
  BY <1>1, <1>2, NoBeginning
<1>11. StepsInv' /\ (todo \in Seq(Step))' /\ \A h : AboutToEnd(h) => AboutToEnd(h)'
  BY <1>1, <1>9, <1>10, PopSteps
<1>12. OperationsKnown'
  <2>1. ASSUME NEW j \in Running
        PROVE  LET r == ops[j].session
               IN  /\ ops'[j].session = r /\ r \in Alive
                   /\ sessions'[r].streamId = j
                   /\ sessions'[r].phase = IF ops'[j].cancelRequested
                                           THEN "cancelRequested" ELSE "generating"
                   /\ sessions'[r].handle.open \/ AboutToEnd(j)
                   /\ ended[j] = "no" /\ j < nextStream /\ timer
    <3>1. LET r == ops[j].session
          IN  /\ r \in Alive /\ sessions[r].streamId = j
              /\ sessions[r].phase = IF ops[j].cancelRequested
                                     THEN "cancelRequested" ELSE "generating"
              /\ sessions[r].handle.open \/ AboutToEnd(j)
              /\ ended[j] = "no" /\ j < nextStream /\ timer
      BY <1>10 DEF WInv, TablesInv, OperationsKnown
    <3>2. CASE j = k
      BY <1>3, <1>6, <1>7, <3>1, <3>2
    <3>3. CASE j # k
      BY <1>3, <1>4, <1>6, <1>7, <3>1, <3>3
    <3>. QED BY <3>2, <3>3
  <2>. QED BY <1>1, <1>6, <1>11, <2>1 DEF OperationsKnown
<1>13. SessionsKnown'
  <2>1. \A r \in Alive : sessions'[r].streamId = NoStream => r # s
    BY <1>2, <1>4, <1>7 DEF Stream, NoStream
  <2>2. \A r \in Alive : /\ sessions'[r].streamId = sessions[r].streamId
                         /\ sessions'[r].engineId = sessions[r].engineId
    BY <1>7
  <2>3. \A j \in Running : ops'[j].session = ops[j].session
    BY <1>6
  <2>. QED BY <1>1, <1>6, <1>7, <2>1, <2>2, <2>3 DEF WInv, TablesInv, SessionsKnown
<1>14. Registered'
  BY <1>5, <1>6 DEF WInv, TablesInv, Registered
<1>15. Streams'
  <2>1. k < nextStream
    BY <1>2 DEF WInv, TablesInv, OperationsKnown
  <2>2. \A j \in askedCancel' : j \in askedCancel \/ j = k
    BY <1>1
  <2>. QED BY <1>1, <1>2, <1>6, <2>1, <2>2 DEF WInv, TablesInv, Streams
<1>16. Producers'
  <2>1. \A r \in Session : /\ producer[r] \in B!Id \union {B!NoId}
                           /\ callback[r] # B!NoId => callback[r] \in B!Id
    BY DEF WInv, WorkerTypeOK, P!Inv, P!TypeOK, P!Id, B!Id, P!NoId, B!NoId, Thread
  <2>2. \A r \in Alive : sessions'[r].handle = sessions[r].handle
    BY <1>7
  <2>3. \A r, id : WorksFor(r, id) => WorksFor(r, id)'
    BY <1>6 DEF WorksFor
  <2>. QED BY <1>1, <1>5, <1>6, <2>1, <2>2, <2>3 DEF WInv, ThreadsInv, Producers
<1>17. Held' /\ Gone'
  BY <1>1, <1>5 DEF WInv, ThreadsInv, Held, Gone, Now, It, flags
<1>. QED BY <1>8, <1>11, <1>12, <1>13, <1>14, <1>15, <1>16, <1>17 DEF WInv, TablesInv,
  ThreadsInv

\* A handle that is closed, in the middle of a handler that does not begin anything.
LEMMA CloseTyped ==
  ASSUME WorkerTypeOK, NEW s \in Alive, Change(s, "handle", Closed)
  PROVE  /\ Alive' = Alive
         /\ \A t \in Alive : sessions'[t] \in NativeSession
         /\ \A t \in Alive \ {s} : sessions'[t] = sessions[t]
         /\ ~sessions'[s].handle.open
         /\ sessions'[s].streamId = sessions[s].streamId
         /\ sessions'[s].phase = sessions[s].phase
         /\ sessions'[s].engineId = sessions[s].engineId
<1>1. sessions[s] \in NativeSession
  BY DEF WorkerTypeOK
<1>2. /\ Alive' = Alive
      /\ sessions'[s] = [sessions[s] EXCEPT !.handle = Closed]
      /\ \A t \in Alive \ {s} : sessions'[t] = sessions[t]
  BY DEF Change, Alive
<1>3. Closed \in Handle /\ ~Closed.open
  BY DEF Closed, Handle
<1>4. [sessions[s] EXCEPT !.handle = Closed] \in NativeSession
  BY <1>1, <1>3 DEF NativeSession
<1>5. /\ sessions'[s].handle = Closed
      /\ sessions'[s].streamId = sessions[s].streamId
      /\ sessions'[s].phase = sessions[s].phase
      /\ sessions'[s].engineId = sessions[s].engineId
  BY <1>1, <1>2 DEF NativeSession
<1>. QED BY <1>2, <1>3, <1>4, <1>5 DEF WorkerTypeOK

\* What a delete of a handle leaves, whatever handler it belongs to.
LEMMA HandleDeleted ==
  ASSUME WInv, DeleteHandle, NEW s, s = It.s
  PROVE  /\ s \in Alive /\ s \in Session
         /\ WorkerTypeOK'
         /\ SessionsKnown' /\ Registered' /\ Streams' /\ Producers' /\ Held' /\ Gone'
         /\ sessions[s].streamId \in Running => AboutToEnd(sessions[s].streamId)
<1>1. /\ todo # <<>> /\ It.do = "join"
      /\ sessions[s].handle.open => producer[s] = B!NoId
      /\ Change(s, "handle", Closed)
      /\ Continue(<<>>)
      /\ UNCHANGED <<bridge, engines, nextEngine, nextSession, ops, timer, flags,
                     producer, asked>>
  BY DEF DeleteHandle, Now, It, asked
<1>2. 1 \in DOMAIN todo /\ It = todo[1]
  BY <1>1, HeadStep DEF WInv
<1>3. /\ s \in Alive
      /\ sessions[s].streamId \in Running => AboutToEnd(sessions[s].streamId)
  BY <1>1, <1>2 DEF WInv, StepsInv, StepsSound, JoinOK, At
<1>4. s \in Session
  BY <1>3 DEF WInv, WorkerTypeOK
<1>5. /\ Alive' = Alive /\ Running' = Running
      /\ \A t \in Alive : /\ sessions'[t] \in NativeSession
                          /\ sessions'[t].streamId = sessions[t].streamId
                          /\ sessions'[t].phase = sessions[t].phase
                          /\ sessions'[t].engineId = sessions[t].engineId
      /\ \A t \in Alive \ {s} : sessions'[t] = sessions[t]
  BY <1>1, <1>3, CloseTyped DEF WInv, Running
<1>6. WorkerTypeOK'
  BY <1>1, <1>5 DEF WInv, WorkerTypeOK, flags, asked
<1>7. SessionsKnown'
  BY <1>1, <1>5 DEF WInv, TablesInv, SessionsKnown
<1>8. Registered' /\ Streams'
  BY <1>1, <1>5 DEF WInv, TablesInv, Registered, Streams, bridge, asked
<1>9. Producers'
  <2>1. producer[s] = B!NoId
    BY <1>1, <1>4 DEF WInv, ThreadsInv, Producers
  <2>. QED BY <1>1, <1>5, <2>1 DEF WInv, ThreadsInv, Producers, WorksFor, bridge
<1>10. Held' /\ Gone'
  BY <1>1 DEF WInv, ThreadsInv, Held, Gone, Now, It, flags, bridge
<1>. QED BY <1>3, <1>4, <1>6, <1>7, <1>8, <1>9, <1>10

LEMMA DeleteHandleEnding ==
  ASSUME WInv, P!Inv, DeleteHandle,
         \A i \in DOMAIN todo : todo[i].do \notin Beginning
  PROVE  WInv'
<1>0. PICK s : s = It.s
  OBVIOUS
<1>1. /\ todo # <<>> /\ It.do = "join"
      /\ Change(s, "handle", Closed)
      /\ Continue(<<>>)
      /\ UNCHANGED <<bridge, engines, nextEngine, nextSession, ops, timer, flags,
                     producer, asked>>
  BY <1>0 DEF DeleteHandle, Now, It, asked
<1>2. /\ s \in Alive /\ s \in Session
      /\ WorkerTypeOK'
      /\ SessionsKnown' /\ Registered' /\ Streams' /\ Producers' /\ Held' /\ Gone'
      /\ sessions[s].streamId \in Running => AboutToEnd(sessions[s].streamId)
  BY <1>0, HandleDeleted
<1>3. /\ Alive' = Alive /\ Running' = Running
      /\ ~sessions'[s].handle.open
      /\ \A t \in Alive : /\ sessions'[t].streamId = sessions[t].streamId
                          /\ sessions'[t].phase = sessions[t].phase
                          /\ sessions'[t].engineId = sessions[t].engineId
      /\ \A t \in Alive \ {s} : sessions'[t] = sessions[t]
  BY <1>1, <1>2, CloseTyped DEF WInv, Running
<1>4. Calm
  BY <1>1, <1>3 DEF Calm
<1>5. StepsInv' /\ (todo \in Seq(Step))' /\ \A h : AboutToEnd(h) => AboutToEnd(h)'
  BY <1>0, <1>1, <1>3, <1>4, PopSteps
<1>6. \A j \in Running : timer
  <2>1. ASSUME NEW r \in Session, NEW j \in Stream
        PROVE  todo \notin {<<StartStep(r, j), StartedStep(r, j)>>, <<StartedStep(r, j)>>}
    <3>. DEFINE b == StartStep(r, j)
                d == StartedStep(r, j)
    <3>1. b.do = "start" /\ d.do = "started"
      BY DEF StartStep, StartedStep
    <3>. HIDE DEF b, d
    <3>2. todo # <<b, d>> /\ todo # <<d>>
      BY <1>1, <3>1 DEF It
    <3>. QED BY <3>2 DEF b, d
  <2>. QED BY <2>1 DEF WInv, WorkerTypeOK, TablesInv, OperationsKnown
<1>7. OperationsKnown'
  <2>1. ASSUME NEW j \in Running
        PROVE  LET r == ops[j].session
               IN  /\ r \in Alive
                   /\ sessions'[r].streamId = j
                   /\ sessions'[r].phase = IF ops[j].cancelRequested
                                           THEN "cancelRequested" ELSE "generating"
                   /\ sessions'[r].handle.open \/ AboutToEnd(j)
                   /\ ended[j] = "no" /\ j < nextStream /\ timer
    <3>1. LET r == ops[j].session
          IN  /\ r \in Alive /\ sessions[r].streamId = j
              /\ sessions[r].phase = IF ops[j].cancelRequested
                                     THEN "cancelRequested" ELSE "generating"
              /\ sessions[r].handle.open \/ AboutToEnd(j)
              /\ ended[j] = "no" /\ j < nextStream /\ timer
      BY <1>6 DEF WInv, TablesInv, OperationsKnown
    <3>2. CASE ops[j].session = s
      BY <1>2, <1>3, <3>1, <3>2
    <3>3. CASE ops[j].session # s
      BY <1>3, <3>1, <3>3
    <3>. QED BY <3>2, <3>3
  <2>. QED BY <1>1, <1>3, <1>5, <2>1 DEF OperationsKnown, asked
<1>. QED BY <1>2, <1>5, <1>7 DEF WInv, TablesInv, ThreadsInv

\* What the waiting steps of each rank find after the step.
ForgetsWait ==
    \A j \in DOMAIN todo \ {1} : todo[j].do = "forget" =>
        /\ todo[j].s \in Alive'
        /\ ~sessions'[todo[j].s].handle.open
        /\ sessions'[todo[j].s].streamId = NoStream

PumpsWait ==
    \A j \in DOMAIN todo \ {1} : todo[j].do = "pump" => todo[j].ks \subseteq Running'

EnginesWait ==
    \A j \in DOMAIN todo \ {1} : todo[j].do = "engine" =>
        /\ todo[j].ss \subseteq Alive'
        /\ \A s \in Alive' : sessions'[s].engineId = todo[j].e =>
              \/ s \in todo[j].ss
              \/ \E h \in DOMAIN todo \ {1} : todo[h].do = "forget" /\ todo[h].s = s

ClosesWait ==
    \A j \in DOMAIN todo \ {1} : todo[j].do = "close" =>
        \A e \in engines' :
            \/ e \in todo[j].es
            \/ \E h \in DOMAIN todo \ {1} : todo[h].do = "engine" /\ todo[h].e = e

\* A step of a higher rank is done: what waits behind it still finds what it needs.
LEMMA PopHigh ==
  ASSUME WInv, todo # <<>>, It.do \notin Beginning, Rank(It) >= 1, Continue(<<>>),
         ForgetsWait, PumpsWait, EnginesWait, ClosesWait
  PROVE  StepsInv' /\ (todo \in Seq(Step))'
<1>. DEFINE t == todo'
<1>1. /\ t \in Seq(Step)
      /\ \A h \in DOMAIN t : \E j \in DOMAIN todo \ {1} : t[h] = todo[j]
  BY Popped DEF WInv
<1>2. \A j \in DOMAIN todo \ {1} : \E h \in DOMAIN t : t[h] = todo[j]
  <2>1. \A j \in DOMAIN todo \ {1} : j - 1 \in DOMAIN t /\ t[j - 1] = todo[j]
    BY Popped DEF WInv
  <2>. QED BY <2>1
<1>3. Ordered'
  BY PoppedOrder
<1>. HIDE DEF t
<1>4. \A j \in DOMAIN todo \ {1} : todo[j].do \in {"pump", "forget", "engine", "close"}
  BY RestHigh
<1>5. OneSubject'
  <2>1. ASSUME NEW h \in DOMAIN t, NEW g \in DOMAIN t,
               t[h].do \in OnSession, t[g].do \in OnSession
        PROVE  t[h].do = "forget" /\ t[g].do = "forget" /\ t[h].s = t[g].s
    <3>1. PICK i \in DOMAIN todo \ {1}, j \in DOMAIN todo \ {1} :
             t[h] = todo[i] /\ t[g] = todo[j]
      BY <1>1
    <3>2. todo[i].do = "forget" /\ todo[j].do = "forget"
      BY <1>4, <2>1, <3>1 DEF OnSession, OnOperation
    <3>. QED BY <3>1, <3>2 DEF WInv, StepsInv, OneSubject, SubjectOf, At, OnSession
  <2>. QED BY <2>1 DEF OneSubject, SubjectOf, At, t
<1>6. StepsLive'
  BY <1>1, <1>4 DEF StepsLive, At, t, OnOperation
<1>7. BeginningSound'
  BY <1>1, <1>4 DEF BeginningSound, At, t, Beginning
<1>8. ASSUME NEW i \in DOMAIN t, NEW j \in DOMAIN todo \ {1}, t[i] = todo[j]
      PROVE  /\ CancelOK(i)' /\ FinishOK(i)' /\ UseOK(i)' /\ JoinOK(i)' /\ RetireOK(i)'
             /\ ForgetOK(i)' /\ PumpOK(i)' /\ EngineOK(i)' /\ CloseOK(i)'
  <2>1. t[i].do \in {"pump", "forget", "engine", "close"}
    BY <1>4, <1>8
  <2>2. /\ CancelOK(i)' /\ FinishOK(i)' /\ UseOK(i)' /\ JoinOK(i)' /\ RetireOK(i)'
    BY <2>1 DEF CancelOK, FinishOK, UseOK, JoinOK, RetireOK, At, t
  <2>3. ForgetOK(i)'
    <3>1. CASE t[i].do = "forget"
      <4>1. /\ todo[j].s \in Alive'
            /\ ~sessions'[todo[j].s].handle.open
            /\ sessions'[todo[j].s].streamId = NoStream
        BY <1>8, <3>1 DEF ForgetsWait
      <4>. QED BY <1>8, <4>1 DEF ForgetOK, At, t
    <3>. QED BY <3>1 DEF ForgetOK, At, t
  <2>4. PumpOK(i)'
    <3>1. CASE t[i].do = "pump"
      <4>1. todo[j].ks \subseteq Running'
        BY <1>8, <3>1 DEF PumpsWait
      <4>2. \A h \in DOMAIN t : t[h].do \notin OnOperation
        BY <1>1, <1>4 DEF OnOperation
      <4>. QED BY <1>8, <4>1, <4>2 DEF PumpOK, At, t
    <3>. QED BY <3>1 DEF PumpOK, At, t
  <2>5. EngineOK(i)'
    <3>1. CASE t[i].do = "engine"
      <4>1. /\ todo[j].ss \subseteq Alive'
            /\ \A s \in Alive' : sessions'[s].engineId = todo[j].e =>
                  \/ s \in todo[j].ss
                  \/ \E h \in DOMAIN todo \ {1} : todo[h].do = "forget" /\ todo[h].s = s
        BY <1>8, <3>1 DEF EnginesWait
      <4>2. \A s : (\E h \in DOMAIN todo \ {1} : todo[h].do = "forget" /\ todo[h].s = s)
                     => \E h \in DOMAIN t : t[h].do = "forget" /\ t[h].s = s
        BY <1>2
      <4>3. \A h \in DOMAIN t : t[h].do = "forget" => t[h].s \notin todo[j].ss
        BY <1>1, <1>8, <3>1 DEF WInv, StepsInv, StepsSound, EngineOK, At
      <4>. QED BY <1>8, <4>1, <4>2, <4>3 DEF EngineOK, At, t
    <3>. QED BY <3>1 DEF EngineOK, At, t
  <2>6. CloseOK(i)'
    <3>1. CASE t[i].do = "close"
      <4>1. \A e \in engines' :
               \/ e \in todo[j].es
               \/ \E h \in DOMAIN todo \ {1} : todo[h].do = "engine" /\ todo[h].e = e
        BY <1>8, <3>1 DEF ClosesWait
      <4>2. \A e : (\E h \in DOMAIN todo \ {1} : todo[h].do = "engine" /\ todo[h].e = e)
                     => \E h \in DOMAIN t : t[h].do = "engine" /\ t[h].e = e
        BY <1>2
      <4>. QED BY <1>8, <4>1, <4>2 DEF CloseOK, At, t
    <3>. QED BY <3>1 DEF CloseOK, At, t
  <2>. QED BY <2>2, <2>3, <2>4, <2>5, <2>6
<1>9. StepsSound'
  BY <1>1, <1>8 DEF StepsSound, t
<1>. QED BY <1>1, <1>3, <1>5, <1>6, <1>7, <1>9 DEF StepsInv, t

\* Behind a step of a higher rank nothing closes a handle or ends an operation.
LEMMA WaitingForgets ==
  ASSUME WInv, todo # <<>>, It.do \notin Beginning, Rank(It) >= 1,
         NEW j \in DOMAIN todo, todo[j].do = "forget"
  PROVE  /\ todo[j].s \in Alive
         /\ ~sessions[todo[j].s].handle.open
         /\ sessions[todo[j].s].streamId # NoStream =>
               It.do \in Ending /\ It.k = sessions[todo[j].s].streamId
<1>1. /\ todo[j].s \in Alive
      /\ sessions[todo[j].s].handle.open => JoinAhead(todo[j].s)
      /\ sessions[todo[j].s].streamId # NoStream =>
            AboutToEnd(sessions[todo[j].s].streamId)
  BY DEF WInv, StepsInv, StepsSound, ForgetOK, At
<1>2. ~JoinAhead(todo[j].s)
  <2>1. It = todo[1] /\ It.do # "join"
    BY HeadStep DEF WInv, Rank
  <2>2. \A i \in DOMAIN todo : todo[i].do # "join"
    BY <2>1, RestHigh
  <2>. QED BY <2>2 DEF JoinAhead, At
<1>. QED BY <1>1, <1>2, OnlyHeadEnds

LEMMA SettleKeeps == ASSUME WInv, P!Inv, Settle PROVE WInv'
<1>1. /\ todo # <<>> /\ It.do = "pump" /\ It.ks = {}
      /\ timer' = (timer /\ Running # {})
      /\ Continue(<<>>)
      /\ UNCHANGED <<bridge, engines, nextEngine, sessions, nextSession, ops,
                     flags, producer, seen>>
  BY DEF Settle, Now, It
<1>2. It.do \notin Beginning \union Ending \union {"join", "forget", "engine"} /\ Rank(It) = 2
  BY <1>1 DEF Beginning, Ending, Rank
<1>3. Running' = Running /\ Alive' = Alive
  BY <1>1 DEF Running, Alive
<1>4. WorkerTypeOK'
  BY <1>1, <1>3 DEF WInv, WorkerTypeOK, flags, seen
<1>5. StepsInv' /\ (todo \in Seq(Step))'
  <2>0. 1 \in DOMAIN todo /\ It = todo[1]
    BY <1>1, HeadStep DEF WInv
  <2>1. \A j \in DOMAIN todo \ {1} : todo[j].do # "pump"
    BY <1>1, <1>2, RestHigh DEF Rank
  <2>2. \A j \in DOMAIN todo \ {1} : todo[j].do # "forget"
    BY <1>1, <1>2, RestHigh DEF Rank
  <2>3. ASSUME NEW j \in DOMAIN todo \ {1}, todo[j].do = "engine"
        PROVE  /\ todo[j].ss \subseteq Alive'
               /\ \A s \in Alive' : sessions'[s].engineId = todo[j].e => s \in todo[j].ss
    <3>1. \A h \in DOMAIN todo : todo[h].do # "forget"
      BY <1>1, <2>0, <2>2
    <3>. QED BY <1>1, <1>3, <2>3, <3>1 DEF WInv, StepsInv, StepsSound, EngineOK, At
  <2>4. ASSUME NEW j \in DOMAIN todo \ {1}, todo[j].do = "close", NEW e \in engines'
        PROVE  \/ e \in todo[j].es
               \/ \E h \in DOMAIN todo \ {1} : todo[h].do = "engine" /\ todo[h].e = e
    BY <1>1, <2>0, <2>4 DEF WInv, StepsInv, StepsSound, CloseOK, At
  <2>5. ForgetsWait /\ PumpsWait /\ EnginesWait /\ ClosesWait
    BY <2>1, <2>2, <2>3, <2>4 DEF ForgetsWait, PumpsWait, EnginesWait, ClosesWait
  <2>. QED BY <1>1, <1>2, <2>5, PopHigh
<1>6. OperationsKnown'
  <2>1. \A k : ~AboutToEnd(k)
    BY <1>1, <1>2, OnlyHeadEnds
  <2>2. \A k \in Running : timer
    BY <1>1, <1>2, NoBeginning
  <2>. QED BY <1>1, <1>3, <2>1, <2>2 DEF WInv, TablesInv, OperationsKnown, seen
<1>7. SessionsKnown' /\ Registered' /\ Streams'
  BY <1>1, <1>3 DEF WInv, TablesInv, SessionsKnown, Registered, Streams, bridge, seen
<1>8. Producers' /\ Held' /\ Gone'
  BY <1>1, <1>3 DEF WInv, ThreadsInv, Producers, Held, Gone, Now, It, WorksFor, bridge, flags
<1>. QED BY <1>4, <1>5, <1>6, <1>7, <1>8 DEF WInv, TablesInv, ThreadsInv

LEMMA DeleteEngineKeeps == ASSUME WInv, P!Inv, DeleteEngine PROVE WInv'
<1>0. PICK e0 : e0 = It.e
  OBVIOUS
<1>1. /\ todo # <<>> /\ It.do = "engine" /\ It.ss = {}
      /\ engines' = engines \ {e0}
      /\ Continue(<<>>)
      /\ UNCHANGED <<bridge, nextEngine, sessions, nextSession, ops, timer, flags,
                     producer, seen>>
  BY <1>0 DEF DeleteEngine, Now, It
<1>2. It.do \notin Beginning \union Ending \union {"join", "forget"} /\ Rank(It) = 3
  BY <1>1 DEF Beginning, Ending, Rank
<1>3. Running' = Running /\ Alive' = Alive
  BY <1>1 DEF Running, Alive
<1>4. WorkerTypeOK'
  BY <1>1, <1>3 DEF WInv, WorkerTypeOK, flags, seen
<1>5. 1 \in DOMAIN todo /\ It = todo[1]
  BY <1>1, HeadStep DEF WInv
<1>6. \A j \in DOMAIN todo \ {1} : todo[j].do = "close"
  BY <1>1, <1>2, RestHigh DEF Rank
<1>7. StepsInv' /\ (todo \in Seq(Step))'
  <2>1. ASSUME NEW j \in DOMAIN todo \ {1}, todo[j].do = "close", NEW e \in engines'
        PROVE  \/ e \in todo[j].es
               \/ \E h \in DOMAIN todo \ {1} : todo[h].do = "engine" /\ todo[h].e = e
    BY <1>0, <1>1, <1>5, <2>1 DEF WInv, StepsInv, StepsSound, CloseOK, At
  <2>2. ForgetsWait /\ PumpsWait /\ EnginesWait /\ ClosesWait
    BY <1>6, <2>1 DEF ForgetsWait, PumpsWait, EnginesWait, ClosesWait
  <2>. QED BY <1>1, <1>2, <2>2, PopHigh
<1>8. OperationsKnown'
  <2>1. \A k : ~AboutToEnd(k)
    BY <1>1, <1>2, OnlyHeadEnds
  <2>2. \A k \in Running : timer
    BY <1>1, <1>2, NoBeginning
  <2>. QED BY <1>1, <1>3, <2>1, <2>2 DEF WInv, TablesInv, OperationsKnown, seen
<1>9. SessionsKnown'
  <2>1. \A s \in Alive : sessions[s].engineId # e0
    BY <1>0, <1>1, <1>5, <1>6 DEF WInv, StepsInv, StepsSound, EngineOK, At
  <2>. QED BY <1>1, <1>3, <2>1 DEF WInv, TablesInv, SessionsKnown
<1>10. Registered' /\ Streams'
  BY <1>1, <1>3 DEF WInv, TablesInv, Registered, Streams, bridge, seen
<1>11. Producers' /\ Held' /\ Gone'
  BY <1>1, <1>3 DEF WInv, ThreadsInv, Producers, Held, Gone, Now, It, WorksFor, bridge, flags
<1>. QED BY <1>4, <1>7, <1>8, <1>9, <1>10, <1>11 DEF WInv, TablesInv, ThreadsInv

LEMMA ExitKeeps == ASSUME WInv, P!Inv, Exit PROVE WInv'
<1>1. /\ todo # <<>> /\ It.do = "close" /\ It.es = {}
      /\ timer' = FALSE /\ exited' = TRUE
      /\ Continue(<<>>)
      /\ UNCHANGED <<bridge, engines, nextEngine, sessions, nextSession, ops,
                     fatalExit, producer, seen>>
  BY DEF Exit, Now, It
<1>2. It.do \notin Beginning \union Ending \union {"join", "forget", "engine"} /\ Rank(It) = 4
  BY <1>1 DEF Beginning, Ending, Rank
<1>3. Running' = Running /\ Alive' = Alive
  BY <1>1 DEF Running, Alive
<1>4. WorkerTypeOK'
  BY <1>1, <1>3 DEF WInv, WorkerTypeOK, seen
<1>5. 1 \in DOMAIN todo /\ It = todo[1]
  BY <1>1, HeadStep DEF WInv
<1>6. ~\E j : j \in DOMAIN todo \ {1}
  BY <1>1, <1>2, RestHigh DEF Rank
<1>7. engines = {} /\ Alive = {} /\ Running = {}
  <2>1. engines = {}
    BY <1>1, <1>5, <1>6 DEF WInv, StepsInv, StepsSound, CloseOK, At
  <2>2. Alive = {}
    BY <2>1 DEF WInv, TablesInv, SessionsKnown
  <2>3. Running = {}
    BY <2>2 DEF WInv, TablesInv, OperationsKnown
  <2>. QED BY <2>1, <2>2, <2>3
<1>8. todo' = <<>>
  <2>1. /\ todo' \in Seq(Step)
        /\ \A h \in DOMAIN todo' : \E j \in DOMAIN todo \ {1} : todo'[h] = todo[j]
    BY <1>1, Popped DEF WInv
  <2>2. ~\E h : h \in DOMAIN todo'
    BY <1>6, <2>1
  <2>. QED BY <2>1, <2>2
<1>9. StepsInv' /\ (todo \in Seq(Step))'
  BY <1>8, NoStepsLeft
<1>10. OperationsKnown' /\ SessionsKnown' /\ Registered' /\ Streams'
  BY <1>1, <1>3, <1>7 DEF WInv, TablesInv, OperationsKnown, SessionsKnown, Registered, Streams,
    bridge, seen
<1>11. Producers' /\ Held' /\ Gone'
  BY <1>1, <1>3, <1>7, <1>8 DEF WInv, ThreadsInv, Producers, Held, Gone, Now, It, WorksFor,
    bridge
<1>. QED BY <1>4, <1>9, <1>10, <1>11 DEF WInv, TablesInv, ThreadsInv

LEMMA ForgetKeeps == ASSUME WInv, P!Inv, Forget PROVE WInv'
<1>0. PICK s : s = It.s
  OBVIOUS
<1>1. /\ todo # <<>> /\ It.do = "forget"
      /\ sessions' = Restrict(sessions, Alive \ {s})
      /\ Continue(<<>>)
      /\ UNCHANGED <<bridge, engines, nextEngine, nextSession, ops, timer, flags,
                     producer, seen>>
  BY <1>0 DEF Forget, Now, It
<1>2. It.do \notin Beginning \union Ending \union {"join", "pump", "engine"} /\ Rank(It) = 2
  BY <1>1 DEF Beginning, Ending, Rank
<1>3. /\ Running' = Running /\ Alive' = Alive \ {s}
      /\ \A r \in Alive \ {s} : sessions'[r] = sessions[r]
  BY <1>1 DEF Running, Alive, Restrict
<1>4. WorkerTypeOK'
  BY <1>1, <1>3 DEF WInv, WorkerTypeOK, flags, seen
<1>5. 1 \in DOMAIN todo /\ It = todo[1]
  BY <1>1, HeadStep DEF WInv
<1>6. /\ s \in Alive /\ ~sessions[s].handle.open /\ sessions[s].streamId = NoStream
  BY <1>0, <1>1, <1>2, <1>5, WaitingForgets
<1>7. \A j \in DOMAIN todo \ {1} : todo[j].do \in {"engine", "close"}
  BY <1>1, <1>2, RestHigh DEF Rank
<1>8. StepsInv' /\ (todo \in Seq(Step))'
  <2>1. ASSUME NEW j \in DOMAIN todo \ {1}, todo[j].do = "engine"
        PROVE  /\ todo[j].ss \subseteq Alive'
               /\ \A r \in Alive' : sessions'[r].engineId = todo[j].e => r \in todo[j].ss
    <3>1. \A h \in DOMAIN todo : todo[h].do = "forget" => todo[h].s = s
      BY <1>0, <1>5, <1>7
    <3>2. /\ todo[j].ss \subseteq Alive
          /\ \A h \in DOMAIN todo : At(h, {"forget"}) => todo[h].s \notin todo[j].ss
          /\ \A r \in Alive : sessions[r].engineId = todo[j].e =>
                \/ r \in todo[j].ss
                \/ \E h \in DOMAIN todo : At(h, {"forget"}) /\ todo[h].s = r
      BY <2>1 DEF WInv, StepsInv, StepsSound, EngineOK, At
    <3>3. s \notin todo[j].ss
      BY <1>0, <1>1, <1>5, <3>2 DEF At
    <3>. QED BY <1>3, <3>1, <3>2, <3>3 DEF At
  <2>2. ASSUME NEW j \in DOMAIN todo \ {1}, todo[j].do = "close", NEW e \in engines'
        PROVE  \/ e \in todo[j].es
               \/ \E h \in DOMAIN todo \ {1} : todo[h].do = "engine" /\ todo[h].e = e
    BY <1>1, <1>5, <2>2 DEF WInv, StepsInv, StepsSound, CloseOK, At
  <2>3. ForgetsWait /\ PumpsWait
    BY <1>7 DEF ForgetsWait, PumpsWait
  <2>4. EnginesWait /\ ClosesWait
    BY <2>1, <2>2 DEF EnginesWait, ClosesWait
  <2>. QED BY <1>1, <1>2, <2>3, <2>4, PopHigh
<1>9. OperationsKnown'
  <2>1. \A k : ~AboutToEnd(k)
    BY <1>1, <1>2, OnlyHeadEnds
  <2>2. \A k \in Running : timer
    BY <1>1, <1>2, NoBeginning
  <2>3. \A k \in Running : ops[k].session # s
    BY <1>1, <1>6, WorkedOn DEF Stream, NoStream
  <2>4. ASSUME NEW k \in Running
        PROVE  LET r == ops[k].session
               IN  /\ r \in Alive' /\ sessions'[r].streamId = k
                   /\ sessions'[r].phase = IF ops[k].cancelRequested
                                           THEN "cancelRequested" ELSE "generating"
                   /\ sessions'[r].handle.open
                   /\ ended[k] = "no" /\ k < nextStream /\ timer
    BY <1>3, <2>1, <2>2, <2>3 DEF WInv, TablesInv, OperationsKnown
  <2>. QED BY <1>1, <1>3, <2>4 DEF OperationsKnown, seen
<1>10. SessionsKnown' /\ Registered' /\ Streams'
  <2>1. SessionsKnown'
    BY <1>1, <1>3 DEF WInv, TablesInv, SessionsKnown
  <2>2. Registered'
    BY <1>1, <1>3 DEF WInv, TablesInv, Registered, bridge
  <2>3. Streams'
    BY <1>1, <1>3 DEF WInv, TablesInv, Streams, bridge, seen
  <2>. QED BY <2>1, <2>2, <2>3
<1>11. Producers' /\ Held' /\ Gone'
  BY <1>1, <1>3, <1>6 DEF WInv, ThreadsInv, Producers, Held, Gone, Now, It, WorksFor, bridge,
    flags
<1>. QED BY <1>4, <1>8, <1>9, <1>10, <1>11 DEF WInv, TablesInv, ThreadsInv

LEMMA RetireKeeps == ASSUME WInv, P!Inv, Retire PROVE WInv'
<1>0. PICK k : k = It.k
  OBVIOUS
<1>1. /\ todo # <<>> /\ It.do = "retire"
      /\ B!lrlm_operation_delete(ops[k].native)
      /\ ops' = Restrict(ops, Running \ {k})
      /\ sessions' = [sessions EXCEPT ![ops[k].session].phase = "ready",
                                      ![ops[k].session].streamId = NoStream]
      /\ ended' = IF fatalExit THEN ended ELSE [ended EXCEPT ![k] = TerminalEvent(It)]
      /\ Continue(<<>>)
      /\ UNCHANGED <<engines, nextEngine, nextSession, timer, flags, producer,
                     nextStream, nativeOf, tokens, askedCancel>>
  BY <1>0, Zenon DEF Retire, Now, It
<1>2. /\ It.do \notin Beginning \union {"join", "forget", "engine"} /\ Rank(It) = 1
      /\ It.do \in OnOperation
  BY <1>1 DEF Beginning, Rank, OnOperation
<1>3. /\ k \in Running /\ k \in Stream /\ 1 \in DOMAIN todo /\ It = todo[1] /\ It \in Step
  BY <1>0, <1>1, <1>2, HeadOperation
<1>4. PICK s \in Session : s = ops[k].session
  BY <1>1, <1>3, WorkedOn
<1>5. PICK native \in B!Id : native = ops[k].native
  BY <1>1, <1>3, WorkedOn
<1>6. /\ s \in Alive /\ sessions[s] \in NativeSession /\ sessions[s].streamId = k
  BY <1>1, <1>3, <1>4, WorkedOn
<1>7. /\ operations' = operations \ {native}
      /\ \A j \in B!Id : /\ object'[j].final = object[j].final
                         /\ object'[j].started = object[j].started
      /\ UNCHANGED <<callback, starting, held>>
  BY <1>1, <1>5, DeleteCall
<1>8. Running' = Running \ {k} /\ \A j \in Running \ {k} : ops'[j] = ops[j]
  BY <1>1 DEF Running, Restrict
<1>9. /\ Alive' = Alive
      /\ sessions'[s] \in NativeSession
      /\ sessions'[s].handle = sessions[s].handle
      /\ sessions'[s].engineId = sessions[s].engineId
      /\ sessions'[s].streamId = NoStream /\ sessions'[s].phase = "ready"
      /\ \A r \in Alive \ {s} : sessions'[r] = sessions[r]
  <2>1. /\ DOMAIN sessions' = DOMAIN sessions
        /\ sessions'[s] = [sessions[s] EXCEPT !.phase = "ready", !.streamId = NoStream]
        /\ \A r \in Alive \ {s} : sessions'[r] = sessions[r]
    BY <1>1, <1>4, <1>6 DEF Alive
  <2>. QED BY <1>6, <2>1 DEF NativeSession, Alive
<1>10. /\ It.kind \in B!TerminalKind /\ It.cancelled \in BOOLEAN
       /\ ~HandleOf(k).open \/ object[native].final
       /\ ~It.cancelled /\ It.kind = B!Complete => ~ops[k].cancelRequested
  <2>1. It.cancelled \in BOOLEAN
    BY <1>1, <1>3, StepFields
  <2>. QED BY <1>0, <1>1, <1>3, <1>5, <2>1 DEF WInv, StepsInv, StepsSound, RetireOK, At
<1>11. TerminalEvent(It) \in StreamEnd \ {"no"}
  BY DEF TerminalEvent, StreamEnd
<1>12. TerminalEvent(It) = "complete" => ~ops[k].cancelRequested
  BY <1>0, <1>10 DEF TerminalEvent
<1>13. /\ ended' \in [Stream -> StreamEnd]
       /\ \A j \in Stream \ {k} : ended'[j] = ended[j]
       /\ ended'[k] \in {ended[k], TerminalEvent(It)}
  <2>1. ended \in [Stream -> StreamEnd]
    BY DEF WInv, WorkerTypeOK
  <2>. HIDE DEF TerminalEvent
  <2>. QED BY <1>1, <1>3, <1>11, <2>1
<1>14. WorkerTypeOK'
  BY <1>1, <1>8, <1>9, <1>13 DEF WInv, WorkerTypeOK, flags
<1>15. StepsInv' /\ (todo \in Seq(Step))'
  <2>1. ASSUME NEW j \in DOMAIN todo \ {1}, todo[j].do = "forget"
        PROVE  /\ todo[j].s \in Alive'
               /\ ~sessions'[todo[j].s].handle.open
               /\ sessions'[todo[j].s].streamId = NoStream
    <3>1. PICK r : r = todo[j].s
      OBVIOUS
    <3>2. /\ r \in Alive /\ ~sessions[r].handle.open
          /\ sessions[r].streamId # NoStream => k = sessions[r].streamId
      BY <1>0, <1>1, <1>2, <2>1, <3>1, WaitingForgets
    <3>3. CASE r = s
      BY <1>9, <3>1, <3>2, <3>3
    <3>4. CASE r # s
      <4>1. sessions[r].streamId # k
        BY <1>3, <1>4, <3>2, <3>4 DEF WInv, TablesInv, SessionsKnown, Stream, NoStream
      <4>. QED BY <1>9, <3>1, <3>2, <3>4, <4>1
    <3>. QED BY <3>3, <3>4
  <2>2. ASSUME NEW j \in DOMAIN todo \ {1}, todo[j].do = "pump"
        PROVE  todo[j].ks \subseteq Running'
    BY <1>0, <1>2, <1>3, <1>8, <2>2 DEF WInv, StepsInv, StepsSound, PumpOK, At
  <2>3. ASSUME NEW j \in DOMAIN todo \ {1}, todo[j].do = "engine"
        PROVE  /\ todo[j].ss \subseteq Alive'
               /\ \A r \in Alive' : sessions'[r].engineId = todo[j].e =>
                  \/ r \in todo[j].ss
                  \/ \E h \in DOMAIN todo \ {1} : todo[h].do = "forget" /\ todo[h].s = r
    <3>1. \A r \in Alive : sessions'[r].engineId = sessions[r].engineId
      BY <1>9
    <3>2. /\ todo[j].ss \subseteq Alive
          /\ \A r \in Alive : sessions[r].engineId = todo[j].e =>
                \/ r \in todo[j].ss
                \/ \E h \in DOMAIN todo : At(h, {"forget"}) /\ todo[h].s = r
      BY <2>3 DEF WInv, StepsInv, StepsSound, EngineOK, At
    <3>3. \A h \in DOMAIN todo : At(h, {"forget"}) => h # 1
      BY <1>1, <1>3 DEF At
    <3>. QED BY <1>9, <3>1, <3>2, <3>3 DEF At
  <2>4. ASSUME NEW j \in DOMAIN todo \ {1}, todo[j].do = "close", NEW e \in engines'
        PROVE  \/ e \in todo[j].es
               \/ \E h \in DOMAIN todo \ {1} : todo[h].do = "engine" /\ todo[h].e = e
    BY <1>1, <1>3, <2>4 DEF WInv, StepsInv, StepsSound, CloseOK, At
  <2>5. ForgetsWait /\ PumpsWait
    BY <2>1, <2>2 DEF ForgetsWait, PumpsWait
  <2>6. EnginesWait /\ ClosesWait
    BY <2>3, <2>4 DEF EnginesWait, ClosesWait
  <2>. QED BY <1>1, <1>2, <2>5, <2>6, PopHigh
<1>16. OperationsKnown'
  <2>1. ASSUME NEW j \in Running \ {k}
        PROVE  LET r == ops[j].session
               IN  /\ r \in Alive /\ r # s
                   /\ sessions[r].streamId = j
                   /\ sessions[r].phase = IF ops[j].cancelRequested
                                          THEN "cancelRequested" ELSE "generating"
                   /\ sessions[r].handle.open
                   /\ ended[j] = "no" /\ j < nextStream /\ timer
    <3>1. ~AboutToEnd(j)
      BY <1>0, <1>1, <1>2, OnlyHeadEnds
    <3>2. timer
      BY <1>1, <1>2, NoBeginning
    <3>. QED BY <1>6, <3>1, <3>2 DEF WInv, TablesInv, OperationsKnown
  <2>2. Running \subseteq Stream
    BY Zenon DEF WInv, WorkerTypeOK
  <2>3. ASSUME NEW j \in Running \ {k}
        PROVE  LET r == ops[j].session
               IN  /\ ops'[j] = ops[j] /\ r \in Alive'
                   /\ sessions'[r] = sessions[r]
                   /\ ended'[j] = "no" /\ j < nextStream' /\ timer'
    <3>1. PICK r : r = ops[j].session
      OBVIOUS
    <3>2. r \in Alive /\ r # s /\ ended[j] = "no" /\ j < nextStream /\ timer
      BY <2>1, <3>1
    <3>3. j # k /\ j \in Stream
      BY <2>2
    <3>4. ops'[j] = ops[j]
      BY <1>8
    <3>5. r \in Alive' /\ sessions'[r] = sessions[r]
      BY <1>9, <3>2
    <3>6. ended'[j] = "no" /\ j < nextStream' /\ timer'
      BY <1>1, <1>13, <3>2, <3>3
    <3>. QED BY <3>1, <3>4, <3>5, <3>6
  <2>. QED BY <1>8, <2>1, <2>3 DEF OperationsKnown
<1>17. SessionsKnown'
  <2>1. ASSUME NEW r \in Alive \ {s}
        PROVE  \/ /\ sessions[r].streamId \in Running \ {k}
                  /\ ops[sessions[r].streamId].session = r
               \/ sessions[r].streamId = NoStream /\ sessions[r].phase = "ready"
    BY <1>4 DEF WInv, TablesInv, SessionsKnown
  <2>2. ASSUME NEW r \in Alive \ {s}
        PROVE  /\ \/ /\ sessions'[r].streamId \in Running'
                     /\ ops'[sessions'[r].streamId].session = r
                  \/ sessions'[r].streamId = NoStream /\ sessions'[r].phase = "ready"
               /\ sessions'[r].engineId = sessions[r].engineId
    BY <1>8, <1>9, <2>1
  <2>3. \A r \in Alive : sessions[r].engineId \in engines /\ r < nextSession
    BY DEF WInv, TablesInv, SessionsKnown
  <2>4. ASSUME NEW r \in Alive'
        PROVE  /\ \/ /\ sessions'[r].streamId \in Running'
                     /\ ops'[sessions'[r].streamId].session = r
                  \/ sessions'[r].streamId = NoStream /\ sessions'[r].phase = "ready"
               /\ sessions'[r].engineId \in engines'
               /\ r < nextSession'
    <3>1. r \in Alive /\ sessions[r].engineId \in engines' /\ r < nextSession'
      BY <1>1, <1>9, <2>3
    <3>2. CASE r = s
      BY <1>9, <3>1, <3>2
    <3>3. CASE r # s
      BY <2>2, <3>1, <3>3
    <3>. QED BY <3>2, <3>3
  <2>. QED BY <2>4 DEF SessionsKnown
<1>18. Registered'
  BY <1>3, <1>5, <1>7, <1>8 DEF WInv, TablesInv, Registered
<1>19. Streams'
  <2>1. /\ k < nextStream /\ ended[k] = "no"
    BY <1>3 DEF WInv, TablesInv, OperationsKnown
  <2>2. k \in askedCancel => ended'[k] # "complete"
    <3>1. k \in askedCancel => ops[k].cancelRequested
      BY <1>3 DEF WInv, TablesInv, Streams
    <3>. QED BY <1>12, <1>13, <2>1, <3>1
  <2>3. /\ \A j \in Stream : j >= nextStream => ended[j] = "no"
        /\ \A j \in askedCancel :
             /\ j \in Stream
             /\ j < nextStream
             /\ IF j \in Running THEN ops[j].cancelRequested ELSE ended[j] # "complete"
    BY DEF WInv, WorkerTypeOK, TablesInv, Streams
  <2>4. \A j \in Stream : j >= nextStream => j # k
    <3>1. nextStream \in Nat /\ k \in Nat
      BY <1>3 DEF WInv, WorkerTypeOK, Stream
    <3>. QED BY <2>1, <3>1
  <2>5. \A j \in Stream : j >= nextStream' => ended'[j] = "no"
    BY <1>1, <1>13, <2>3, <2>4
  <2>6. ASSUME NEW j \in askedCancel'
        PROVE  /\ j < nextStream'
               /\ IF j \in Running' THEN ops'[j].cancelRequested ELSE ended'[j] # "complete"
    BY <1>1, <1>8, <1>13, <2>2, <2>3
  <2>. QED BY <2>5, <2>6 DEF Streams
<1>20. Producers'
  <2>1. \A r \in Session : /\ producer[r] \in B!Id \union {B!NoId}
                           /\ callback[r] # B!NoId => callback[r] \in B!Id
    BY DEF WInv, WorkerTypeOK, P!Inv, P!TypeOK, P!Id, B!Id, P!NoId, B!NoId, Thread
  <2>2. ASSUME NEW r \in Session, producer[r] # B!NoId
        PROVE  /\ r \in Alive
               /\ sessions[r].handle.open
               /\ object[producer[r]].started
               /\ object[producer[r]].final \/ producer[r] \in operations
               /\ producer[r] \in operations => WorksFor(r, producer[r])
    BY <2>2 DEF WInv, ThreadsInv, Producers
  <2>3. ASSUME NEW r \in Session, producer[r] # B!NoId
        PROVE  object[producer[r]].final \/ producer[r] \in operations'
    <3>1. CASE producer[r] = native /\ producer[r] \in operations
      <4>1. PICK j \in Running : ops[j].native = native /\ ops[j].session = r
        BY <2>2, <2>3, <3>1 DEF WorksFor
      <4>2. j = k
        BY <1>3, <1>5, <4>1 DEF WInv, TablesInv, Registered
      <4>3. HandleOf(k).open
        BY <2>2, <2>3, <4>1, <4>2 DEF HandleOf
      <4>. QED BY <1>10, <3>1, <4>3
    <3>2. CASE ~(producer[r] = native /\ producer[r] \in operations)
      BY <1>7, <2>2, <2>3, <3>2
    <3>. QED BY <3>1, <3>2
  <2>4. ASSUME NEW r \in Session, producer[r] # B!NoId, producer[r] \in operations'
        PROVE  WorksFor(r, producer[r])'
    <3>1. PICK j \in Running : ops[j].native = producer[r] /\ ops[j].session = r
      BY <1>7, <2>2, <2>4 DEF WorksFor
    <3>2. j # k
      BY <1>5, <1>7, <2>4, <3>1
    <3>3. producer' = producer
      BY <1>1
    <3>. QED BY <1>8, <3>1, <3>2, <3>3 DEF WorksFor
  <2>5. ASSUME NEW r \in Session
        PROVE  callback'[r] # B!NoId =>
                  callback'[r] = producer'[r] /\ ~object'[callback'[r]].final
    BY <1>1, <1>7, <2>1 DEF WInv, ThreadsInv, Producers
  <2>6. ASSUME NEW r \in Alive
        PROVE  sessions'[r].handle = sessions[r].handle
    BY <1>9, Zenon
  <2>7. ASSUME NEW r \in Session, producer'[r] # B!NoId
        PROVE  /\ r \in Alive'
               /\ sessions'[r].handle.open
               /\ object'[producer'[r]].started
               /\ object'[producer'[r]].final \/ producer'[r] \in operations'
               /\ producer'[r] \in operations' => WorksFor(r, producer[r])'
    BY <1>1, <1>7, <1>9, <2>1, <2>2, <2>3, <2>4, <2>6, <2>7
  <2>. QED BY <2>5, <2>7 DEF Producers
<1>21. Held' /\ Gone'
  BY <1>1, <1>7 DEF WInv, ThreadsInv, Held, Gone, Now, It, flags
<1>. QED BY <1>14, <1>15, <1>16, <1>17, <1>18, <1>19, <1>20, <1>21 DEF WInv, TablesInv,
  ThreadsInv

-----------------------------------------------------------------------------
(* The handlers that dispose. *)

\* The steps of _disposeSession, whichever they are.
Disposal(steps, s) ==
    LET k == sessions[s].streamId
    IN  /\ \A i \in 1 .. Len(steps) :
             /\ steps[i].do \in {"cancel", "join", "finish", "forget"}
             /\ steps[i].do = "cancel" => i = 1 /\ steps[i].k = k /\ k \in Running
             /\ steps[i].do = "finish" =>
                   /\ steps[i].k = k /\ k \in Running
                   /\ steps[i].kind = B!Cancelled /\ ~steps[i].afterStop
             /\ steps[i].do \in {"join", "forget"} => steps[i].s = s
        /\ \E i \in 1 .. Len(steps) : steps[i].do = "join"
        /\ \E i \in 1 .. Len(steps) : steps[i].do = "forget"
        /\ k \in Running => \E i \in 1 .. Len(steps) : steps[i].do = "finish"

LEMMA DisposalSteps ==
  ASSUME WorkerTypeOK, NEW s \in Alive
  PROVE  /\ _disposeSession(s) \in Seq(Step)
         /\ Disposal(_disposeSession(s), s)
         /\ Levelled(_disposeSession(s), 2)
<1>. DEFINE k == sessions[s].streamId
            a == CancelStep(k, FALSE)
            b == JoinStep(s)
            c == FinishStep(k, B!Cancelled, FALSE)
            d == [do |-> "forget", s |-> s]
<1>0. s \in Session
  BY DEF WorkerTypeOK
<1>1. /\ b.do = "join" /\ b.s = s /\ d.do = "forget" /\ d.s = s
      /\ a.do = "cancel" /\ a.k = k
      /\ c.do = "finish" /\ c.k = k /\ c.kind = B!Cancelled /\ ~c.afterStop
  BY DEF JoinStep, CancelStep, FinishStep
<1>2. b \in Step /\ d \in Step
  BY <1>0, StepsTyped
<1>3. k \in Running => a \in Step /\ c \in Step
  <2>1. k \in Running => k \in Stream
    BY DEF WorkerTypeOK
  <2>2. B!Cancelled \in Kind
    BY KindsDiffer
  <2>. QED BY <2>1, <2>2, StepsTyped
<1>4. _disposeSession(s) = IF k \notin Running THEN <<b, d>> ELSE <<a, b, c, d>>
  BY DEF _disposeSession
<1>. HIDE DEF a, b, c, d, k
<1>5. Rank(a) = 0 /\ Rank(b) = 0 /\ Rank(c) = 1 /\ Rank(d) = 2
  BY <1>1 DEF Rank
<1>6. CASE k \notin Running
  <2>. DEFINE steps == <<b, d>>
  <2>1. steps \in Seq(Step) /\ Len(steps) = 2 /\ steps[1] = b /\ steps[2] = d
    BY <1>2
  <2>. HIDE DEF steps
  <2>2. \A i \in 1 .. Len(steps) : i \in {1, 2}
    BY <2>1
  <2>3. 1 \in 1 .. Len(steps) /\ 2 \in 1 .. Len(steps)
    BY <2>1
  <2>4. Disposal(steps, s)
    BY <1>1, <1>6, <2>1, <2>2, <2>3 DEF Disposal, k
  <2>5. Levelled(steps, 2)
    BY <1>5, <2>1, <2>2 DEF Levelled
  <2>. QED BY <1>4, <1>6, <2>1, <2>4, <2>5 DEF steps
<1>7. CASE k \in Running
  <2>. DEFINE steps == <<a, b, c, d>>
  <2>1. /\ steps \in Seq(Step) /\ Len(steps) = 4
        /\ steps[1] = a /\ steps[2] = b /\ steps[3] = c /\ steps[4] = d
    BY <1>2, <1>3, <1>7
  <2>. HIDE DEF steps
  <2>2. \A i \in 1 .. Len(steps) : i \in {1, 2, 3, 4}
    BY <2>1
  <2>3. \A i \in {1, 2, 3, 4} : i \in 1 .. Len(steps)
    BY <2>1
  <2>4. Disposal(steps, s)
    <3>1. \A i \in 1 .. Len(steps) : \/ i = 1 /\ steps[i] = a
                                     \/ steps[i] \in {b, c, d}
      BY <2>1, <2>2
    <3>2. ASSUME NEW i \in 1 .. Len(steps)
          PROVE  /\ steps[i].do \in {"cancel", "join", "finish", "forget"}
                 /\ steps[i].do = "cancel" => i = 1 /\ steps[i].k = k /\ k \in Running
                 /\ steps[i].do = "finish" =>
                       /\ steps[i].k = k /\ k \in Running
                       /\ steps[i].kind = B!Cancelled /\ ~steps[i].afterStop
                 /\ steps[i].do \in {"join", "forget"} => steps[i].s = s
      <4>1. CASE i = 1 /\ steps[i] = a
        BY <1>1, <1>7, <4>1
      <4>2. CASE steps[i] = b
        BY <1>1, <4>2
      <4>3. CASE steps[i] = c
        BY <1>1, <1>7, <4>3
      <4>4. CASE steps[i] = d
        BY <1>1, <4>4
      <4>. QED BY <3>1, <4>1, <4>2, <4>3, <4>4
    <3>3. /\ \E i \in 1 .. Len(steps) : steps[i].do = "join"
          /\ \E i \in 1 .. Len(steps) : steps[i].do = "forget"
          /\ \E i \in 1 .. Len(steps) : steps[i].do = "finish"
      BY <1>1, <2>1, <2>3
    <3>. QED BY <3>2, <3>3 DEF Disposal, k
  <2>5. Levelled(steps, 2)
    <3>1. \A i \in 1 .. Len(steps) : Rank(steps[i]) <= 2
      BY <1>5, <2>1, <2>2
    <3>2. ASSUME NEW i \in 1 .. Len(steps), NEW j \in 1 .. Len(steps), i < j
          PROVE  \/ Rank(steps[i]) < Rank(steps[j])
                 \/ Rank(steps[i]) = 0 /\ Rank(steps[j]) = 0
      <4>1. i \in {1, 2, 3} /\ j \in {2, 3, 4}
        BY <2>2, <3>2
      <4>2. CASE i = 1
        BY <1>5, <2>1, <4>1, <4>2
      <4>3. CASE i = 2
        BY <1>5, <2>1, <3>2, <4>1, <4>3
      <4>4. CASE i = 3
        BY <1>5, <2>1, <3>2, <4>1, <4>4
      <4>. QED BY <4>1, <4>2, <4>3, <4>4
    <3>. QED BY <3>1, <3>2 DEF Levelled
  <2>. QED BY <1>4, <1>7, <2>1, <2>4, <2>5 DEF steps
<1>. QED BY <1>6, <1>7

\* The whole list when a session is disposed: those steps, then what disposes the
\* rest.
Disposes(s) ==
    LET k == sessions[s].streamId
        t == todo'
    IN  /\ \A h \in DOMAIN t :
             /\ t[h].do \in {"cancel", "join", "finish", "forget", "engine", "close"}
             /\ t[h].do = "cancel" => h = 1 /\ t[h].k = k /\ k \in Running
             /\ t[h].do = "finish" =>
                   /\ t[h].k = k /\ k \in Running
                   /\ t[h].kind = B!Cancelled /\ ~t[h].afterStop
             /\ t[h].do \in {"join", "forget"} => t[h].s = s
        /\ \E h \in DOMAIN t : t[h].do = "join"
        /\ \E h \in DOMAIN t : t[h].do = "forget"
        /\ k \in Running => \E h \in DOMAIN t : t[h].do = "finish"

LEMMA DisposeSound ==
  ASSUME WInv, NEW s \in Alive, Disposes(s), UNCHANGED tables,
         \A k \in Running : HandleOf(k).open,
         todo' \in Seq(Step), Ordered',
         \A h \in DOMAIN todo' : EngineOK(h)' /\ CloseOK(h)'
  PROVE  StepsInv'
<1>. DEFINE t == todo'
<1>k. PICK k : k = sessions[s].streamId
  OBVIOUS
<1>0. /\ Alive' = Alive /\ Running' = Running /\ ops' = ops /\ sessions' = sessions
  BY DEF tables, Alive, Running
<1>1. /\ \A h \in DOMAIN t :
             /\ t[h].do \in {"cancel", "join", "finish", "forget", "engine", "close"}
             /\ t[h].do = "cancel" => h = 1 /\ t[h].k = k /\ k \in Running
             /\ t[h].do = "finish" =>
                   /\ t[h].k = k /\ k \in Running
                   /\ t[h].kind = B!Cancelled /\ ~t[h].afterStop
             /\ t[h].do \in {"join", "forget"} => t[h].s = s
      /\ \E h \in DOMAIN t : t[h].do = "join"
      /\ k \in Running => \E h \in DOMAIN t : t[h].do = "finish"
  BY <1>k DEF Disposes
<1>2. k \in Running => ops[k].session = s
  BY <1>k DEF WInv, WorkerTypeOK, TablesInv, SessionsKnown, NoStream, Stream
<1>2a. k \notin Running => k = NoStream
  BY <1>k DEF WInv, TablesInv, SessionsKnown
<1>. HIDE DEF t
<1>3. OneSubject'
  <2>1. ASSUME NEW h \in DOMAIN t, t[h].do \in OnSession
        PROVE  IF t[h].do \in {"join", "forget"} THEN t[h].s = s
               ELSE ops[t[h].k].session = s
    BY <1>1, <1>2, <2>1 DEF OnSession, OnOperation
  <2>. QED BY <1>0, <2>1 DEF OneSubject, SubjectOf, At, t
<1>4. StepsLive'
  BY <1>0, <1>1 DEF StepsLive, At, OnOperation, t
<1>5. BeginningSound'
  BY <1>1 DEF BeginningSound, At, Beginning, t
<1>6. k \in Running => AboutToEnd(k)'
  <2>1. ASSUME k \in Running
        PROVE  \E h \in DOMAIN t : t[h].do = "finish" /\ t[h].k = k
    BY <1>1, <2>1
  <2>. QED BY <2>1 DEF AboutToEnd, At, Ending, t
<1>7. JoinAhead(s)'
  <2>1. \E h \in DOMAIN t : t[h].do = "join" /\ t[h].s = s
    BY <1>1
  <2>. QED BY <2>1 DEF JoinAhead, At, t
<1>8. ASSUME NEW h \in DOMAIN t
      PROVE  /\ CancelOK(h)' /\ JoinOK(h)' /\ FinishOK(h)' /\ RetireOK(h)' /\ ForgetOK(h)'
             /\ UseOK(h)' /\ PumpOK(h)'
  <2>1. CancelOK(h)'
    <3>1. k \in Running => HandleOf(k)'.open
      BY <1>0 DEF HandleOf
    <3>. QED BY <1>1, <3>1 DEF CancelOK, At, t
  <2>2. JoinOK(h)'
    BY <1>0, <1>1, <1>6, <1>k DEF JoinOK, At, t
  <2>3. FinishOK(h)'
    BY <1>1, KindsDiffer DEF FinishOK, At, t
  <2>4. RetireOK(h)' /\ UseOK(h)' /\ PumpOK(h)'
    BY <1>1 DEF RetireOK, UseOK, PumpOK, At, t
  <2>5. ForgetOK(h)'
    BY <1>0, <1>1, <1>2a, <1>6, <1>7, <1>k DEF ForgetOK, At, t
  <2>. QED BY <2>1, <2>2, <2>3, <2>4, <2>5
<1>9. StepsSound'
  BY <1>8 DEF StepsSound, t
<1>. QED BY <1>3, <1>4, <1>5, <1>9 DEF StepsInv

LEMMA DisposeSessionKeeps ==
  ASSUME WInv, P!Inv, NEW s \in Session, disposeSession(s)
  PROVE  WInv'
<1>. DEFINE steps == _disposeSession(s)
<1>1. s \in Alive /\ Handler(steps) /\ UNCHANGED fatalExit
  BY DEF disposeSession
<1>2. steps \in Seq(Step) /\ Disposal(steps, s) /\ Levelled(steps, 2)
  BY <1>1, DisposalSteps DEF WInv
<1>3. fatalExit' \in BOOLEAN
  BY <1>1 DEF WInv, WorkerTypeOK
<1>. HIDE DEF steps
<1>4. /\ WorkerTypeOK' /\ TablesInv' /\ ThreadsInv' /\ Gone'
      /\ todo' = steps /\ (todo \in Seq(Step))'
      /\ todo = <<>> /\ UNCHANGED tables
  BY <1>1, <1>2, <1>3, HandlerTables
<1>5. DOMAIN todo' = 1 .. Len(steps)
  BY <1>2, <1>4
<1>6. Disposes(s)
  BY <1>2, <1>4, <1>5 DEF Disposes, Disposal
<1>7. Ordered'
  BY <1>2, <1>4, <1>5 DEF Ordered, Levelled
<1>8. \A k \in Running : HandleOf(k).open
  BY <1>4, Settled DEF HandleOf
<1>9. \A h \in DOMAIN todo' : EngineOK(h)' /\ CloseOK(h)'
  BY <1>2, <1>4, <1>5 DEF Disposal, EngineOK, CloseOK, At
<1>10. StepsInv'
  BY <1>1, <1>4, <1>6, <1>7, <1>8, <1>9, DisposeSound
<1>. QED BY <1>4, <1>10 DEF WInv

\* A handler that is one loop.
LEMMA LoopBegins ==
  ASSUME WInv, NEW step \in Step, Handler(<<step>>), fatalExit' \in BOOLEAN,
         step.do \in {"pump", "engine", "close"},
         step.do = "pump" => step.ks = Running,
         step.do = "engine" => step.ss = {s \in Alive : sessions[s].engineId = step.e},
         step.do = "close" => step.es = engines
  PROVE  WInv'
<1>1. <<step>> \in Seq(Step)
  OBVIOUS
<1>2. /\ WorkerTypeOK' /\ TablesInv' /\ ThreadsInv' /\ Gone'
      /\ todo' = <<step>> /\ (todo \in Seq(Step))'
      /\ Running' = Running /\ Alive' = Alive /\ UNCHANGED tables
  BY <1>1, HandlerTables
<1>3. /\ DOMAIN todo' = {1} /\ todo'[1] = step
      /\ Ordered' /\ OneSubject' /\ BeginningSound'
  BY <1>2, OneStep DEF Beginning
<1>4. StepsLive'
  BY <1>3 DEF StepsLive, At, OnOperation
<1>5. ASSUME NEW i \in DOMAIN todo'
      PROVE  /\ CancelOK(i)' /\ JoinOK(i)' /\ FinishOK(i)' /\ RetireOK(i)'
             /\ ForgetOK(i)' /\ UseOK(i)'
  BY <1>3 DEF CancelOK, JoinOK, FinishOK, RetireOK, ForgetOK, UseOK, At
<1>6. ASSUME NEW i \in DOMAIN todo'
      PROVE  PumpOK(i)' /\ EngineOK(i)' /\ CloseOK(i)'
  <2>1. PumpOK(i)'
    BY <1>2, <1>3 DEF PumpOK, At, OnOperation
  <2>2. EngineOK(i)'
    BY <1>2, <1>3 DEF EngineOK, At, tables
  <2>3. CloseOK(i)'
    BY <1>2, <1>3 DEF CloseOK, At, tables
  <2>. QED BY <2>1, <2>2, <2>3
<1>7. StepsSound'
  BY <1>5, <1>6 DEF StepsSound
<1>. QED BY <1>2, <1>3, <1>4, <1>7 DEF WInv, StepsInv

LEMMA DisposeEngineKeeps ==
  ASSUME WInv, NEW e \in Engine, disposeEngine(e)
  PROVE  WInv'
<1>. DEFINE ss == {s \in Alive : sessions[s].engineId = e}
            step == EngineStep(e, ss)
<1>1. Handler(<<step>>) /\ UNCHANGED fatalExit
  BY DEF disposeEngine, _disposeEngine
<1>2. fatalExit' \in BOOLEAN /\ ss \subseteq Session
  BY <1>1 DEF WInv, WorkerTypeOK
<1>3. step \in Step /\ step.do = "engine" /\ step.ss = ss /\ step.e = e
  <2>1. step \in Step
    BY <1>2, StepsTyped
  <2>. QED BY <2>1 DEF EngineStep
<1>. HIDE DEF step
<1>. QED BY <1>1, <1>2, <1>3, LoopBegins

LEMMA CloseKeeps ==
  ASSUME WInv, Handler(<<CloseStep(engines)>>), fatalExit' \in BOOLEAN
  PROVE  WInv'
<1>. DEFINE step == CloseStep(engines)
<1>1. step \in Step /\ step.do = "close" /\ step.es = engines
  <2>1. step \in Step
    BY StepsTyped DEF WInv, WorkerTypeOK
  <2>. QED BY <2>1 DEF CloseStep
<1>2. Handler(<<step>>)
  OBVIOUS
<1>. HIDE DEF step
<1>. QED BY <1>1, <1>2, LoopBegins

LEMMA TickKeeps ==
  ASSUME WInv, Tick
  PROVE  WInv'
<1>. DEFINE step == PumpStep(Running)
<1>1. step \in Step /\ step.do = "pump" /\ step.ks = Running
  <2>1. step \in Step
    BY StepsTyped DEF WInv, WorkerTypeOK
  <2>. QED BY <2>1 DEF PumpStep
<1>2. Handler(<<step>>) /\ fatalExit' \in BOOLEAN
  BY DEF Tick, WInv, WorkerTypeOK
<1>. HIDE DEF step
<1>. QED BY <1>1, <1>2, LoopBegins

LEMMA EndOfList ==
  ASSUME NEW p \in Seq(Step), NEW x \in Step
  PROVE  /\ p \o <<x>> \in Seq(Step) /\ Len(p \o <<x>>) = Len(p) + 1
         /\ \A i \in 1 .. Len(p) : (p \o <<x>>)[i] = p[i]
         /\ (p \o <<x>>)[Len(p) + 1] = x
BY AppendIsConcat, AppendProperties

LEMMA DisposeNextKeeps == ASSUME WInv, P!Inv, DisposeNext PROVE WInv'
<1>0. PICK e, ss : e = It.e /\ ss = It.ss
  OBVIOUS
<1>1. PICK s \in Session :
        /\ todo # <<>> /\ It.do = "engine"
        /\ s \in ss
        /\ Continue(_disposeSession(s) \o <<EngineStep(e, ss \ {s})>>)
        /\ UNCHANGED <<bridge, tables, flags, producer, seen>>
  BY <1>0 DEF DisposeNext, Now, It, First
<1>2. /\ 1 \in DOMAIN todo /\ It = todo[1] /\ It \in Step /\ DOMAIN todo \subseteq Nat
      /\ It.do \notin Beginning \union Ending \union {"join"} /\ Rank(It) = 3
  BY <1>1, HeadStep DEF WInv, Beginning, Ending, Rank
<1>3. e \in Engine /\ ss \subseteq Session
  BY <1>0, <1>1, <1>2, StepFields
<1>4. /\ ss \subseteq Alive
      /\ \A j \in DOMAIN todo : todo[j].do = "forget" => todo[j].s \notin ss
      /\ \A r \in Alive : sessions[r].engineId = e =>
              \/ r \in ss
              \/ \E j \in DOMAIN todo : todo[j].do = "forget" /\ todo[j].s = r
  BY <1>0, <1>1, <1>2 DEF WInv, StepsInv, StepsSound, EngineOK, At
<1>5. \A j \in DOMAIN todo \ {1} : todo[j].do = "close"
  BY <1>1, <1>2, RestHigh DEF Rank
<1>6. \A r \in Alive : sessions[r].engineId = e => r \in ss
  BY <1>1, <1>2, <1>4, <1>5
<1>. DEFINE p == _disposeSession(s)
            x == EngineStep(e, ss \ {s})
            steps == p \o <<x>>
<1>7. p \in Seq(Step) /\ Disposal(p, s) /\ Levelled(p, 2)
  BY <1>1, <1>4, DisposalSteps DEF WInv
<1>8. x \in Step /\ x.do = "engine" /\ x.e = e /\ x.ss = ss \ {s} /\ Rank(x) = 3
  <2>1. x \in Step
    BY <1>3, StepsTyped
  <2>. QED BY <2>1 DEF EngineStep, Rank
<1>. HIDE DEF p, x
<1>9. /\ steps \in Seq(Step) /\ Len(steps) = Len(p) + 1 /\ Len(p) \in Nat
      /\ \A i \in 1 .. Len(p) : steps[i] = p[i]
      /\ steps[Len(p) + 1] = x
  BY <1>7, <1>8, EndOfList
<1>10. Continue(steps)
  BY <1>1 DEF p, x
<1>. HIDE DEF steps
<1>11. \A i \in 1 .. Len(steps) : \/ i \in 1 .. Len(p) /\ steps[i] = p[i]
                                  \/ i = Len(p) + 1 /\ steps[i] = x
  BY <1>9
<1>12. Ordered'
  <2>1. \A i \in 1 .. Len(p) : Rank(p[i]) \in Int /\ Rank(p[i]) <= 2
    BY <1>7 DEF Levelled, Rank
  <2>2. \A i \in 1 .. Len(steps) : Rank(steps[i]) <= Rank(It)
    BY <1>2, <1>8, <1>11, <2>1
  <2>3. ASSUME NEW i \in 1 .. Len(steps), NEW j \in 1 .. Len(steps), i < j
        PROVE  \/ Rank(steps[i]) < Rank(steps[j])
               \/ Rank(steps[i]) = 0 /\ Rank(steps[j]) = 0
    <3>1. i \in 1 .. Len(p) /\ steps[i] = p[i]
      BY <1>9, <1>11, <2>3
    <3>2. CASE j \in 1 .. Len(p)
      BY <1>7, <1>9, <2>3, <3>1, <3>2 DEF Levelled
    <3>3. CASE j = Len(p) + 1
      BY <1>8, <1>9, <2>1, <3>1, <3>3
    <3>. QED BY <1>9, <1>11, <3>2, <3>3
  <2>. QED BY <1>1, <1>9, <1>10, <2>2, <2>3, OrderKept
<1>13. /\ todo' \in Seq(Step)
       /\ \A h \in DOMAIN todo' :
            \/ h \in 1 .. Len(steps) /\ todo'[h] = steps[h]
            \/ h > Len(steps) /\ \E j \in DOMAIN todo \ {1} : todo'[h] = todo[j]
       /\ \A h \in 1 .. Len(steps) : h \in DOMAIN todo' /\ todo'[h] = steps[h]
       /\ \A j \in DOMAIN todo \ {1} : \E h \in DOMAIN todo' : todo'[h] = todo[j]
  BY <1>1, <1>9, <1>10, Pushed DEF WInv
<1>14. /\ \A h \in DOMAIN todo' : \/ h \in 1 .. Len(p) /\ todo'[h] = p[h]
                                  \/ todo'[h] = x
                                  \/ todo'[h].do = "close"
       /\ \A i \in 1 .. Len(p) : i \in DOMAIN todo' /\ todo'[i] = p[i]
       /\ \E h \in DOMAIN todo' : todo'[h] = x
  <2>1. \A i \in 1 .. Len(p) : i \in 1 .. Len(steps)
    BY <1>9
  <2>2. Len(p) + 1 \in 1 .. Len(steps)
    BY <1>9
  <2>. QED BY <1>5, <1>9, <1>11, <1>13, <2>1, <2>2
<1>15. Disposes(s)
  <2>. DEFINE k == sessions[s].streamId
              t == todo'
  <2>1. /\ \A i \in 1 .. Len(p) :
             /\ p[i].do \in {"cancel", "join", "finish", "forget"}
             /\ p[i].do = "cancel" => i = 1 /\ p[i].k = k /\ k \in Running
             /\ p[i].do = "finish" =>
                   /\ p[i].k = k /\ k \in Running
                   /\ p[i].kind = B!Cancelled /\ ~p[i].afterStop
             /\ p[i].do \in {"join", "forget"} => p[i].s = s
        /\ \E i \in 1 .. Len(p) : p[i].do = "join"
        /\ \E i \in 1 .. Len(p) : p[i].do = "forget"
        /\ k \in Running => \E i \in 1 .. Len(p) : p[i].do = "finish"
    BY <1>7 DEF Disposal
  <2>. HIDE DEF k, t
  <2>2. ASSUME NEW h \in DOMAIN t
        PROVE  /\ t[h].do \in {"cancel", "join", "finish", "forget", "engine", "close"}
               /\ t[h].do = "cancel" => h = 1 /\ t[h].k = k /\ k \in Running
               /\ t[h].do = "finish" =>
                     /\ t[h].k = k /\ k \in Running
                     /\ t[h].kind = B!Cancelled /\ ~t[h].afterStop
               /\ t[h].do \in {"join", "forget"} => t[h].s = s
    <3>1. CASE h \in 1 .. Len(p) /\ t[h] = p[h]
      BY <2>1, <3>1
    <3>2. CASE t[h] = x \/ t[h].do = "close"
      BY <1>8, <3>2
    <3>. QED BY <1>14, <3>1, <3>2 DEF t
  <2>3. /\ \E h \in DOMAIN t : t[h].do = "join"
        /\ \E h \in DOMAIN t : t[h].do = "forget"
        /\ k \in Running => \E h \in DOMAIN t : t[h].do = "finish"
    BY <1>14, <2>1 DEF t
  <2>. QED BY <2>2, <2>3 DEF Disposes, k, t
<1>16. /\ UNCHANGED tables /\ Alive' = Alive /\ sessions' = sessions /\ engines' = engines
  BY <1>1 DEF tables, Alive
<1>17. \A k \in Running : HandleOf(k).open
  BY <1>1, <1>2, WorkedOn, OnlyHeadEnds
<1>18. \E h \in DOMAIN todo' : todo'[h].do = "forget" /\ todo'[h].s = s
  BY <1>15 DEF Disposes
<1>19. ASSUME NEW h \in DOMAIN todo'
       PROVE  EngineOK(h)' /\ CloseOK(h)'
  <2>1. EngineOK(h)'
    <3>1. CASE todo'[h].do = "engine"
      <4>1. todo'[h] = x
        BY <1>7, <1>14, <3>1 DEF Disposal
      <4>2. /\ todo'[h].ss \subseteq Alive'
            /\ \A r \in Alive' : sessions'[r].engineId = todo'[h].e =>
                  r \in todo'[h].ss \/ r = s
        BY <1>4, <1>6, <1>8, <1>16, <4>1
      <4>3. \A j \in DOMAIN todo' : todo'[j].do = "forget" => todo'[j].s \notin todo'[h].ss
        BY <1>8, <1>15, <4>1 DEF Disposes
      <4>. QED BY <1>18, <4>2, <4>3 DEF EngineOK, At
    <3>. QED BY <3>1 DEF EngineOK, At
  <2>2. CloseOK(h)'
    <3>1. CASE todo'[h].do = "close"
      <4>1. PICK j \in DOMAIN todo \ {1} : todo'[h] = todo[j]
        <5>1. \A i \in 1 .. Len(steps) : steps[i].do # "close"
          BY <1>7, <1>8, <1>11 DEF Disposal
        <5>. QED BY <1>13, <3>1, <5>1
      <4>2. \A f \in engines :
              \/ f \in todo[j].es
              \/ \E i \in DOMAIN todo : todo[i].do = "engine" /\ todo[i].e = f
        BY <3>1, <4>1 DEF WInv, StepsInv, StepsSound, CloseOK, At
      <4>3. \A i \in DOMAIN todo : todo[i].do = "engine" => todo[i].e = e
        BY <1>0, <1>2, <1>5
      <4>4. \E i \in DOMAIN todo' : todo'[i].do = "engine" /\ todo'[i].e = e
        BY <1>8, <1>14
      <4>. QED BY <1>16, <4>1, <4>2, <4>3, <4>4 DEF CloseOK, At
    <3>. QED BY <3>1 DEF CloseOK, At
  <2>. QED BY <2>1, <2>2
<1>20. StepsInv'
  BY <1>1, <1>4, <1>12, <1>13, <1>15, <1>16, <1>17, <1>19, DisposeSound
<1>21. WorkerTypeOK' /\ Quiet
  BY <1>1, NothingChanged
<1>22. TablesInv' /\ Producers' /\ Gone'
  <2>1. \A k : ~AboutToEnd(k)
    BY <1>1, <1>2, OnlyHeadEnds
  <2>. QED BY <1>1, <1>2, <1>21, <2>1, QuietTables
<1>23. Held'
  BY <1>1 DEF WInv, ThreadsInv, Held, Now, It, bridge
<1>. QED BY <1>13, <1>20, <1>21, <1>22, <1>23 DEF WInv, ThreadsInv

LEMMA CloseNextKeeps == ASSUME WInv, P!Inv, CloseNext PROVE WInv'
<1>0. PICK es : es = It.es
  OBVIOUS
<1>1. PICK e \in Engine :
        /\ todo # <<>> /\ It.do = "close"
        /\ e \in es
        /\ Continue(_disposeEngine(e) \o <<CloseStep(es \ {e})>>)
        /\ UNCHANGED <<bridge, tables, flags, producer, seen>>
  BY <1>0 DEF CloseNext, Now, It, First
<1>2. /\ 1 \in DOMAIN todo /\ It = todo[1] /\ It \in Step
      /\ It.do \notin Beginning \union Ending \union {"join"} /\ Rank(It) = 4
  BY <1>1, HeadStep DEF WInv, Beginning, Ending, Rank
<1>3. es \subseteq Engine
  BY <1>0, <1>1, <1>2, StepFields
<1>4. ~\E j : j \in DOMAIN todo \ {1}
  BY <1>1, <1>2, RestHigh DEF Rank
<1>5. \A f \in engines : f \in es
  BY <1>0, <1>1, <1>2, <1>4 DEF WInv, StepsInv, StepsSound, CloseOK, At
<1>. DEFINE ss == {s \in Alive : sessions[s].engineId = e}
            a == EngineStep(e, ss)
            b == CloseStep(es \ {e})
            steps == <<a>> \o <<b>>
<1>6. /\ a \in Step /\ a.do = "engine" /\ a.e = e /\ a.ss = ss /\ Rank(a) = 3
      /\ b \in Step /\ b.do = "close" /\ b.es = es \ {e} /\ Rank(b) = 4
  <2>1. ss \in SUBSET Session /\ es \ {e} \in SUBSET Engine
    BY <1>3 DEF WInv, WorkerTypeOK
  <2>2. a \in Step /\ b \in Step
    BY <2>1, StepsTyped
  <2>. QED BY <2>2 DEF EngineStep, CloseStep, Rank
<1>7. Continue(steps)
  BY <1>1 DEF _disposeEngine
<1>. HIDE DEF a, b
<1>8. steps \in Seq(Step) /\ Len(steps) = 2 /\ steps[1] = a /\ steps[2] = b
  <2>. DEFINE p == <<a>>
  <2>1. p \in Seq(Step) /\ Len(p) = 1 /\ p[1] = a
    BY <1>6
  <2>. HIDE DEF p
  <2>2. /\ p \o <<b>> \in Seq(Step) /\ Len(p \o <<b>>) = 2
        /\ (p \o <<b>>)[1] = a /\ (p \o <<b>>)[2] = b
    <3>1. /\ p \o <<b>> \in Seq(Step) /\ Len(p \o <<b>>) = Len(p) + 1
          /\ \A i \in 1 .. Len(p) : (p \o <<b>>)[i] = p[i]
          /\ (p \o <<b>>)[Len(p) + 1] = b
      BY <1>6, <2>1, EndOfList
    <3>. QED BY <2>1, <3>1
  <2>. QED BY <2>2 DEF p
<1>. HIDE DEF steps
<1>9. \A i \in 1 .. Len(steps) : i \in {1, 2}
  BY <1>8
<1>10. /\ todo' \in Seq(Step)
       /\ \A h \in DOMAIN todo' : h \in {1, 2} /\ todo'[h] = steps[h]
       /\ 1 \in DOMAIN todo' /\ 2 \in DOMAIN todo'
  <2>1. /\ todo' \in Seq(Step)
        /\ \A h \in DOMAIN todo' :
             \/ h \in 1 .. Len(steps) /\ todo'[h] = steps[h]
             \/ h > Len(steps) /\ \E j \in DOMAIN todo \ {1} : todo'[h] = todo[j]
        /\ \A h \in 1 .. Len(steps) : h \in DOMAIN todo' /\ todo'[h] = steps[h]
    BY <1>1, <1>7, <1>8, Pushed DEF WInv
  <2>2. 1 \in 1 .. Len(steps) /\ 2 \in 1 .. Len(steps)
    BY <1>8
  <2>. QED BY <1>4, <1>9, <2>1, <2>2
<1>11. /\ \A h \in DOMAIN todo' : \/ h = 1 /\ todo'[h] = a
                                  \/ h = 2 /\ todo'[h] = b
       /\ \E h \in DOMAIN todo' : todo'[h] = a
  BY <1>8, <1>10
<1>12. Ordered'
  <2>1. \A i \in 1 .. Len(steps) : Rank(steps[i]) <= Rank(It)
    BY <1>2, <1>6, <1>8, <1>9
  <2>2. ASSUME NEW i \in 1 .. Len(steps), NEW j \in 1 .. Len(steps), i < j
        PROVE  \/ Rank(steps[i]) < Rank(steps[j])
               \/ Rank(steps[i]) = 0 /\ Rank(steps[j]) = 0
    <3>1. i = 1 /\ j = 2
      BY <1>9, <2>2
    <3>. QED BY <1>6, <1>8, <3>1
  <2>. QED BY <1>1, <1>7, <1>8, <2>1, <2>2, OrderKept
<1>13. /\ Alive' = Alive /\ sessions' = sessions /\ engines' = engines
  BY <1>1 DEF tables, Alive
<1>14. OneSubject' /\ StepsLive' /\ BeginningSound'
  BY <1>6, <1>11 DEF OneSubject, StepsLive, BeginningSound, At, OnSession, OnOperation,
    Beginning
<1>15. ASSUME NEW h \in DOMAIN todo'
       PROVE  /\ CancelOK(h)' /\ JoinOK(h)' /\ FinishOK(h)' /\ RetireOK(h)' /\ ForgetOK(h)'
              /\ UseOK(h)' /\ PumpOK(h)' /\ EngineOK(h)' /\ CloseOK(h)'
  <2>1. /\ CancelOK(h)' /\ JoinOK(h)' /\ FinishOK(h)' /\ RetireOK(h)' /\ ForgetOK(h)'
        /\ UseOK(h)' /\ PumpOK(h)'
    BY <1>6, <1>11 DEF CancelOK, JoinOK, FinishOK, RetireOK, ForgetOK, UseOK, PumpOK, At
  <2>2. EngineOK(h)'
    <3>1. CASE todo'[h] = a
      <4>1. \A j \in DOMAIN todo' : todo'[j].do # "forget"
        BY <1>6, <1>11
      <4>. QED BY <1>6, <1>13, <3>1, <4>1 DEF EngineOK, At
    <3>2. CASE todo'[h] = b
      BY <1>6, <3>2 DEF EngineOK, At
    <3>. QED BY <1>11, <3>1, <3>2
  <2>3. CloseOK(h)'
    <3>1. CASE todo'[h] = b
      <4>1. \E j \in DOMAIN todo' : todo'[j].do = "engine" /\ todo'[j].e = e
        BY <1>6, <1>11
      <4>. QED BY <1>5, <1>6, <1>13, <3>1, <4>1 DEF CloseOK, At
    <3>2. CASE todo'[h] = a
      BY <1>6, <3>2 DEF CloseOK, At
    <3>. QED BY <1>11, <3>1, <3>2
  <2>. QED BY <2>1, <2>2, <2>3
<1>16. StepsInv'
  BY <1>12, <1>14, <1>15 DEF StepsInv, StepsSound
<1>17. WorkerTypeOK' /\ Quiet
  BY <1>1, NothingChanged
<1>18. TablesInv' /\ Producers' /\ Gone'
  <2>1. \A k : ~AboutToEnd(k)
    BY <1>1, <1>2, OnlyHeadEnds
  <2>. QED BY <1>1, <1>2, <1>17, <2>1, QuietTables
<1>19. Held'
  BY <1>1 DEF WInv, ThreadsInv, Held, Now, It, bridge
<1>. QED BY <1>10, <1>16, <1>17, <1>18, <1>19 DEF WInv, ThreadsInv

-----------------------------------------------------------------------------
(* The handler that begins an operation. *)

LEMMA Tails ==
  ASSUME NEW a \in Step, NEW b \in Step, NEW c \in Step, NEW d \in Step, NEW e \in Step
  PROVE  /\ Head(<<a, b, c, d, e>>) = a /\ Tail(<<a, b, c, d, e>>) = <<b, c, d, e>>
         /\ Head(<<b, c, d, e>>) = b /\ Tail(<<b, c, d, e>>) = <<c, d, e>>
         /\ Head(<<c, d, e>>) = c /\ Tail(<<c, d, e>>) = <<d, e>>
         /\ Head(<<d, e>>) = d /\ Tail(<<d, e>>) = <<e>>
         /\ Head(<<e>>) = e /\ Tail(<<e>>) = <<>>
OBVIOUS

LEMMA NothingPushed ==
  ASSUME todo \in Seq(Step), todo # <<>>, Continue(<<>>)
  PROVE  todo' = Tail(todo)
<1>1. Tail(todo) \in Seq(Step) /\ todo' = <<>> \o Tail(todo)
  BY DEF Continue
<1>. QED BY <1>1

\* Where the handler is when a step of the beginning comes.
AtJoin(s, k) ==
    /\ Requested(s, k)
    /\ It = JoinStep(s)
    /\ Tail(todo) = <<ReopenStep(s, k), CreateStep(s, k, TRUE), StartStep(s, k),
                      StartedStep(s, k)>>

AtReopen(s, k) ==
    /\ Requested(s, k)
    /\ ~sessions[s].handle.open
    /\ It = ReopenStep(s, k)
    /\ Tail(todo) = <<CreateStep(s, k, TRUE), StartStep(s, k), StartedStep(s, k)>>

AtCreate(s, k) ==
    /\ Requested(s, k)
    /\ sessions[s].handle.open
    /\ \E batch \in BOOLEAN : It = CreateStep(s, k, batch)
    /\ Tail(todo) = <<StartStep(s, k), StartedStep(s, k)>>

AtStart(s, k) ==
    /\ k \in Running /\ ops[k].session = s
    /\ It = StartStep(s, k) /\ Tail(todo) = <<StartedStep(s, k)>>
    /\ sessions[s].handle.open
    /\ ~object[ops[k].native].started

AtStarted(s, k) ==
    /\ k \in Running /\ ops[k].session = s
    /\ It = StartedStep(s, k) /\ Tail(todo) = <<>>
    /\ starting = ops[k].native

LEMMA BeginningAt ==
  ASSUME WInv, todo # <<>>,
         \/ It.do \in Beginning
         \/ \E i \in DOMAIN todo : todo[i].do \in Beginning
  PROVE  \E s \in Session, k \in Stream :
           AtJoin(s, k) \/ AtReopen(s, k) \/ AtCreate(s, k) \/ AtStart(s, k)
             \/ AtStarted(s, k)
<1>1. \E i \in DOMAIN todo : At(i, Beginning)
  BY HeadStep DEF WInv, At
<1>2. PICK s \in Session, k \in Stream : Begins(s, k)
  BY <1>1 DEF WInv, StepsInv, BeginningSound
<1>. DEFINE j == JoinStep(s)
            r == ReopenStep(s, k)
            c == CreateStep(s, k, TRUE)
            b == StartStep(s, k)
            d == StartedStep(s, k)
<1>3. j \in Step /\ r \in Step /\ c \in Step /\ b \in Step /\ d \in Step
  BY StepsTyped
<1>4. \/ /\ Requested(s, k)
         /\ \/ todo = <<j, r, c, b, d>>
            \/ ~sessions[s].handle.open /\ todo = <<r, c, b, d>>
            \/ /\ sessions[s].handle.open
               /\ \E batch \in BOOLEAN : todo = <<CreateStep(s, k, batch), b, d>>
      \/ /\ k \in Running
         /\ ops[k].session = s
         /\ \/ /\ todo = <<b, d>>
               /\ sessions[s].handle.open
               /\ ~object[ops[k].native].started
            \/ todo = <<d>> /\ starting = ops[k].native
  BY <1>2 DEF Begins
<1>5. ASSUME NEW batch \in BOOLEAN, todo = <<CreateStep(s, k, batch), b, d>>
      PROVE  It = CreateStep(s, k, batch) /\ Tail(todo) = <<b, d>>
  <2>. DEFINE e == CreateStep(s, k, batch)
  <2>1. e \in Step
    BY StepsTyped
  <2>. HIDE DEF e, b, d
  <2>. QED BY <1>3, <1>5, <2>1, Tails DEF It, e
<1>. HIDE DEF j, r, c, b, d
<1>6. /\ todo = <<j, r, c, b, d>> => It = j /\ Tail(todo) = <<r, c, b, d>>
      /\ todo = <<r, c, b, d>> => It = r /\ Tail(todo) = <<c, b, d>>
      /\ todo = <<b, d>> => It = b /\ Tail(todo) = <<d>>
      /\ todo = <<d>> => It = d /\ Tail(todo) = <<>>
  <2>1. todo = <<j, r, c, b, d>> => It = j /\ Tail(todo) = <<r, c, b, d>>
    BY <1>3, Tails DEF It
  <2>2. todo = <<r, c, b, d>> => It = r /\ Tail(todo) = <<c, b, d>>
    BY <1>3, Tails DEF It
  <2>3. todo = <<b, d>> => It = b /\ Tail(todo) = <<d>>
    BY <1>3, Tails DEF It
  <2>4. todo = <<d>> => It = d /\ Tail(todo) = <<>>
    BY <1>3, Tails DEF It
  <2>. QED BY <2>1, <2>2, <2>3, <2>4
<1>7. \/ /\ Requested(s, k)
         /\ \/ It = j /\ Tail(todo) = <<r, c, b, d>>
            \/ /\ ~sessions[s].handle.open
               /\ It = r /\ Tail(todo) = <<c, b, d>>
            \/ /\ sessions[s].handle.open
               /\ \E batch \in BOOLEAN : It = CreateStep(s, k, batch)
               /\ Tail(todo) = <<b, d>>
      \/ /\ k \in Running
         /\ ops[k].session = s
         /\ \/ /\ It = b /\ Tail(todo) = <<d>>
               /\ sessions[s].handle.open
               /\ ~object[ops[k].native].started
            \/ It = d /\ Tail(todo) = <<>> /\ starting = ops[k].native
  BY <1>4, <1>5, <1>6
<1>8. AtJoin(s, k) \/ AtReopen(s, k) \/ AtCreate(s, k) \/ AtStart(s, k)
        \/ AtStarted(s, k)
  BY <1>7 DEF j, r, c, b, d, AtJoin, AtReopen, AtCreate, AtStart, AtStarted
<1>. QED BY <1>8

LEMMA StepKinds ==
  ASSUME NEW s, NEW k, NEW batch
  PROVE  /\ JoinStep(s).do = "join" /\ JoinStep(s).s = s
         /\ ReopenStep(s, k).do = "reopen" /\ ReopenStep(s, k).s = s
         /\ ReopenStep(s, k).k = k
         /\ CreateStep(s, k, batch).do = "create" /\ CreateStep(s, k, batch).s = s
         /\ CreateStep(s, k, batch).k = k /\ CreateStep(s, k, batch).batch = batch
         /\ StartStep(s, k).do = "start" /\ StartStep(s, k).s = s
         /\ StartStep(s, k).k = k
         /\ StartedStep(s, k).do = "started" /\ StartedStep(s, k).s = s
         /\ StartedStep(s, k).k = k
BY DEF JoinStep, ReopenStep, CreateStep, StartStep, StartedStep

LEMMA BeginningNow ==
  ASSUME WInv, todo # <<>>,
         \E i \in DOMAIN todo : todo[i].do \in Beginning
  PROVE  /\ It.do = "join" => \E s \in Session, k \in Stream : AtJoin(s, k)
         /\ It.do = "reopen" => \E s \in Session, k \in Stream : AtReopen(s, k)
         /\ It.do = "create" => \E s \in Session, k \in Stream : AtCreate(s, k)
         /\ It.do = "start" => \E s \in Session, k \in Stream : AtStart(s, k)
         /\ It.do = "started" => \E s \in Session, k \in Stream : AtStarted(s, k)
<1>1. PICK s \in Session, k \in Stream :
         AtJoin(s, k) \/ AtReopen(s, k) \/ AtCreate(s, k) \/ AtStart(s, k)
           \/ AtStarted(s, k)
  BY BeginningAt
<1>2. /\ AtJoin(s, k) => It.do = "join"
      /\ AtReopen(s, k) => It.do = "reopen"
      /\ AtCreate(s, k) => It.do = "create"
      /\ AtStart(s, k) => It.do = "start"
      /\ AtStarted(s, k) => It.do = "started"
  <2>1. AtJoin(s, k) => It.do = "join"
    BY DEF AtJoin, JoinStep
  <2>2. AtReopen(s, k) => It.do = "reopen"
    BY DEF AtReopen, ReopenStep
  <2>3. AtCreate(s, k) => It.do = "create"
    BY DEF AtCreate, CreateStep
  <2>4. AtStart(s, k) => It.do = "start"
    BY DEF AtStart, StartStep
  <2>5. AtStarted(s, k) => It.do = "started"
    BY DEF AtStarted, StartedStep
  <2>. QED BY <2>1, <2>2, <2>3, <2>4, <2>5
<1>. QED BY <1>1, <1>2

\* While an operation begins the others are as between two handlers.
LEMMA OthersRunning ==
  ASSUME WInv, todo # <<>>,
         \E i \in DOMAIN todo : todo[i].do \in Beginning
  PROVE  /\ \A k : ~AboutToEnd(k)
         /\ \A k \in Running :
              /\ ops[k].session \in Alive
              /\ sessions[ops[k].session].streamId = k
              /\ sessions[ops[k].session].phase =
                    IF ops[k].cancelRequested THEN "cancelRequested" ELSE "generating"
              /\ sessions[ops[k].session].handle.open
              /\ ended[k] = "no"
              /\ k < nextStream
              /\ timer \/ (It.do \in {"start", "started"} /\ It.k = k)
<1>1. PICK s \in Session, k \in Stream : Begins(s, k)
  BY DEF WInv, StepsInv, BeginningSound, At
<1>. DEFINE j == JoinStep(s)
            r == ReopenStep(s, k)
            c == CreateStep(s, k, TRUE)
            b == StartStep(s, k)
            d == StartedStep(s, k)
<1>2. /\ j.do = "join" /\ r.do = "reopen" /\ c.do = "create" /\ b.do = "start"
      /\ d.do = "started"
  BY DEF JoinStep, ReopenStep, CreateStep, StartStep, StartedStep
<1>3. PICK e : /\ e.do = "create"
               /\ \/ todo = <<j, r, c, b, d>>
                  \/ todo = <<r, c, b, d>>
                  \/ todo = <<e, b, d>>
                  \/ todo = <<b, d>>
                  \/ todo = <<d>>
  <2>1. CASE \E batch \in BOOLEAN : todo = <<CreateStep(s, k, batch), b, d>>
    BY <2>1, StepKinds
  <2>2. CASE ~\E batch \in BOOLEAN : todo = <<CreateStep(s, k, batch), b, d>>
    BY <1>1, <1>2, <2>2 DEF Begins
  <2>. QED BY <2>1, <2>2
<1>. HIDE DEF j, r, c, b, d
<1>4. \A i \in DOMAIN todo : todo[i] \in {j, r, c, e, b, d}
  <2>1. CASE todo = <<j, r, c, b, d>>
    BY <2>1
  <2>2. CASE todo = <<r, c, b, d>>
    BY <2>2
  <2>3. CASE todo = <<e, b, d>>
    BY <2>3
  <2>4. CASE todo = <<b, d>>
    BY <2>4
  <2>5. CASE todo = <<d>>
    BY <2>5
  <2>. QED BY <1>3, <2>1, <2>2, <2>3, <2>4, <2>5
<1>5. \A h : ~AboutToEnd(h)
  BY <1>2, <1>3, <1>4 DEF AboutToEnd, At, Ending
<1>6. ASSUME NEW s1 \in Session, NEW h \in Stream,
             todo \in {<<StartStep(s1, h), StartedStep(s1, h)>>, <<StartedStep(s1, h)>>}
      PROVE  It.do \in {"start", "started"} /\ It.k = h
  <2>. DEFINE x == StartStep(s1, h)
              y == StartedStep(s1, h)
  <2>1. x.do = "start" /\ y.do = "started" /\ x.k = h /\ y.k = h
    BY StepKinds
  <2>. HIDE DEF x, y
  <2>2. todo = <<x, y>> => It = x
    BY DEF It
  <2>3. todo = <<y>> => It = y
    BY DEF It
  <2>4. todo = <<x, y>> \/ todo = <<y>>
    BY <1>6 DEF x, y
  <2>. QED BY <2>1, <2>2, <2>3, <2>4
<1>7. ASSUME NEW h \in Running
      PROVE  /\ ops[h].session \in Alive
             /\ sessions[ops[h].session].streamId = h
             /\ sessions[ops[h].session].phase =
                   IF ops[h].cancelRequested THEN "cancelRequested" ELSE "generating"
             /\ sessions[ops[h].session].handle.open
             /\ ended[h] = "no"
             /\ h < nextStream
             /\ timer \/ (It.do \in {"start", "started"} /\ It.k = h)
  <2>1. h \in Stream
    BY DEF WInv, WorkerTypeOK
  <2>2. /\ ops[h].session \in Alive
        /\ sessions[ops[h].session].streamId = h
        /\ sessions[ops[h].session].phase =
              IF ops[h].cancelRequested THEN "cancelRequested" ELSE "generating"
        /\ sessions[ops[h].session].handle.open \/ AboutToEnd(h)
        /\ ended[h] = "no"
        /\ h < nextStream
        /\ timer \/ \E s1 \in Session :
                todo \in {<<StartStep(s1, h), StartedStep(s1, h)>>, <<StartedStep(s1, h)>>}
    BY DEF WInv, TablesInv, OperationsKnown
  <2>. QED BY <1>5, <1>6, <2>1, <2>2
<1>. QED BY <1>5, <1>7

\* A requested operation's session may be touched: it has no operation yet.
LEMMA OthersKept ==
  ASSUME WInv, todo # <<>>, It.do \in {"join", "reopen"},
         \E i \in DOMAIN todo : todo[i].do \in Beginning,
         NEW s \in Alive, sessions[s].streamId = NoStream,
         Alive' = Alive, \A r \in Alive \ {s} : sessions'[r] = sessions[r],
         UNCHANGED <<ops, timer, ended, nextStream>>
  PROVE  OperationsKnown'
<1>1. Running' = Running
  BY DEF Running
<1>2. ASSUME NEW j \in Running
      PROVE  LET r == ops[j].session
             IN  /\ r \in Alive
                 /\ sessions'[r].streamId = j
                 /\ sessions'[r].phase = IF ops[j].cancelRequested
                                         THEN "cancelRequested" ELSE "generating"
                 /\ sessions'[r].handle.open
                 /\ ended[j] = "no" /\ j < nextStream /\ timer
  <2>1. LET r == ops[j].session
        IN  /\ r \in Alive /\ sessions[r].streamId = j
            /\ sessions[r].phase = IF ops[j].cancelRequested
                                   THEN "cancelRequested" ELSE "generating"
            /\ sessions[r].handle.open
            /\ ended[j] = "no" /\ j < nextStream /\ timer
    BY OthersRunning
  <2>2. ops[j].session # s
    BY <2>1 DEF WInv, WorkerTypeOK, Stream, NoStream
  <2>. QED BY <2>1, <2>2
<1>. QED BY <1>1, <1>2 DEF OperationsKnown

LEMMA DeleteHandleBeginning ==
  ASSUME WInv, P!Inv, DeleteHandle,
         \E i \in DOMAIN todo : todo[i].do \in Beginning
  PROVE  WInv'
<1>0. todo # <<>> /\ It.do = "join" /\ Continue(<<>>)
  BY DEF DeleteHandle, Now, It, asked
<1>1. PICK s \in Session, k \in Stream :
        /\ Requested(s, k)
        /\ It = JoinStep(s)
        /\ Tail(todo) = <<ReopenStep(s, k), CreateStep(s, k, TRUE),
                          StartStep(s, k), StartedStep(s, k)>>
  BY <1>0, BeginningNow DEF AtJoin
<1>2. /\ s = It.s
      /\ Change(s, "handle", Closed)
      /\ UNCHANGED <<bridge, engines, nextEngine, nextSession, ops, timer, flags,
                     producer, asked>>
  <2>1. s = It.s
    BY <1>1, StepKinds
  <2>. QED BY <2>1 DEF DeleteHandle, asked
<1>3. /\ s \in Alive
      /\ WorkerTypeOK'
      /\ SessionsKnown' /\ Registered' /\ Streams' /\ Producers' /\ Held' /\ Gone'
  BY <1>2, HandleDeleted
<1>4. /\ Alive' = Alive /\ Running' = Running
      /\ sessions'[s].streamId = sessions[s].streamId
      /\ \A r \in Alive \ {s} : sessions'[r] = sessions[r]
  BY <1>2, <1>3, CloseTyped DEF WInv, Running
<1>5. sessions[s].streamId = NoStream
  BY <1>1 DEF Requested
<1>6. todo' = <<ReopenStep(s, k), CreateStep(s, k, TRUE), StartStep(s, k),
                StartedStep(s, k)>>
  BY <1>0, <1>1, NothingPushed DEF WInv
<1>7. Begins(s, k)'
  <2>1. Requested(s, k)'
    BY <1>1, <1>2, <1>4 DEF Requested, asked
  <2>2. ~sessions'[s].handle.open
    BY <1>2, <1>3, CloseTyped DEF WInv
  <2>. QED BY <1>6, <2>1, <2>2 DEF Begins
<1>8. StepsInv' /\ (todo \in Seq(Step))'
  BY <1>3, <1>7, BeginningSteps DEF WorkerTypeOK
<1>9. OperationsKnown'
  BY <1>0, <1>2, <1>3, <1>4, <1>5, OthersKept DEF asked
<1>. QED BY <1>3, <1>8, <1>9 DEF WInv, TablesInv, ThreadsInv

LEMMA DeleteHandleKeeps == ASSUME WInv, P!Inv, DeleteHandle PROVE WInv'
BY DeleteHandleBeginning, DeleteHandleEnding

LEMMA ReopenKeeps == ASSUME WInv, P!Inv, Reopen PROVE WInv'
<1>0. todo # <<>> /\ It.do = "reopen" /\ Continue(<<>>)
  BY DEF Reopen, Now, It
<1>0a. \E i \in DOMAIN todo : todo[i].do \in Beginning
  BY <1>0, HeadStep DEF WInv, Beginning
<1>1. PICK s \in Session, k \in Stream :
        /\ Requested(s, k)
        /\ It = ReopenStep(s, k)
        /\ Tail(todo) = <<CreateStep(s, k, TRUE), StartStep(s, k), StartedStep(s, k)>>
  BY <1>0, <1>0a, BeginningNow DEF AtReopen
<1>2. /\ Change(s, "handle", Opened(Append(sessions[s].history, Extra(k))))
      /\ UNCHANGED <<bridge, engines, nextEngine, nextSession, ops, timer, flags,
                     producer, seen>>
  <2>1. s = It.s /\ k = It.k
    BY <1>1, StepKinds
  <2>. QED BY <2>1 DEF Reopen
<1>3. /\ s \in Alive /\ sessions[s].streamId = NoStream
  BY <1>1 DEF Requested
<1>4. Append(sessions[s].history, Extra(k)) \in Seq(Message)
  <2>1. sessions[s].history \in Seq(Message)
    BY <1>3 DEF WInv, WorkerTypeOK, NativeSession
  <2>2. Extra(k) \in Message
    BY DEF Extra, Message
  <2>. QED BY <2>1, <2>2
<1>5. /\ Alive' = Alive /\ Running' = Running
      /\ \A t \in Alive : sessions'[t] \in NativeSession
      /\ sessions'[s].handle.open
      /\ sessions'[s].streamId = sessions[s].streamId
      /\ sessions'[s].phase = sessions[s].phase
      /\ sessions'[s].engineId = sessions[s].engineId
      /\ \A r \in Alive \ {s} : sessions'[r] = sessions[r]
  BY <1>2, <1>3, <1>4, OpenTyped DEF WInv, Running
<1>6. WorkerTypeOK'
  BY <1>2, <1>5 DEF WInv, WorkerTypeOK, flags, seen
<1>7. todo' = <<CreateStep(s, k, TRUE), StartStep(s, k), StartedStep(s, k)>>
  BY <1>0, <1>1, NothingPushed DEF WInv
<1>8. Begins(s, k)'
  <2>1. Requested(s, k)'
    BY <1>1, <1>2, <1>5 DEF Requested, seen
  <2>. QED BY <1>5, <1>7, <2>1 DEF Begins
<1>9. StepsInv' /\ (todo \in Seq(Step))'
  BY <1>6, <1>8, BeginningSteps DEF WorkerTypeOK
<1>10. OperationsKnown'
  BY <1>0, <1>0a, <1>2, <1>3, <1>5, OthersKept DEF seen
<1>11. SessionsKnown'
  BY <1>2, <1>5 DEF WInv, TablesInv, SessionsKnown
<1>12. Registered' /\ Streams'
  BY <1>2, <1>5 DEF WInv, TablesInv, Registered, Streams, bridge, seen
<1>13. Producers'
  BY <1>2, <1>5 DEF WInv, ThreadsInv, Producers, WorksFor, bridge
<1>14. Held' /\ Gone'
  BY <1>0, <1>2 DEF WInv, ThreadsInv, Held, Gone, Now, It, flags, bridge
<1>. QED BY <1>6, <1>9, <1>10, <1>11, <1>12, <1>13, <1>14 DEF WInv, TablesInv, ThreadsInv

\* A generate that ends before it has an operation.
LEMMA AbandonedKeeps == ASSUME WInv, P!Inv, ReopenFails \/ IdsExhausted PROVE WInv'
<1>0. todo # <<>> /\ It.do \in {"reopen", "create"}
  BY DEF ReopenFails, IdsExhausted, Now, It
<1>0a. \E i \in DOMAIN todo : todo[i].do \in Beginning
  BY <1>0, HeadStep DEF WInv, Beginning
<1>1. PICK s \in Session, k \in Stream : Requested(s, k) /\ k = It.k
  <2>1. CASE It.do = "reopen"
    <3>1. PICK s \in Session, k \in Stream : Requested(s, k) /\ It = ReopenStep(s, k)
      BY <1>0, <1>0a, <2>1, BeginningNow DEF AtReopen
    <3>2. k = It.k
      BY <3>1, StepKinds
    <3>. QED BY <3>1, <3>2
  <2>2. CASE It.do = "create"
    <3>1. PICK s \in Session, k \in Stream : AtCreate(s, k)
      BY <1>0, <1>0a, <2>2, BeginningNow
    <3>2. Requested(s, k) /\ k = It.k
      BY <3>1, StepKinds DEF AtCreate
    <3>. QED BY <3>2
  <2>. QED BY <1>0, <2>1, <2>2
<1>2. /\ ended' = [ended EXCEPT ![k] = "error"]
      /\ todo' = <<>>
      /\ UNCHANGED <<bridge, tables, flags, producer, nextStream, nativeOf, tokens,
                     askedCancel, completed>>
  BY <1>1 DEF ReopenFails, IdsExhausted, Abort
<1>3. /\ s \in Alive /\ k \notin Running /\ k \notin askedCancel /\ k < nextStream
  BY <1>1 DEF Requested
<1>4. /\ Alive' = Alive /\ Running' = Running
  BY <1>2 DEF tables, Alive, Running
<1>5. /\ ended \in [Stream -> StreamEnd]
      /\ ended' \in [Stream -> StreamEnd]
      /\ \A j \in Stream \ {k} : ended'[j] = ended[j]
  <2>1. ended \in [Stream -> StreamEnd] /\ "error" \in StreamEnd
    BY DEF WInv, WorkerTypeOK, StreamEnd
  <2>. QED BY <1>2, <2>1
<1>6. WorkerTypeOK'
  BY <1>2, <1>4, <1>5 DEF WInv, WorkerTypeOK, flags, tables
<1>7. StepsInv' /\ (todo \in Seq(Step))'
  BY <1>2, NoStepsLeft
<1>8. OperationsKnown'
  <2>1. ASSUME NEW j \in Running
        PROVE  LET r == ops[j].session
               IN  /\ r \in Alive /\ sessions[r].streamId = j
                   /\ sessions[r].phase = IF ops[j].cancelRequested
                                          THEN "cancelRequested" ELSE "generating"
                   /\ sessions[r].handle.open
                   /\ ended'[j] = "no" /\ j < nextStream /\ timer
    <3>1. j \in Stream /\ j # k
      BY <1>3 DEF WInv, WorkerTypeOK
    <3>. QED BY <1>0, <1>0a, <1>5, <3>1, OthersRunning
  <2>. QED BY <1>2, <1>4, <2>1 DEF OperationsKnown, tables
<1>9. SessionsKnown' /\ Registered'
  BY <1>2, <1>4 DEF WInv, TablesInv, SessionsKnown, Registered, tables, bridge
<1>10. Streams'
  <2>1. \A j \in Stream : j >= nextStream => j # k
    <3>1. nextStream \in Nat /\ k \in Nat
      BY DEF WInv, WorkerTypeOK, Stream
    <3>. QED BY <1>3, <3>1
  <2>2. \A j \in Stream : j >= nextStream' => ended'[j] = "no"
    BY <1>2, <1>5, <2>1 DEF WInv, TablesInv, Streams
  <2>3. ASSUME NEW j \in askedCancel'
        PROVE  /\ j < nextStream'
               /\ IF j \in Running' THEN ops'[j].cancelRequested
                  ELSE ended'[j] # "complete"
    <3>1. j \in Stream /\ j # k
      BY <1>2, <1>3, <2>3 DEF WInv, WorkerTypeOK
    <3>. QED BY <1>2, <1>4, <1>5, <2>3, <3>1 DEF WInv, TablesInv, Streams, tables
  <2>. QED BY <2>2, <2>3 DEF Streams
<1>11. Producers'
  BY <1>2, <1>4 DEF WInv, ThreadsInv, Producers, WorksFor, bridge, tables
<1>12. Held' /\ Gone'
  BY <1>0, <1>2 DEF WInv, ThreadsInv, Held, Gone, Now, It, flags, bridge, tables
<1>. QED BY <1>6, <1>7, <1>8, <1>9, <1>10, <1>11, <1>12 DEF WInv, TablesInv, ThreadsInv

LEMMA CreateOperationKeeps == ASSUME WInv, P!Inv, CreateOperation PROVE WInv'
<1>0. todo # <<>> /\ It.do = "create" /\ Continue(<<>>)
  BY DEF CreateOperation, Now, It
<1>0a. \E i \in DOMAIN todo : todo[i].do \in Beginning
  BY <1>0, HeadStep DEF WInv, Beginning
<1>1. PICK s \in Session, k \in Stream, batch \in BOOLEAN :
        /\ Requested(s, k)
        /\ sessions[s].handle.open
        /\ It = CreateStep(s, k, batch)
        /\ Tail(todo) = <<StartStep(s, k), StartedStep(s, k)>>
  BY <1>0, <1>0a, BeginningNow DEF AtCreate
<1>2. PICK id : id = next_id
  OBVIOUS
<1>3. /\ B!lrlm_operation_create
      /\ ops' = With(ops, k, NewOperation(s, id, batch))
      /\ sessions' = [sessions EXCEPT ![s].phase = "generating", ![s].streamId = k]
      /\ nativeOf' = [nativeOf EXCEPT ![k] = id]
      /\ UNCHANGED <<engines, nextEngine, nextSession, timer, flags, producer,
                     nextStream, tokens, ended, askedCancel, completed>>
  <2>1. s = It.s /\ k = It.k /\ batch = It.batch
    BY <1>1, StepKinds
  <2>. QED BY <1>2, <2>1 DEF CreateOperation
<1>4. /\ id \in B!Id \ operations
      /\ operations' = operations \union {id}
      /\ ~object[id].started
      /\ UNCHANGED <<object, callback, starting, held>>
  BY <1>2, <1>3, CreateCall
<1>5. /\ s \in Alive /\ sessions[s].streamId = NoStream
      /\ k \notin Running /\ k < nextStream /\ ended[k] = "no" /\ k \notin askedCancel
  BY <1>1 DEF Requested
<1>6. /\ Running' = Running \union {k}
      /\ \A j \in Running : ops'[j] = ops[j]
      /\ ops'[k] = NewOperation(s, id, batch)
  BY <1>3, <1>5 DEF Running, With
<1>7. /\ NewOperation(s, id, batch) \in NativeOperation
      /\ NewOperation(s, id, batch).session = s
      /\ NewOperation(s, id, batch).native = id
      /\ ~NewOperation(s, id, batch).cancelRequested
  BY <1>4 DEF NewOperation, NativeOperation
<1>8. /\ Alive' = Alive
      /\ sessions'[s] \in NativeSession
      /\ sessions'[s].handle = sessions[s].handle
      /\ sessions'[s].engineId = sessions[s].engineId
      /\ sessions'[s].streamId = k /\ sessions'[s].phase = "generating"
      /\ \A r \in Alive \ {s} : sessions'[r] = sessions[r]
  <2>1. /\ DOMAIN sessions' = DOMAIN sessions
        /\ sessions'[s] = [sessions[s] EXCEPT !.phase = "generating", !.streamId = k]
        /\ \A r \in Alive \ {s} : sessions'[r] = sessions[r]
    BY <1>3, <1>5 DEF Alive
  <2>2. sessions[s] \in NativeSession
    BY <1>5 DEF WInv, WorkerTypeOK
  <2>. QED BY <2>1, <2>2 DEF NativeSession, Alive
<1>9. WorkerTypeOK'
  <2>1. nativeOf' \in [Stream -> B!Id \union {B!NoId}]
    BY <1>3, <1>4 DEF WInv, WorkerTypeOK
  <2>2. Running' \subseteq Stream /\ \A j \in Running' : ops'[j] \in NativeOperation
    BY <1>6, <1>7 DEF WInv, WorkerTypeOK
  <2>3. Alive' \subseteq Session /\ \A r \in Alive' : sessions'[r] \in NativeSession
    BY <1>8 DEF WInv, WorkerTypeOK
  <2>. QED BY <1>3, <2>1, <2>2, <2>3 DEF WInv, WorkerTypeOK, flags
<1>10. todo' = <<StartStep(s, k), StartedStep(s, k)>>
  BY <1>0, <1>1, NothingPushed DEF WInv
<1>11. Begins(s, k)'
  BY <1>1, <1>4, <1>6, <1>7, <1>8, <1>10 DEF Begins
<1>12. StepsInv' /\ (todo \in Seq(Step))'
  BY <1>9, <1>11, BeginningSteps DEF WorkerTypeOK
<1>13. OperationsKnown'
  <2>1. ASSUME NEW j \in Running
        PROVE  LET r == ops[j].session
               IN  /\ r \in Alive /\ r # s /\ sessions[r].streamId = j
                   /\ sessions[r].phase = IF ops[j].cancelRequested
                                          THEN "cancelRequested" ELSE "generating"
                   /\ sessions[r].handle.open
                   /\ ended[j] = "no" /\ j < nextStream /\ timer
    <3>1. j \in Stream /\ j # NoStream
      BY DEF WInv, WorkerTypeOK, Stream, NoStream
    <3>. QED BY <1>0, <1>0a, <1>5, <3>1, OthersRunning
  <2>2. ASSUME NEW j \in Running
        PROVE  LET r == ops'[j].session
               IN  /\ r \in Alive' /\ sessions'[r].streamId = j
                   /\ sessions'[r].phase = IF ops'[j].cancelRequested
                                           THEN "cancelRequested" ELSE "generating"
                   /\ sessions'[r].handle.open
                   /\ ended'[j] = "no" /\ j < nextStream' /\ timer'
    <3>1. ops'[j] = ops[j] /\ UNCHANGED <<ended, nextStream, timer>>
      BY <1>3, <1>6
    <3>2. /\ ops[j].session \in Alive'
          /\ sessions'[ops[j].session] = sessions[ops[j].session]
      BY <1>8, <2>1
    <3>. QED BY <2>1, <3>1, <3>2
  <2>3. LET r == ops'[k].session
        IN  /\ r \in Alive' /\ sessions'[r].streamId = k
            /\ sessions'[r].phase = IF ops'[k].cancelRequested
                                    THEN "cancelRequested" ELSE "generating"
            /\ sessions'[r].handle.open
            /\ ended'[k] = "no" /\ k < nextStream'
            /\ \E s1 \in Session :
                 todo' \in {<<StartStep(s1, k), StartedStep(s1, k)>>, <<StartedStep(s1, k)>>}
    BY <1>1, <1>3, <1>5, <1>6, <1>7, <1>8, <1>10
  <2>. QED BY <1>6, <2>2, <2>3 DEF OperationsKnown
<1>14. SessionsKnown'
  <2>1. ASSUME NEW r \in Alive
        PROVE  /\ \/ /\ sessions'[r].streamId \in Running'
                     /\ ops'[sessions'[r].streamId].session = r
                  \/ sessions'[r].streamId = NoStream /\ sessions'[r].phase = "ready"
               /\ sessions'[r].engineId = sessions[r].engineId
    <3>1. CASE r = s
      BY <1>6, <1>7, <1>8, <3>1
    <3>2. CASE r # s
      <4>1. \/ /\ sessions[r].streamId \in Running
               /\ ops[sessions[r].streamId].session = r
            \/ sessions[r].streamId = NoStream /\ sessions[r].phase = "ready"
        BY DEF WInv, TablesInv, SessionsKnown
      <4>. QED BY <1>6, <1>8, <3>2, <4>1
    <3>. QED BY <3>1, <3>2
  <2>2. \A r \in Alive : sessions[r].engineId \in engines /\ r < nextSession
    BY DEF WInv, TablesInv, SessionsKnown
  <2>3. UNCHANGED <<engines, nextSession>>
    BY <1>3
  <2>. QED BY <1>8, <2>1, <2>2, <2>3 DEF SessionsKnown
<1>15. Registered'
  <2>1. /\ operations = {ops[j].native : j \in Running}
        /\ \A i, j \in Running : ops[i].native = ops[j].native => i = j
    BY DEF WInv, TablesInv, Registered
  <2>2. \A j \in Running : ops'[j].native = ops[j].native /\ ops[j].native # id
    BY <1>4, <1>6, <2>1
  <2>3. ops'[k].native = id
    BY <1>6, <1>7
  <2>. QED BY <1>4, <1>6, <2>1, <2>2, <2>3 DEF Registered
<1>16. Streams'
  BY <1>3, <1>5, <1>6 DEF WInv, TablesInv, Streams
<1>17. Producers'
  <2>1. ASSUME NEW r \in Session, producer[r] # B!NoId
        PROVE  /\ r \in Alive
               /\ sessions[r].handle.open
               /\ object[producer[r]].started
               /\ object[producer[r]].final \/ producer[r] \in operations
               /\ producer[r] \in operations => WorksFor(r, producer[r])
               /\ producer[r] # id
    BY <1>4, <2>1 DEF WInv, ThreadsInv, Producers
  <2>2. \A r, i : WorksFor(r, i) => WorksFor(r, i)'
    BY <1>6 DEF WorksFor
  <2>3. \A r \in Alive : sessions'[r].handle = sessions[r].handle
    BY <1>8
  <2>4. \A r \in Session : callback[r] # B!NoId =>
              callback[r] = producer[r] /\ ~object[callback[r]].final
    BY DEF WInv, ThreadsInv, Producers
  <2>. QED BY <1>3, <1>4, <1>8, <2>1, <2>2, <2>3, <2>4 DEF Producers
<1>18. Held' /\ Gone'
  BY <1>0, <1>3, <1>4 DEF WInv, ThreadsInv, Held, Gone, Now, It, flags
<1>. QED BY <1>9, <1>12, <1>13, <1>14, <1>15, <1>16, <1>17, <1>18 DEF WInv, TablesInv,
  ThreadsInv

LEMMA StartKeeps == ASSUME WInv, P!Inv, Start PROVE WInv'
<1>0. todo # <<>> /\ It.do = "start" /\ Continue(<<>>)
  BY DEF Start, Now, It
<1>0a. \E i \in DOMAIN todo : todo[i].do \in Beginning
  BY <1>0, HeadStep DEF WInv, Beginning
<1>1. PICK s \in Session, k \in Stream : AtStart(s, k)
  BY <1>0, <1>0a, BeginningNow
<1>2. /\ k \in Running /\ ops[k].session = s
      /\ It = StartStep(s, k) /\ Tail(todo) = <<StartedStep(s, k)>>
      /\ sessions[s].handle.open
      /\ ~object[ops[k].native].started
      /\ s = It.s /\ k = It.k
  BY <1>1, StepKinds DEF AtStart
<1>3. PICK id : id = ops[k].native
  BY Zenon
<1>4. /\ producer[s] = B!NoId
      /\ B!StartBegin(id)
      /\ producer' = [producer EXCEPT ![s] = id]
      /\ sessions' = [sessions EXCEPT ![s].handle.said = Append(@, Ask(k))]
      /\ UNCHANGED <<engines, nextEngine, nextSession, ops, timer, flags, seen>>
  BY <1>2, <1>3, Zenon DEF Start
<1>5. /\ id \in operations
      /\ \A j \in B!Id : P!Lasting(j)
      /\ \A j \in B!Id : object'[j].final = object[j].final
      /\ object'[id].started
      /\ starting' = id
      /\ UNCHANGED <<operations, callback, held>>
  BY <1>4, StartCall
<1>6. s \in Alive /\ sessions[s] \in NativeSession /\ id \in B!Id
  BY <1>0, <1>2, <1>3, WorkedOn, Zenon
<1>7. /\ Alive' = Alive /\ Running' = Running
      /\ sessions'[s] \in NativeSession
      /\ sessions'[s].handle.open
      /\ sessions'[s].engineId = sessions[s].engineId
      /\ sessions'[s].streamId = sessions[s].streamId
      /\ sessions'[s].phase = sessions[s].phase
      /\ \A r \in Alive \ {s} : sessions'[r] = sessions[r]
  <2>1. /\ DOMAIN sessions' = DOMAIN sessions
        /\ sessions'[s] = [sessions[s] EXCEPT !.handle.said =
                             Append(sessions[s].handle.said, Ask(k))]
        /\ \A r \in Alive \ {s} : sessions'[r] = sessions[r]
    BY <1>4, <1>6 DEF Alive
  <2>2. Ask(k) \in Message
    BY DEF Ask, Message
  <2>3. /\ sessions[s].handle \in Handle
        /\ Append(sessions[s].handle.said, Ask(k)) \in Seq(Message)
    BY <1>6, <2>2 DEF NativeSession, Handle
  <2>4. DOMAIN ops' = DOMAIN ops
    BY <1>4
  <2>5. /\ sessions'[s].handle = [sessions[s].handle EXCEPT !.said =
                                    Append(sessions[s].handle.said, Ask(k))]
        /\ sessions'[s].engineId = sessions[s].engineId
        /\ sessions'[s].streamId = sessions[s].streamId
        /\ sessions'[s].phase = sessions[s].phase
    BY <1>6, <2>1 DEF NativeSession
  <2>6. /\ [sessions[s].handle EXCEPT !.said =
                Append(sessions[s].handle.said, Ask(k))] \in Handle
        /\ [sessions[s].handle EXCEPT !.said =
                Append(sessions[s].handle.said, Ask(k))].open = sessions[s].handle.open
    BY <2>3 DEF Handle
  <2>7. sessions'[s] \in NativeSession
    BY <1>6, <2>1, <2>6 DEF NativeSession
  <2>. QED BY <1>2, <2>1, <2>4, <2>5, <2>6, <2>7, Zenon DEF Alive, Running
<1>8. WorkerTypeOK'
  <2>1. producer' \in [Session -> B!Id \union {B!NoId}]
    BY <1>4, <1>6 DEF WInv, WorkerTypeOK
  <2>2. \A r \in Alive' : sessions'[r] \in NativeSession
    BY <1>7 DEF WInv, WorkerTypeOK
  <2>. QED BY <1>4, <1>7, <2>1, <2>2 DEF WInv, WorkerTypeOK, flags, seen
<1>9. todo' = <<StartedStep(s, k)>>
  BY <1>0, <1>2, NothingPushed, Zenon DEF WInv
<1>10. Begins(s, k)'
  BY <1>2, <1>3, <1>4, <1>5, <1>7, <1>9, Zenon DEF Begins
<1>11. StepsInv' /\ (todo \in Seq(Step))'
  BY <1>8, <1>10, BeginningSteps DEF WorkerTypeOK
<1>12. OperationsKnown'
  <2>1. ASSUME NEW j \in Running
        PROVE  LET r == ops[j].session
               IN  /\ r \in Alive' /\ sessions'[r].streamId = j
                   /\ sessions'[r].phase = IF ops[j].cancelRequested
                                           THEN "cancelRequested" ELSE "generating"
                   /\ sessions'[r].handle.open
                   /\ ended[j] = "no" /\ j < nextStream
                   /\ timer \/ j = k
    <3>1. LET r == ops[j].session
          IN  /\ r \in Alive /\ sessions[r].streamId = j
              /\ sessions[r].phase = IF ops[j].cancelRequested
                                     THEN "cancelRequested" ELSE "generating"
              /\ sessions[r].handle.open
              /\ ended[j] = "no" /\ j < nextStream
              /\ timer \/ j = k
      BY <1>0, <1>0a, <1>2, OthersRunning
    <3>2. CASE ops[j].session = s
      BY <1>7, <3>1, <3>2
    <3>3. CASE ops[j].session # s
      BY <1>7, <3>1, <3>3
    <3>. QED BY <3>2, <3>3
  <2>2. \E s1 \in Session :
          todo' \in {<<StartStep(s1, k), StartedStep(s1, k)>>, <<StartedStep(s1, k)>>}
    BY <1>9
  <2>. QED BY <1>4, <1>7, <2>1, <2>2 DEF OperationsKnown, seen
<1>13. SessionsKnown'
  <2>1. \A r \in Alive : /\ sessions'[r].streamId = sessions[r].streamId
                         /\ sessions'[r].phase = sessions[r].phase
                         /\ sessions'[r].engineId = sessions[r].engineId
    BY <1>7
  <2>. QED BY <1>4, <1>7, <2>1 DEF WInv, TablesInv, SessionsKnown
<1>14. Registered' /\ Streams'
  BY <1>4, <1>5, <1>7 DEF WInv, TablesInv, Registered, Streams, seen
<1>15. Producers'
  <2>1. ASSUME NEW r \in Session
        PROVE  /\ producer[r] \in B!Id \union {B!NoId}
               /\ callback[r] # B!NoId => callback[r] \in B!Id /\ r # s
               /\ r # s => producer'[r] = producer[r]
               /\ producer'[s] = id
    <3>1. callback[r] # B!NoId => callback[r] \in B!Id
      BY DEF P!Inv, P!TypeOK, P!Id, B!Id, P!NoId, B!NoId, Thread
    <3>2. callback[r] # B!NoId => callback[r] = producer[r]
      BY DEF WInv, ThreadsInv, Producers
    <3>3. producer \in [Session -> B!Id \union {B!NoId}]
      BY DEF WInv, WorkerTypeOK
    <3>. QED BY <1>4, <3>1, <3>2, <3>3
  <2>2. WorksFor(s, id)
    BY <1>2, <1>3 DEF WorksFor
  <2>4. ASSUME NEW r \in Session, producer'[r] # B!NoId
        PROVE  /\ r \in Alive'
               /\ sessions'[r].handle.open
               /\ object'[producer'[r]].started
               /\ object'[producer'[r]].final \/ producer'[r] \in operations'
               /\ producer'[r] \in operations' => WorksFor(r, producer'[r])
    <3>1. CASE r = s
      BY <1>5, <1>6, <1>7, <2>1, <2>2, <3>1
    <3>2. CASE r # s
      <4>1. producer'[r] = producer[r] /\ producer[r] \in B!Id
        BY <2>1, <2>4, <3>2
      <4>2. /\ r \in Alive /\ sessions[r].handle.open
            /\ object[producer[r]].started
            /\ object[producer[r]].final \/ producer[r] \in operations
            /\ producer[r] \in operations => WorksFor(r, producer[r])
        BY <2>4, <4>1 DEF WInv, ThreadsInv, Producers
      <4>. QED BY <1>5, <1>7, <3>2, <4>1, <4>2 DEF P!Lasting
    <3>. QED BY <3>1, <3>2
  <2>5. ASSUME NEW r \in Session, callback'[r] # B!NoId
        PROVE  callback'[r] = producer'[r] /\ ~object'[callback'[r]].final
    BY <1>5, <2>1, <2>5 DEF WInv, ThreadsInv, Producers
  <2>6. ASSUME NEW r \in Session
        PROVE  WorksFor(r, producer'[r]) => WorksFor(r, producer[r])'
    BY <1>4 DEF WorksFor, Running
  <2>. QED BY <2>4, <2>5, <2>6 DEF Producers
<1>16. Held' /\ Gone'
  BY <1>0, <1>4, <1>5 DEF WInv, ThreadsInv, Held, Gone, Now, It, flags
<1>. QED BY <1>8, <1>11, <1>12, <1>13, <1>14, <1>15, <1>16 DEF WInv, TablesInv, ThreadsInv

LEMMA StartThrowsKeeps == ASSUME WInv, P!Inv, StartThrows PROVE WInv'
<1>0. todo # <<>> /\ It.do = "start"
  BY DEF StartThrows, Now, It
<1>0a. \E i \in DOMAIN todo : todo[i].do \in Beginning
  BY <1>0, HeadStep DEF WInv, Beginning
<1>1. PICK s \in Session, k \in Stream : AtStart(s, k)
  BY <1>0, <1>0a, BeginningNow
<1>2. /\ k \in Running /\ ops[k].session = s
      /\ It = StartStep(s, k)
      /\ sessions[s].handle.open
      /\ ~object[ops[k].native].started
      /\ s = It.s /\ k = It.k
  <2>1. /\ k \in Running /\ ops[k].session = s
        /\ It = StartStep(s, k)
        /\ sessions[s].handle.open
        /\ ~object[ops[k].native].started
    BY <1>1 DEF AtStart
  <2>2. s = It.s /\ k = It.k
    BY <2>1 DEF StartStep
  <2>. QED BY <2>1, <2>2
<1>3. PICK id : id = ops[k].native
  OBVIOUS
<1>4. /\ B!lrlm_operation_delete(id)
      /\ ops' = Restrict(ops, Running \ {k})
      /\ sessions' = [sessions EXCEPT ![s].phase = "ready", ![s].streamId = NoStream]
      /\ ended' = [ended EXCEPT ![k] = "error"]
      /\ todo' = <<>>
      /\ UNCHANGED <<engines, nextEngine, nextSession, timer, flags, producer,
                     nextStream, nativeOf, tokens, askedCancel, completed>>
  BY <1>2, <1>3, Zenon DEF StartThrows, Abort
<1>5. /\ operations' = operations \ {id}
      /\ \A j \in B!Id : /\ object'[j].final = object[j].final
                         /\ object'[j].started = object[j].started
      /\ UNCHANGED <<callback, starting, held>>
  BY <1>4, DeleteCall
<1>6. /\ s \in Alive /\ sessions[s] \in NativeSession /\ id \in B!Id
      /\ sessions[s].streamId = k
  BY <1>0, <1>2, <1>3, WorkedOn
<1>7. Running' = Running \ {k} /\ \A j \in Running \ {k} : ops'[j] = ops[j]
  BY <1>4 DEF Running, Restrict
<1>8. /\ Alive' = Alive
      /\ sessions'[s] \in NativeSession
      /\ sessions'[s].handle = sessions[s].handle
      /\ sessions'[s].engineId = sessions[s].engineId
      /\ sessions'[s].streamId = NoStream /\ sessions'[s].phase = "ready"
      /\ \A r \in Alive \ {s} : sessions'[r] = sessions[r]
  <2>1. /\ DOMAIN sessions' = DOMAIN sessions
        /\ sessions'[s] = [sessions[s] EXCEPT !.phase = "ready", !.streamId = NoStream]
        /\ \A r \in Alive \ {s} : sessions'[r] = sessions[r]
    BY <1>4, <1>6 DEF Alive
  <2>. QED BY <1>6, <2>1 DEF NativeSession, Alive
<1>9. /\ ended' \in [Stream -> StreamEnd]
      /\ \A j \in Stream \ {k} : ended'[j] = ended[j]
      /\ ended'[k] = "error"
  <2>1. ended \in [Stream -> StreamEnd] /\ "error" \in StreamEnd
    BY DEF WInv, WorkerTypeOK, StreamEnd
  <2>. QED BY <1>4, <2>1
<1>10. WorkerTypeOK'
  BY <1>4, <1>7, <1>8, <1>9 DEF WInv, WorkerTypeOK, flags
<1>11. StepsInv' /\ (todo \in Seq(Step))'
  BY <1>4, NoStepsLeft
<1>12. OperationsKnown'
  <2>1. ASSUME NEW j \in Running \ {k}
        PROVE  LET r == ops[j].session
               IN  /\ r \in Alive /\ r # s
                   /\ sessions[r].streamId = j
                   /\ sessions[r].phase = IF ops[j].cancelRequested
                                          THEN "cancelRequested" ELSE "generating"
                   /\ sessions[r].handle.open
                   /\ ended[j] = "no" /\ j < nextStream /\ timer
    BY <1>0, <1>0a, <1>2, <1>6, OthersRunning
  <2>2. Running \subseteq Stream
    BY DEF WInv, WorkerTypeOK
  <2>3. ASSUME NEW j \in Running \ {k}
        PROVE  LET r == ops[j].session
               IN  /\ ops'[j] = ops[j] /\ r \in Alive'
                   /\ sessions'[r] = sessions[r]
                   /\ ended'[j] = "no" /\ j < nextStream' /\ timer'
    <3>1. PICK r : r = ops[j].session
      OBVIOUS
    <3>2. r \in Alive /\ r # s /\ ended[j] = "no" /\ j < nextStream /\ timer
      BY <2>1, <3>1
    <3>3. j # k /\ j \in Stream
      BY <2>2
    <3>4. ops'[j] = ops[j]
      BY <1>7
    <3>5. r \in Alive' /\ sessions'[r] = sessions[r]
      BY <1>8, <3>2
    <3>6. ended'[j] = "no" /\ j < nextStream' /\ timer'
      BY <1>4, <1>9, <3>2, <3>3
    <3>. QED BY <3>1, <3>4, <3>5, <3>6
  <2>. QED BY <1>7, <2>1, <2>3 DEF OperationsKnown
<1>13. SessionsKnown'
  <2>1. ASSUME NEW r \in Alive
        PROVE  /\ \/ /\ sessions'[r].streamId \in Running'
                     /\ ops'[sessions'[r].streamId].session = r
                  \/ sessions'[r].streamId = NoStream /\ sessions'[r].phase = "ready"
               /\ sessions'[r].engineId = sessions[r].engineId
    <3>1. CASE r = s
      BY <1>8, <3>1
    <3>2. CASE r # s
      <4>1. \/ /\ sessions[r].streamId \in Running \ {k}
               /\ ops[sessions[r].streamId].session = r
            \/ sessions[r].streamId = NoStream /\ sessions[r].phase = "ready"
        BY <1>2, <3>2 DEF WInv, TablesInv, SessionsKnown
      <4>. QED BY <1>7, <1>8, <3>2, <4>1
    <3>. QED BY <3>1, <3>2
  <2>2. \A r \in Alive : sessions[r].engineId \in engines /\ r < nextSession
    BY DEF WInv, TablesInv, SessionsKnown
  <2>3. UNCHANGED <<engines, nextSession>>
    BY <1>4
  <2>. QED BY <1>8, <2>1, <2>2, <2>3 DEF SessionsKnown
<1>14. Registered'
  BY <1>2, <1>3, <1>5, <1>7 DEF WInv, TablesInv, Registered
<1>15. Streams'
  <2>1. k < nextStream
    BY <1>2 DEF WInv, TablesInv, OperationsKnown
  <2>2. /\ \A j \in Stream : j >= nextStream => ended[j] = "no"
        /\ \A j \in askedCancel :
             /\ j \in Stream
             /\ j < nextStream
             /\ IF j \in Running THEN ops[j].cancelRequested ELSE ended[j] # "complete"
    BY DEF WInv, WorkerTypeOK, TablesInv, Streams
  <2>3. \A j \in Stream : j >= nextStream => j # k
    <3>1. nextStream \in Nat /\ k \in Nat
      BY DEF WInv, WorkerTypeOK, Stream
    <3>. QED BY <2>1, <3>1
  <2>4. \A j \in Stream : j >= nextStream' => ended'[j] = "no"
    BY <1>4, <1>9, <2>2, <2>3
  <2>5. ASSUME NEW j \in askedCancel'
        PROVE  /\ j < nextStream'
               /\ IF j \in Running' THEN ops'[j].cancelRequested ELSE ended'[j] # "complete"
    BY <1>4, <1>7, <1>9, <2>2
  <2>. QED BY <2>4, <2>5 DEF Streams
<1>16. Producers'
  <2>1. ASSUME NEW r \in Session, producer[r] # B!NoId
        PROVE  /\ producer[r] \in B!Id /\ producer[r] # id
               /\ r \in Alive
               /\ sessions[r].handle.open
               /\ object[producer[r]].started
               /\ object[producer[r]].final \/ producer[r] \in operations
               /\ producer[r] \in operations => WorksFor(r, producer[r])
    <3>1. producer[r] \in B!Id
      BY <2>1 DEF WInv, WorkerTypeOK
    <3>. QED BY <1>2, <1>3, <2>1, <3>1 DEF WInv, ThreadsInv, Producers
  <2>2. ASSUME NEW r \in Session, producer[r] # B!NoId, WorksFor(r, producer[r])
        PROVE  WorksFor(r, producer[r])'
    <3>1. PICK j \in Running : ops[j].native = producer[r] /\ ops[j].session = r
      BY <2>2 DEF WorksFor
    <3>2. j # k
      BY <1>3, <2>1, <2>2, <3>1
    <3>3. producer' = producer
      BY <1>4
    <3>. QED BY <1>7, <3>1, <3>2, <3>3 DEF WorksFor
  <2>3. ASSUME NEW r \in Session, producer'[r] # B!NoId
        PROVE  /\ r \in Alive'
               /\ sessions'[r].handle.open
               /\ object'[producer'[r]].started
               /\ object'[producer'[r]].final \/ producer'[r] \in operations'
               /\ producer'[r] \in operations' => WorksFor(r, producer[r])'
    <3>1. producer' = producer
      BY <1>4
    <3>2. \A t \in Alive : sessions'[t].handle = sessions[t].handle
      BY <1>8
    <3>. QED BY <1>5, <1>8, <2>1, <2>2, <2>3, <3>1, <3>2
  <2>4. ASSUME NEW r \in Session, callback'[r] # B!NoId
        PROVE  callback'[r] = producer'[r] /\ ~object'[callback'[r]].final
    <3>1. callback[r] \in B!Id
      BY <1>5, <2>4 DEF P!Inv, P!TypeOK, P!Id, B!Id, P!NoId, B!NoId, Thread
    <3>2. producer' = producer
      BY <1>4
    <3>. QED BY <1>5, <2>4, <3>1, <3>2 DEF WInv, ThreadsInv, Producers
  <2>. QED BY <2>3, <2>4 DEF Producers
<1>17. Held' /\ Gone'
  BY <1>0, <1>4, <1>5 DEF WInv, ThreadsInv, Held, Gone, Now, It, flags
<1>. QED BY <1>10, <1>11, <1>12, <1>13, <1>14, <1>15, <1>16, <1>17 DEF WInv, TablesInv,
  ThreadsInv

LEMMA StartedKeeps == ASSUME WInv, P!Inv, Started PROVE WInv'
<1>0. todo # <<>> /\ It.do = "started"
  BY DEF Started, Now, It
<1>0a. \E i \in DOMAIN todo : todo[i].do \in Beginning
  BY <1>0, HeadStep DEF WInv, Beginning
<1>1. PICK s \in Session, k \in Stream : AtStarted(s, k)
  BY <1>0, <1>0a, BeginningNow
<1>2. /\ k \in Running /\ ops[k].session = s
      /\ Tail(todo) = <<>>
      /\ starting = ops[k].native
      /\ s = It.s /\ k = It.k
  BY <1>1, StepKinds DEF AtStarted
<1>3. PICK id : id = ops[k].native
  OBVIOUS
<1>4. /\ \/ B!StartOk /\ UNCHANGED producer
         \/ /\ \E error \in ErrorSize : B!StartFailed(error)
            /\ callback[s] = B!NoId
            /\ producer' = [producer EXCEPT ![s] = B!NoId]
      /\ timer' = TRUE
      /\ Continue(<<PumpStep(Running)>>)
      /\ UNCHANGED <<engines, nextEngine, sessions, nextSession, ops, flags, seen>>
  BY <1>2 DEF Started
<1>5. s \in Alive /\ id \in B!Id /\ id \in operations
  <2>1. s \in Alive /\ id \in B!Id
    BY <1>0, <1>2, <1>3, WorkedOn
  <2>2. id \in operations
    BY <1>2, <1>3 DEF WInv, TablesInv, Registered
  <2>. QED BY <2>1, <2>2
<1>6. /\ \A j \in B!Id : P!Lasting(j)
      /\ \A j \in B!Id \ {id} : object'[j] = object[j]
      /\ UNCHANGED <<operations, callback, held>>
      /\ object'[id].final # object[id].final =>
            /\ callback[s] = B!NoId
            /\ producer' = [producer EXCEPT ![s] = B!NoId]
      /\ producer' = producer \/ producer' = [producer EXCEPT ![s] = B!NoId]
      /\ producer' # producer => callback[s] = B!NoId
  <2>1. CASE B!StartOk /\ UNCHANGED producer
    BY <2>1 DEF B!StartOk, P!Lasting
  <2>2. CASE /\ \E error \in ErrorSize : B!StartFailed(error)
             /\ callback[s] = B!NoId
             /\ producer' = [producer EXCEPT ![s] = B!NoId]
    BY <1>2, <1>3, <2>2, StartFailedCall
  <2>. QED BY <1>4, <2>1, <2>2
<1>7. Alive' = Alive /\ Running' = Running /\ sessions' = sessions /\ ops' = ops
  BY <1>4 DEF Alive, Running
<1>8. WorkerTypeOK'
  <2>1. producer \in [Session -> B!Id \union {B!NoId}]
    BY DEF WInv, WorkerTypeOK
  <2>2. producer' \in [Session -> B!Id \union {B!NoId}]
    BY <1>6, <2>1
  <2>. QED BY <1>4, <1>7, <2>2 DEF WInv, WorkerTypeOK, flags, seen
<1>. DEFINE step == PumpStep(Running)
<1>9. step \in Step /\ step.do = "pump" /\ step.ks = Running
  <2>1. step \in Step
    BY StepsTyped DEF WInv, WorkerTypeOK
  <2>. QED BY <2>1 DEF PumpStep
<1>10. todo' = <<step>> /\ todo' \in Seq(Step)
  <2>1. todo' = <<step>> \o Tail(todo)
    BY <1>4 DEF Continue
  <2>. HIDE DEF step
  <2>2. <<step>> \in Seq(Step)
    BY <1>9
  <2>3. <<step>> \o <<>> = <<step>>
    BY <1>9
  <2>. QED BY <1>2, <2>1, <2>2, <2>3
<1>. HIDE DEF step
<1>11. /\ DOMAIN todo' = {1} /\ todo'[1] = step
       /\ Ordered' /\ OneSubject' /\ BeginningSound'
  BY <1>9, <1>10, OneStep DEF Beginning
<1>12. StepsLive' /\ StepsSound'
  <2>1. StepsLive'
    BY <1>9, <1>11 DEF StepsLive, At, OnOperation
  <2>2. ASSUME NEW i \in DOMAIN todo'
        PROVE  /\ CancelOK(i)' /\ JoinOK(i)' /\ FinishOK(i)' /\ RetireOK(i)'
               /\ ForgetOK(i)' /\ UseOK(i)' /\ EngineOK(i)' /\ CloseOK(i)'
    BY <1>9, <1>11 DEF CancelOK, JoinOK, FinishOK, RetireOK, ForgetOK, UseOK, EngineOK, CloseOK,
      At
  <2>3. ASSUME NEW i \in DOMAIN todo'
        PROVE  PumpOK(i)'
    BY <1>7, <1>9, <1>11 DEF PumpOK, At, OnOperation
  <2>. QED BY <2>1, <2>2, <2>3 DEF StepsSound
<1>13. OperationsKnown'
  <2>1. ASSUME NEW j \in Running
        PROVE  LET r == ops[j].session
               IN  /\ r \in Alive /\ sessions[r].streamId = j
                   /\ sessions[r].phase = IF ops[j].cancelRequested
                                          THEN "cancelRequested" ELSE "generating"
                   /\ sessions[r].handle.open
                   /\ ended[j] = "no" /\ j < nextStream
    BY <1>0, <1>0a, OthersRunning
  <2>2. UNCHANGED <<ended, nextStream>> /\ timer'
    BY <1>4 DEF seen
  <2>. QED BY <1>7, <2>1, <2>2 DEF OperationsKnown
<1>14. SessionsKnown' /\ Registered' /\ Streams'
  BY <1>4, <1>6, <1>7 DEF WInv, TablesInv, SessionsKnown, Registered, Streams, seen
<1>15. Producers'
  <2>1. ASSUME NEW r \in Session
        PROVE  /\ producer'[r] # B!NoId => producer'[r] = producer[r] /\ producer[r] \in B!Id
               /\ callback[r] # B!NoId => /\ producer'[r] = producer[r]
                                          /\ callback[r] = producer[r]
                                          /\ ~object[callback[r]].final
    <3>1. producer \in [Session -> B!Id \union {B!NoId}]
      BY DEF WInv, WorkerTypeOK
    <3>2. callback[r] # B!NoId => /\ callback[r] = producer[r]
                                  /\ ~object[callback[r]].final
      BY DEF WInv, ThreadsInv, Producers
    <3>3. CASE producer' = producer
      BY <3>1, <3>2, <3>3
    <3>4. CASE producer' = [producer EXCEPT ![s] = B!NoId]
      <4>1. \A q \in Session : q # s => producer'[q] = producer[q]
        BY <3>1, <3>4
      <4>2. producer'[s] = B!NoId
        BY <3>1, <3>4
      <4>3. callback[s] # B!NoId => producer' = producer
        BY <1>6
      <4>. QED BY <3>1, <3>2, <4>1, <4>2, <4>3
    <3>. QED BY <1>6, <3>3, <3>4
  <2>2. ASSUME NEW r \in Session, producer'[r] # B!NoId
        PROVE  /\ r \in Alive'
               /\ sessions'[r].handle.open
               /\ object'[producer'[r]].started
               /\ object'[producer'[r]].final \/ producer'[r] \in operations'
               /\ producer'[r] \in operations' => WorksFor(r, producer[r])'
    <3>1. producer'[r] = producer[r] /\ producer[r] \in B!Id
      BY <2>1, <2>2
    <3>2. /\ r \in Alive /\ sessions[r].handle.open
          /\ object[producer[r]].started
          /\ object[producer[r]].final \/ producer[r] \in operations
          /\ producer[r] \in operations => WorksFor(r, producer[r])
      BY <2>2, <3>1 DEF WInv, ThreadsInv, Producers
    <3>3. WorksFor(r, producer[r]) => WorksFor(r, producer[r])'
      BY <1>7, <3>1 DEF WorksFor
    <3>. QED BY <1>6, <1>7, <3>1, <3>2, <3>3 DEF P!Lasting
  <2>3. ASSUME NEW r \in Session, callback'[r] # B!NoId
        PROVE  callback'[r] = producer'[r] /\ ~object'[callback'[r]].final
    <3>1. /\ callback'[r] = callback[r] /\ callback[r] = producer[r]
          /\ producer'[r] = producer[r] /\ ~object[callback[r]].final
      BY <1>6, <2>1, <2>3
    <3>2. callback[r] \in B!Id
      BY <2>1, <2>3, <3>1
    <3>3. CASE callback[r] # id
      BY <1>6, <3>1, <3>2, <3>3
    <3>4. CASE callback[r] = id
      <4>1. WorksFor(r, id)
        BY <1>5, <2>1, <2>3, <3>1, <3>4 DEF WInv, ThreadsInv, Producers
      <4>2. PICK j \in Running : ops[j].native = id /\ ops[j].session = r
        BY <4>1 DEF WorksFor
      <4>3. j = k
        BY <1>2, <1>3, <4>2 DEF WInv, TablesInv, Registered
      <4>4. r = s
        BY <1>2, <4>2, <4>3
      <4>5. object'[id].final = object[id].final
        BY <1>6, <2>3, <3>1, <4>4
      <4>. QED BY <3>1, <3>4, <4>5
    <3>. QED BY <3>3, <3>4
  <2>. QED BY <2>2, <2>3 DEF Producers
<1>16. Held' /\ Gone'
  BY <1>0, <1>4, <1>6 DEF WInv, ThreadsInv, Held, Gone, Now, It, flags
<1>. QED BY <1>8, <1>10, <1>11, <1>12, <1>13, <1>14, <1>15, <1>16 DEF WInv, StepsInv, TablesInv,
  ThreadsInv

-----------------------------------------------------------------------------
(* The runtime's threads, between two steps of a handler. *)

Kept ==
    /\ Alive' = Alive
    /\ \A s \in Alive : /\ sessions'[s].handle.open = sessions[s].handle.open
                        /\ sessions'[s].streamId = sessions[s].streamId
                        /\ sessions'[s].phase = sessions[s].phase
                        /\ sessions'[s].engineId = sessions[s].engineId
    /\ \A j \in B!Id : object[j].final => object'[j].final
    /\ \A k \in Running : object'[ops[k].native].started => object[ops[k].native].started
    /\ UNCHANGED <<todo, ops, engines, nextSession, nextStream, timer, ended, askedCancel,
                   operations, starting, held, exited>>

LEMMA KeptSteps ==
  ASSUME WInv, Kept
  PROVE  StepsInv' /\ (todo \in Seq(Step))' /\ TablesInv' /\ Held' /\ Gone'
<1>1. /\ todo' = todo /\ ops' = ops /\ Running' = Running /\ Alive' = Alive
      /\ engines' = engines
  BY DEF Kept, Running
<1>2. Ordered' /\ OneSubject' /\ StepsLive'
  BY <1>1 DEF WInv, StepsInv, Ordered, OneSubject, StepsLive, SubjectOf, At
<1>3. /\ \A k : AboutToEnd(k)' <=> AboutToEnd(k)
      /\ \A s : JoinAhead(s)' <=> JoinAhead(s)
      /\ \A i, does : At(i, does)' <=> At(i, does)
  BY <1>1 DEF AboutToEnd, JoinAhead, At
<1>4. \A i \in DOMAIN todo : At(i, OnOperation) =>
        /\ todo[i].k \in Running
        /\ ops[todo[i].k].native \in B!Id
        /\ HandleOf(todo[i].k)'.open = HandleOf(todo[i].k).open
  <2>1. ASSUME NEW i \in DOMAIN todo, At(i, OnOperation)
        PROVE  /\ todo[i].k \in Running
               /\ ops[todo[i].k].native \in B!Id
               /\ HandleOf(todo[i].k)'.open = HandleOf(todo[i].k).open
    <3>1. PICK k \in Running : k = todo[i].k
      BY <2>1 DEF WInv, StepsInv, StepsLive
    <3>2. todo # <<>>
      OBVIOUS
    <3>3. ops[k].session \in Alive /\ ops[k].native \in B!Id
      BY <3>2, WorkedOn
    <3>4. HandleOf(k)'.open = HandleOf(k).open
      BY <1>1, <3>3 DEF HandleOf, Kept
    <3>. QED BY <1>1, <3>1, <3>3, <3>4
  <2>. QED BY <2>1
<1>5. \A j \in B!Id : object[j].final => object'[j].final
  BY DEF Kept
<1>6. ASSUME NEW i \in DOMAIN todo
      PROVE  /\ CancelOK(i)' /\ JoinOK(i)' /\ FinishOK(i)' /\ RetireOK(i)' /\ ForgetOK(i)'
             /\ UseOK(i)' /\ PumpOK(i)' /\ EngineOK(i)' /\ CloseOK(i)'
  <2>0. /\ CancelOK(i) /\ JoinOK(i) /\ FinishOK(i) /\ RetireOK(i) /\ ForgetOK(i)
        /\ UseOK(i) /\ PumpOK(i) /\ EngineOK(i) /\ CloseOK(i)
    BY DEF WInv, StepsInv, StepsSound
  <2>1. CancelOK(i)'
    BY <1>1, <1>4, <2>0 DEF CancelOK, At, OnOperation
  <2>2. JoinOK(i)'
    BY <1>1, <1>3, <2>0 DEF JoinOK, At, Kept
  <2>3. FinishOK(i)'
    BY <1>1, <1>4, <1>5, <2>0 DEF FinishOK, At, OnOperation
  <2>4. RetireOK(i)'
    BY <1>1, <1>4, <1>5, <2>0 DEF RetireOK, At, OnOperation
  <2>5. ForgetOK(i)'
    BY <1>1, <1>3, <2>0 DEF ForgetOK, At, Kept
  <2>6. UseOK(i)'
    BY <1>1, <1>4, <1>5, <2>0 DEF UseOK, At, OnOperation, Kept
  <2>7. PumpOK(i)'
    BY <1>1, <2>0 DEF PumpOK, At
  <2>8. EngineOK(i)'
    BY <1>1, <2>0 DEF EngineOK, At, Kept
  <2>9. CloseOK(i)'
    BY <1>1, <2>0 DEF CloseOK, At
  <2>. QED BY <2>1, <2>2, <2>3, <2>4, <2>5, <2>6, <2>7, <2>8, <2>9
<1>7. StepsSound'
  BY <1>1, <1>6 DEF StepsSound
<1>8. BeginningSound'
  <2>1. ASSUME NEW s \in Session, NEW k \in Stream, Begins(s, k)
        PROVE  Begins(s, k)'
    <3>1. Requested(s, k) => Requested(s, k)'
      BY <1>1 DEF Requested, Kept
    <3>2. s \in Alive => (sessions'[s].handle.open <=> sessions[s].handle.open)
      BY DEF Kept
    <3>3. k \in Running /\ ops[k].session = s => s \in Alive
      BY DEF WInv, TablesInv, OperationsKnown
    <3>4. Requested(s, k) => s \in Alive
      BY DEF Requested
    <3>5. k \in Running /\ ~object[ops[k].native].started => ~object'[ops[k].native].started
      BY DEF Kept
    <3>6. starting' = starting
      BY DEF Kept
    <3>7. CASE Requested(s, k)
      BY <1>1, <2>1, <3>1, <3>2, <3>4, <3>5, <3>6, <3>7, <3>3 DEF Begins
    <3>8. CASE ~Requested(s, k)
      <4>1. /\ k \in Running /\ ops[k].session = s
            /\ \/ /\ todo = <<StartStep(s, k), StartedStep(s, k)>>
                  /\ sessions[s].handle.open
                  /\ ~object[ops[k].native].started
               \/ /\ todo = <<StartedStep(s, k)>>
                  /\ starting = ops[k].native
        BY <2>1, <3>8 DEF Begins
      <4>. QED BY <1>1, <3>2, <3>3, <3>5, <3>6, <4>1 DEF Begins
    <3>. QED BY <3>7, <3>8
  <2>. QED BY <1>1, <2>1 DEF WInv, StepsInv, BeginningSound, At
<1>9. OperationsKnown'
  BY <1>1, <1>3 DEF WInv, TablesInv, OperationsKnown, Kept
<1>10. SessionsKnown'
  BY <1>1 DEF WInv, TablesInv, SessionsKnown, Kept
<1>11. Registered' /\ Streams'
  BY <1>1 DEF WInv, TablesInv, Registered, Streams, Kept
<1>12. Held' /\ Gone'
  BY <1>1 DEF WInv, ThreadsInv, Held, Gone, Now, Kept
<1>. QED BY <1>1, <1>2, <1>7, <1>8, <1>9, <1>10, <1>11, <1>12 DEF WInv, StepsInv, TablesInv

LEMMA RuntimeFindKeeps ==
  ASSUME WInv, P!Inv, NEW s \in Session, RuntimeFind(s)
  PROVE  WInv'
<1>1. /\ producer[s] # B!NoId /\ ~object[producer[s]].final
      /\ callback' = [callback EXCEPT ![s] = producer[s]]
      /\ UNCHANGED <<operations, object, starting, held, worker, producer>>
  BY DEF RuntimeFind, B!CallbackFind
<1>2. /\ UNCHANGED <<engines, nextEngine, sessions, nextSession, ops, timer, todo,
                     fatalExit, exited, nextStream, nativeOf, tokens, ended,
                     askedCancel, completed>>
  BY <1>1 DEF worker, tables, flags, seen
<1>3. Alive' = Alive /\ Running' = Running
  BY <1>2 DEF Alive, Running
<1>4. Kept
  BY <1>1, <1>2, <1>3 DEF Kept
<1>5. WorkerTypeOK'
  BY <1>1, <1>2, <1>3 DEF WInv, WorkerTypeOK
<1>6. Producers'
  <2>1. callback \in [Session -> B!Id \union {B!NoId}]
    BY DEF P!Inv, P!TypeOK, P!Id, B!Id, P!NoId, B!NoId, Thread
  <2>2. \A r \in Session : callback'[r] = IF r = s THEN producer[s] ELSE callback[r]
    BY <1>1, <2>1
  <2>. QED BY <1>1, <1>2, <1>3, <2>2 DEF WInv, ThreadsInv, Producers, WorksFor
<1>. QED BY <1>4, <1>5, <1>6, KeptSteps DEF WInv, ThreadsInv

LEMMA RuntimeEndKeeps ==
  ASSUME WInv, P!Inv, NEW s \in Session, RuntimeEnd(s)
  PROVE  WInv'
<1>1. /\ callback[s] = B!NoId
      /\ producer' = [producer EXCEPT ![s] = B!NoId]
      /\ UNCHANGED <<operations, object, callback, starting, held>>
      /\ UNCHANGED <<engines, nextEngine, sessions, nextSession, ops, timer, todo,
                     fatalExit, exited, nextStream, nativeOf, tokens, ended,
                     askedCancel, completed>>
  BY DEF RuntimeEnd, worker, tables, flags, seen, bridge
<1>2. Alive' = Alive /\ Running' = Running
  BY <1>1 DEF Alive, Running
<1>3. Kept
  BY <1>1, <1>2 DEF Kept
<1>4. producer' \in [Session -> B!Id \union {B!NoId}]
  BY <1>1 DEF WInv, WorkerTypeOK
<1>5. WorkerTypeOK'
  BY <1>1, <1>2, <1>4 DEF WInv, WorkerTypeOK
<1>6. Producers'
  <2>1. \A r \in Session : producer'[r] = IF r = s THEN B!NoId ELSE producer[r]
    BY <1>1 DEF WInv, WorkerTypeOK
  <2>. QED BY <1>1, <1>2, <2>1 DEF WInv, ThreadsInv, Producers, WorksFor
<1>. QED BY <1>3, <1>5, <1>6, KeptSteps DEF WInv, ThreadsInv

LEMMA RuntimeRunKeeps ==
  ASSUME WInv, P!Inv, NEW s \in Session, NEW chunk \in B!Chunk, RuntimeRun(s, chunk)
  PROVE  WInv'
<1>1. PICK id : id = callback[s]
  OBVIOUS
<1>2. /\ B!CallbackRun(s, chunk)
      /\ \/ UNCHANGED sessions
         \/ s \in Alive /\ sessions' = [sessions EXCEPT ![s].handle.said =
                             Append(@, Reply(sessions[s].streamId))]
      /\ UNCHANGED <<engines, nextEngine, nextSession, ops, timer, todo, fatalExit, exited,
                     nextStream, nativeOf, tokens, ended, askedCancel, completed, producer>>
  BY DEF RuntimeRun, flags, seen
<1>3. /\ id \in B!Id /\ id # B!NoId
      /\ \A j \in B!Id : P!Lasting(j)
      /\ \A j \in B!Id \ {id} : object'[j] = object[j]
      /\ callback' = [callback EXCEPT ![s] = B!NoId]
      /\ UNCHANGED <<operations, starting, held>>
  <2>1. s \in Thread
    BY DEF Thread
  <2>. QED BY <1>1, <1>2, <2>1, RunCall
<1>4. /\ id = producer[s] /\ ~object[id].final
      /\ object[id].started /\ id \in operations /\ s \in Alive
  BY <1>1, <1>3 DEF WInv, ThreadsInv, Producers
<1>5. PICK k \in Running : ops[k].native = id /\ ops[k].session = s
  BY <1>1, <1>3, <1>4 DEF WInv, ThreadsInv, Producers, WorksFor
<1>6. sessions[s].streamId = k /\ k \in Stream /\ sessions[s] \in NativeSession
  BY <1>4, <1>5 DEF WInv, WorkerTypeOK, TablesInv, OperationsKnown
<1>7. /\ Alive' = Alive /\ Running' = Running
      /\ \A r \in Alive : /\ sessions'[r] \in NativeSession
                          /\ sessions'[r].handle.open = sessions[r].handle.open
                          /\ sessions'[r].streamId = sessions[r].streamId
                          /\ sessions'[r].phase = sessions[r].phase
                          /\ sessions'[r].engineId = sessions[r].engineId
  <2>1. CASE UNCHANGED sessions
    BY <1>2, <2>1 DEF Alive, Running, WInv, WorkerTypeOK
  <2>2. CASE sessions' = [sessions EXCEPT ![s].handle.said = Append(@, Reply(k))]
    <3>1. /\ DOMAIN sessions' = DOMAIN sessions
          /\ sessions'[s] = [sessions[s] EXCEPT !.handle.said =
                               Append(sessions[s].handle.said, Reply(k))]
          /\ \A r \in Alive \ {s} : sessions'[r] = sessions[r]
      BY <1>4, <2>2 DEF Alive
    <3>2. Reply(k) \in Message
      BY <1>6 DEF Reply, Message
    <3>3. /\ sessions[s].handle \in Handle
          /\ Append(sessions[s].handle.said, Reply(k)) \in Seq(Message)
      BY <1>6, <3>2 DEF NativeSession, Handle
    <3>4. /\ sessions'[s].handle = [sessions[s].handle EXCEPT !.said =
                                      Append(sessions[s].handle.said, Reply(k))]
          /\ sessions'[s].engineId = sessions[s].engineId
          /\ sessions'[s].streamId = sessions[s].streamId
          /\ sessions'[s].phase = sessions[s].phase
      BY <1>6, <3>1 DEF NativeSession
    <3>5. /\ [sessions[s].handle EXCEPT !.said =
                  Append(sessions[s].handle.said, Reply(k))] \in Handle
          /\ [sessions[s].handle EXCEPT !.said =
                  Append(sessions[s].handle.said, Reply(k))].open = sessions[s].handle.open
      BY <3>3 DEF Handle
    <3>6. sessions'[s] \in NativeSession
      BY <1>6, <3>1, <3>5 DEF NativeSession
    <3>7. \A r \in Alive \ {s} : sessions[r] \in NativeSession
      BY DEF WInv, WorkerTypeOK
    <3>. QED BY <1>2, <3>1, <3>4, <3>5, <3>6, <3>7 DEF Alive, Running
  <2>. QED BY <1>2, <1>6, <2>1, <2>2
<1>8. Kept
  <2>1. \A j \in B!Id : object[j].final => object'[j].final
    BY <1>3 DEF P!Lasting
  <2>2. ASSUME NEW j \in Running
        PROVE  object'[ops[j].native].started => object[ops[j].native].started
    <3>1. ops[j].native \in B!Id
      BY DEF WInv, WorkerTypeOK, NativeOperation
    <3>. QED BY <1>3, <1>4, <3>1
  <2>. QED BY <1>2, <1>3, <1>7, <2>1, <2>2 DEF Kept
<1>9. WorkerTypeOK'
  BY <1>2, <1>7 DEF WInv, WorkerTypeOK
<1>10. Producers'
  <2>1. /\ callback \in [Session -> B!Id \union {B!NoId}]
        /\ producer \in [Session -> B!Id \union {B!NoId}]
    BY DEF P!Inv, P!TypeOK, P!Id, B!Id, P!NoId, B!NoId, Thread, WInv, WorkerTypeOK
  <2>2. ASSUME NEW r \in Session, callback'[r] # B!NoId
        PROVE  callback'[r] = producer'[r] /\ ~object'[callback'[r]].final
    <3>1. r # s /\ callback'[r] = callback[r]
      BY <1>3, <2>1, <2>2
    <3>2. callback[r] = producer[r] /\ ~object[callback[r]].final
      BY <2>2, <3>1 DEF WInv, ThreadsInv, Producers
    <3>3. callback[r] # id
      <4>1. SUFFICES ASSUME callback[r] = id PROVE FALSE
        OBVIOUS
      <4>2. WorksFor(r, id)
        BY <1>3, <1>4, <3>2, <4>1 DEF WInv, ThreadsInv, Producers
      <4>. QED BY <1>5, <3>1, <4>2 DEF WorksFor, WInv, TablesInv, Registered
    <3>4. object'[callback[r]] = object[callback[r]]
      BY <1>3, <2>1, <2>2, <3>1, <3>3
    <3>5. producer' = producer
      BY <1>2
    <3>. QED BY <3>1, <3>2, <3>4, <3>5
  <2>3. ASSUME NEW r \in Session, producer'[r] # B!NoId
        PROVE  /\ r \in Alive'
               /\ sessions'[r].handle.open
               /\ object'[producer'[r]].started
               /\ object'[producer'[r]].final \/ producer'[r] \in operations'
               /\ producer'[r] \in operations' => WorksFor(r, producer[r])'
    <3>1. producer' = producer /\ operations' = operations /\ producer[r] \in B!Id
      BY <1>2, <1>3, <2>1, <2>3
    <3>2. /\ r \in Alive /\ sessions[r].handle.open
          /\ object[producer[r]].started
          /\ object[producer[r]].final \/ producer[r] \in operations
          /\ producer[r] \in operations => WorksFor(r, producer[r])
      BY <2>3, <3>1 DEF WInv, ThreadsInv, Producers
    <3>3. WorksFor(r, producer[r]) => WorksFor(r, producer[r])'
      BY <1>2, <1>7, <3>1 DEF WorksFor
    <3>4. P!Lasting(producer[r])
      BY <1>3, <3>1
    <3>. QED BY <1>7, <3>1, <3>2, <3>3, <3>4 DEF P!Lasting
  <2>. QED BY <2>2, <2>3 DEF Producers
<1>. QED BY <1>8, <1>9, <1>10, KeptSteps DEF WInv, ThreadsInv

-----------------------------------------------------------------------------
(* The invariant is inductive. *)

LEMMA CommandKeeps == ASSUME WInv, P!Inv, Command PROVE WInv'
<1>. fatalExit \in BOOLEAN
  BY DEF WInv, WorkerTypeOK
<1>1. CASE _loadEngine
  BY <1>1, LoadEngineKeeps
<1>2. CASE close
  BY <1>2, CloseKeeps DEF close
<1>3. CASE testCrash
  BY <1>3, CloseKeeps DEF testCrash
<1>4. ASSUME NEW e \in Engine, NEW conversation \in Conversation,
             NEW configured \in Configured,
             _createSession(e, conversation, Prompt(configured))
      PROVE  WInv'
  BY <1>4, PromptTyped, CreateSessionKeeps
<1>5. ASSUME NEW e \in Engine, disposeEngine(e) PROVE WInv'
  BY <1>5, DisposeEngineKeeps
<1>6. ASSUME NEW s \in Session, _budget(s) PROVE WInv'
  BY <1>6, BudgetKeeps
<1>7. ASSUME NEW s \in Session, GenerateRefused(s) PROVE WInv'
  BY <1>7, RefusedKeeps
<1>8. ASSUME NEW s \in Session, NEW batch \in BOOLEAN, _generate(s, batch)
      PROVE  WInv'
  BY <1>8, GenerateKeeps
<1>9. ASSUME NEW s \in Session, cancelSession(s) PROVE WInv'
  BY <1>9, CancelBegins DEF cancelSession
<1>10. ASSUME NEW s \in Session, disposeSession(s) PROVE WInv'
  BY <1>10, DisposeSessionKeeps
<1>11. ASSUME NEW k \in Stream, credit(k) PROVE WInv'
  BY <1>11, CreditKeeps
<1>12. ASSUME NEW k \in Stream, cancelStream(k) PROVE WInv'
  BY <1>12, CancelBegins DEF cancelStream
<1>. QED BY <1>1, <1>2, <1>3, <1>4, <1>5, <1>6, <1>7, <1>8, <1>9, <1>10, <1>11, <1>12 DEF
  Command

LEMMA HandlerKeeps == ASSUME WInv, P!Inv, HandlerStep PROVE WInv'
BY DeleteHandleKeeps, ReopenKeeps, AbandonedKeeps, CreateOperationKeeps, StartKeeps,
  StartThrowsKeeps, StartedKeeps, CancelKeeps, PumpKeeps, PollKeeps, TakeKeeps, UseKeeps,
  FinishDiscardsKeeps, FinishCommitsKeeps, FinishThrowsKeeps, RetireKeeps, SettleKeeps,
  ForgetKeeps, DisposeNextKeeps, DeleteEngineKeeps, CloseNextKeeps, ExitKeeps DEF HandlerStep

LEMMA RuntimeKeeps == ASSUME WInv, P!Inv, Runtime PROVE WInv'
<1>1. ASSUME NEW s \in Session, RuntimeFind(s) PROVE WInv'
  BY <1>1, RuntimeFindKeeps
<1>2. ASSUME NEW s \in Session, NEW chunk \in B!Chunk, RuntimeRun(s, chunk)
      PROVE  WInv'
  BY <1>2, RuntimeRunKeeps
<1>3. ASSUME NEW s \in Session, RuntimeEnd(s) PROVE WInv'
  BY <1>3, RuntimeEndKeeps
<1>. QED BY <1>1, <1>2, <1>3 DEF Runtime

LEMMA StutterKeeps == ASSUME WInv, UNCHANGED vars PROVE WInv'
<1>1. UNCHANGED <<next_id, operations, object, callback, starting, held, live_events,
                  texts, read, outcome, engines, nextEngine, sessions, nextSession,
                  ops, timer, todo, fatalExit, exited, producer, nextStream, nativeOf,
                  tokens, ended, askedCancel, completed>>
  BY DEF vars, bridge, tables, flags, seen
<1>2. Alive' = Alive /\ Running' = Running
  BY <1>1 DEF Alive, Running
<1>3. Kept
  BY <1>1, <1>2 DEF Kept
<1>4. WorkerTypeOK'
  BY <1>1, <1>2 DEF WInv, WorkerTypeOK
<1>5. Producers'
  BY <1>1, <1>2 DEF WInv, ThreadsInv, Producers, WorksFor
<1>. QED BY <1>3, <1>4, <1>5, KeptSteps DEF WInv, ThreadsInv

LEMMA StepKeeps == WInv /\ P!Inv /\ [Next]_vars => WInv'
<1>. SUFFICES ASSUME WInv, P!Inv, [Next]_vars PROVE WInv'
  OBVIOUS
<1>1. CASE Command
  BY <1>1, CommandKeeps
<1>2. CASE Tick
  BY <1>2, TickKeeps
<1>3. CASE HandlerStep
  BY <1>3, HandlerKeeps
<1>4. CASE Runtime
  BY <1>4, RuntimeKeeps
<1>5. CASE UNCHANGED vars
  BY <1>5, StutterKeeps
<1>. QED BY <1>1, <1>2, <1>3, <1>4, <1>5 DEF Next

\* The worker's tables, the steps its handler has left, the runtime's threads and
\* the bridge agree in every state, in the middle of a handler too.
THEOREM WorkerInvariant == Spec => [](P!Inv /\ WInv)
<1>1. Init => P!Inv /\ WInv
  BY BridgeInit, InitWorker DEF Init
<1>2. P!Inv /\ WInv /\ [Next]_vars => (P!Inv /\ WInv)'
  BY BridgeKept, StepKeeps
<1>. QED BY <1>1, <1>2, PTL DEF Spec

-----------------------------------------------------------------------------
(* What the worker must never do. *)

\* Between two handlers the worker's maps say the same of every stream, session
\* and native operation, nothing is forgotten in the bridge's registry, and the
\* timer exists while there is something to pump: for every number of engines,
\* sessions and streams, and every way the runtime and the commands interleave.
THEOREM TablesAlwaysAgree == Spec => []TablesAgree
<1>1. WInv => TablesAgree
  <2>. SUFFICES ASSUME WInv PROVE TablesAgree
    OBVIOUS
  <2>1. WorkerTypeOK
    BY DEF WInv
  <2>2. ASSUME todo = <<>>, NEW k \in Running
        PROVE  /\ ops[k].session \in Alive
               /\ sessions[ops[k].session].streamId = k
               /\ sessions[ops[k].session].phase =
                     IF ops[k].cancelRequested THEN "cancelRequested"
                     ELSE "generating"
               /\ HandleOf(k).open
               /\ ended[k] = "no"
    BY <2>2, Settled DEF HandleOf, WInv, TablesInv, OperationsKnown
  <2>3. \A s \in Alive : \/ sessions[s].streamId \in Running
                         \/ /\ sessions[s].streamId = NoStream
                            /\ sessions[s].phase = "ready"
    BY DEF WInv, TablesInv, SessionsKnown
  <2>4. operations = {ops[k].native : k \in Running}
    BY DEF WInv, TablesInv, Registered
  <2>5. todo = <<>> => held = B!NoEvent
    BY DEF WInv, ThreadsInv, Held, Now
  <2>6. ASSUME todo = <<>>, NEW k \in Running
        PROVE  timer
    <3>1. \/ timer
          \/ \E s1 \in Session : todo \in {<<StartStep(s1, k), StartedStep(s1, k)>>,
                                           <<StartedStep(s1, k)>>}
      BY DEF WInv, TablesInv, OperationsKnown
    <3>. QED BY <2>6, <3>1
  <2>. QED BY <2>1, <2>2, <2>3, <2>4, <2>5, <2>6 DEF TablesAgree
<1>. QED BY <1>1, WorkerInvariant, PTL

\* No step of a handler, however deep the calls it is nested in, is about an
\* operation, a session, an engine or a native handle that a step before it let
\* go: _cancel, the native start and _finish find the handle they use, and no
\* handle outlives its engine.
THEOREM NeverUsedAfterDelete == Spec => []NoUseAfterDelete
<1>1. WInv => NoUseAfterDelete
  <2>. SUFFICES ASSUME WInv PROVE NoUseAfterDelete
    OBVIOUS
  <2>1. ASSUME NEW do, Now(do)
        PROVE  /\ todo # <<>> /\ It.do = do
               /\ 1 \in DOMAIN todo /\ It = todo[1]
    BY <2>1, HeadStep DEF WInv, Now, It
  <2>2. Now("cancel") => HandleOf(It.k).open
    BY <2>1 DEF WInv, StepsInv, StepsSound, CancelOK, At
  <2>3. Now("start") => sessions[It.s].handle.open
    <3>. SUFFICES ASSUME Now("start") PROVE sessions[It.s].handle.open
      OBVIOUS
    <3>1. /\ todo # <<>> /\ It.do = "start"
          /\ \E i \in DOMAIN todo : todo[i].do \in Beginning
      BY <2>1 DEF Beginning
    <3>2. PICK s \in Session, k \in Stream : AtStart(s, k)
      BY <3>1, BeginningNow
    <3>3. It.s = s
      BY <3>2, StepKinds DEF AtStart
    <3>. QED BY <3>2, <3>3 DEF AtStart
  <2>4. Now("pump") => It.ks \subseteq Running
    BY <2>1 DEF WInv, StepsInv, StepsSound, PumpOK, At
  <2>5. Now("engine") => It.ss \subseteq Alive
    BY <2>1 DEF WInv, StepsInv, StepsSound, EngineOK, At
  <2>6. Now("finish") => /\ It.k \in Running
                         /\ ~Discards(It) => HandleOf(It.k).open
    BY <2>1, FinishHead DEF Discards
  <2>7. \A s \in Alive : sessions[s].engineId \in engines
    BY DEF WInv, TablesInv, SessionsKnown
  <2>. QED BY <2>2, <2>3, <2>4, <2>5, <2>6, <2>7 DEF NoUseAfterDelete
<1>. QED BY <1>1, WorkerInvariant, PTL

\* _operationDelete takes no operation from the registry while the thread that
\* produces for it may still call back: whichever of _finish, dispose, an
\* overflow or a malformed event ends the operation.
THEOREM ProducersNeverOrphaned == Spec => []NoOrphanedProducer
<1>1. WInv => NoOrphanedProducer
  BY DEF WInv, ThreadsInv, Producers, NoOrphanedProducer
<1>. QED BY <1>1, WorkerInvariant, PTL

\* A cancel that finds the stream running decides how it ends, although the
\* runtime may have queued its final chunk already: _finish reports anything but
\* "complete".
THEOREM CancelledStaysCancelled == Spec => []CancelledNeverComplete
<1>1. WInv => CancelledNeverComplete
  BY DEF WInv, TablesInv, Streams, OperationsKnown, CancelledNeverComplete
<1>. QED BY <1>1, WorkerInvariant, PTL

-----------------------------------------------------------------------------
(* The bridge's accounts. *)

LEMMA SameBridgeStep == [Next]_vars /\ P!Inv => [P!Next]_(P!vars)
<1>1. P!Inv /\ Next => [B!Next]_(B!vars)
  BY CallsBridge
<1>2. UNCHANGED vars => UNCHANGED B!vars
  BY DEF vars, bridge, B!vars
<1>. QED BY <1>1, <1>2, SameBridge

\* Who holds a queue, what live_events counts and what was read to its end are
\* the same for the worker as for any caller of the bridge.
THEOREM WorkerKeepsAccounts == Spec => [](P!Inv /\ P!Ledger)
<1>1. Init => P!Inv /\ P!Ledger
  BY BridgeAssumed, SameBridge, BridgeInit, P!LedgerInit DEF Init
<1>2. P!Inv /\ P!Ledger /\ [Next]_vars => (P!Inv /\ P!Ledger)'
  BY BridgeAssumed, SameBridgeStep, BridgeKept, P!LedgerStep
<1>. QED BY <1>1, <1>2, PTL DEF Spec

\* When the command port closes, or the isolate dies, whatever was running: every
\* engine, session, operation and thread is gone, and every event is destroyed.
THEOREM ExitIsClean == Spec => []CleanExit
<1>1. WInv /\ P!Inv /\ P!Ledger => CleanExit
  <2>. SUFFICES ASSUME WInv, P!Inv, P!Ledger, exited
                PROVE  /\ engines = {} /\ Alive = {} /\ Running = {}
                       /\ operations = {} /\ held = B!NoEvent /\ ~timer
                       /\ \A s \in Session : producer[s] = B!NoId
                       /\ live_events = 0
    BY DEF CleanExit
  <2>1. todo = <<>> /\ engines = {} /\ ~timer
    BY DEF WInv, Gone
  <2>2. Alive = {}
    BY <2>1 DEF WInv, TablesInv, SessionsKnown
  <2>3. Running = {}
    BY <2>2 DEF WInv, TablesInv, OperationsKnown
  <2>4. operations = {}
    BY <2>3 DEF WInv, TablesInv, Registered
  <2>5. held = B!NoEvent
    BY <2>1, Settled
  <2>6. \A s \in Session : producer[s] = B!NoId /\ callback[s] = B!NoId
    BY <2>2 DEF WInv, ThreadsInv, Producers
  <2>7. \A id \in P!Id : object[id].queue = <<>>
    <3>. SUFFICES ASSUME NEW id \in P!Id PROVE ~P!Owned(id)
      BY DEF P!Ledger, P!Released
    <3>. QED BY <2>4, <2>6 DEF P!Owned, Thread, B!NoId, P!Id
  <2>8. live_events = 0
    <3>1. \A i \in 1 .. MaxId : P!Lengths[i] = 0
      BY <2>7 DEF P!Lengths, P!Id
    <3>2. MaxId \in Nat
      BY WorkerBounds
    <3>3. P!SumOf(P!Lengths, MaxId) = 0
      BY <3>1, <3>2, BridgeAssumed, P!SumOfNothing
    <3>4. held = P!NoEvent
      BY <2>5 DEF B!NoEvent, P!NoEvent, B!NoId, P!NoId, B!TextKind, P!TextKind
    <3>. QED BY <3>3, <3>4 DEF P!Ledger, P!Counted
  <2>. QED BY <2>1, <2>2, <2>3, <2>4, <2>5, <2>6, <2>8
<1>. QED BY <1>1, WorkerInvariant, WorkerKeepsAccounts, PTL

-----------------------------------------------------------------------------
(* "complete": every text of the stream was forwarded.                     *)

\* A step that says its operation was completed.
Claims(step) ==
    /\ step.do \in Ending /\ step.kind = B!Complete
    /\ step.do = "retire" => ~step.cancelled

\* Only the step at hand says so, and it says what the worker took.
ClaimsSound ==
    /\ \A i \in DOMAIN todo :
          Claims(todo[i]) => i = 1 /\ outcome[ops[todo[i].k].native] = B!Complete
    /\ held.kind = B!Complete => outcome[ops[It.k].native] = B!Complete

\* The text in the worker's hands, not yet forwarded.
InHand(k) == IF held # B!NoEvent /\ B!IsText(held) /\ It.k = k THEN 1 ELSE 0

\* Every text that was taken was forwarded, until a cancel drops some.
Forwarded(k) ==
    /\ nativeOf[k] = ops[k].native
    /\ ops[k].backpressure => ops[k].cancelRequested
    /\ \/ ops[k].cancelRequested
       \/ Now("cancel") /\ It.k = k
       \/ tokens[k] + InHand(k) = read[ops[k].native]

AllForwarded == \A k \in Running : Forwarded(k)

\* A stream that ended complete had all its texts, and gets no more.
EndedWhole ==
    \A k \in Stream :
        ended[k] = "complete" =>
            /\ nativeOf[k] \in B!Id
            /\ object[nativeOf[k]].final
            /\ tokens[k] = texts[nativeOf[k]]

\* Nothing was forwarded for a stream that has not begun.
ToCreate(k) == \E i \in DOMAIN todo : todo[i].do = "create" /\ todo[i].k = k

Unbegun == \A k \in Stream : k >= nextStream \/ ToCreate(k) => tokens[k] = 0

Tallies == ClaimsSound /\ AllForwarded /\ EndedWhole /\ Unbegun

\* A step that neither ends an operation complete nor begins one.
Plain(step) == ~Claims(step) /\ step.do # "create"
PlainSteps(steps) == \A i \in DOMAIN steps : Plain(steps[i])

LEMMA PlainKinds ==
  /\ \A k, overflow : Plain(CancelStep(k, overflow))
  /\ \A s : Plain(JoinStep(s))
  /\ \A s : Plain([do |-> "forget", s |-> s])
  /\ \A k : Plain([do |-> "poll", k |-> k]) /\ Plain([do |-> "take", k |-> k])
            /\ Plain([do |-> "use", k |-> k])
  /\ \A k, kind, afterStop : kind # B!Complete => Plain(FinishStep(k, kind, afterStop))
  /\ \A s, k : Plain(ReopenStep(s, k)) /\ Plain(StartStep(s, k)) /\ Plain(StartedStep(s, k))
  /\ \A ks : Plain(PumpStep(ks))
  /\ \A e, ss : Plain(EngineStep(e, ss))
  /\ \A es : Plain(CloseStep(es))
BY DEF Plain, Claims, Ending, CancelStep, JoinStep, FinishStep, ReopenStep, StartStep,
  StartedStep, PumpStep, EngineStep, CloseStep

LEMMA PlainLists ==
  ASSUME NEW a \in Step, NEW b \in Step, NEW c \in Step, NEW d \in Step
  PROVE  /\ <<>> \in Seq(Step) /\ PlainSteps(<<>>)
         /\ <<a>> \in Seq(Step) /\ (Plain(a) => PlainSteps(<<a>>))
         /\ <<a, b>> \in Seq(Step) /\ (Plain(a) /\ Plain(b) => PlainSteps(<<a, b>>))
         /\ <<a, b, c>> \in Seq(Step)
         /\ Plain(a) /\ Plain(b) /\ Plain(c) => PlainSteps(<<a, b, c>>)
         /\ <<a, b, c, d>> \in Seq(Step)
         /\ Plain(a) /\ Plain(b) /\ Plain(c) /\ Plain(d) => PlainSteps(<<a, b, c, d>>)
BY DEF PlainSteps

LEMMA PlainAppended ==
  ASSUME NEW p \in Seq(Step), PlainSteps(p), NEW x \in Step, Plain(x)
  PROVE  p \o <<x>> \in Seq(Step) /\ PlainSteps(p \o <<x>>)
<1>. DEFINE q == p \o <<x>>
<1>1. /\ q \in Seq(Step) /\ Len(q) = Len(p) + 1
      /\ \A i \in 1 .. Len(p) : q[i] = p[i]
      /\ q[Len(p) + 1] = x
  BY EndOfList
<1>2. DOMAIN q = 1 .. Len(p) + 1 /\ DOMAIN p = 1 .. Len(p) /\ Len(p) \in Nat
  BY <1>1
<1>. HIDE DEF q
<1>. QED BY <1>1, <1>2 DEF PlainSteps

\* What waits behind the step at hand claims nothing, and is kept.
LEMMA PlainContinue ==
  ASSUME WInv, Tallies, todo # <<>>, NEW steps \in Seq(Step), PlainSteps(steps),
         Continue(steps)
  PROVE  /\ \A i \in DOMAIN todo' : ~Claims(todo'[i])
         /\ \A k : ToCreate(k)' => ToCreate(k)
<1>1. /\ DOMAIN steps = 1 .. Len(steps) /\ Len(steps) \in Nat
      /\ DOMAIN todo' \subseteq Nat
      /\ \A i \in DOMAIN todo' :
              \/ i \in 1 .. Len(steps) /\ todo'[i] = steps[i]
              \/ /\ i > Len(steps)
                 /\ (i - Len(steps)) + 1 \in DOMAIN todo
                 /\ todo'[i] = todo[(i - Len(steps)) + 1]
  BY Shift DEF WInv
<1>2. ASSUME NEW i \in DOMAIN todo'
      PROVE  /\ ~Claims(todo'[i])
             /\ todo'[i].do = "create" => \E j \in DOMAIN todo : todo'[i] = todo[j]
  <2>1. CASE i \in 1 .. Len(steps) /\ todo'[i] = steps[i]
    BY <1>1, <2>1 DEF PlainSteps, Plain
  <2>2. CASE i > Len(steps) /\ (i - Len(steps)) + 1 \in DOMAIN todo
             /\ todo'[i] = todo[(i - Len(steps)) + 1]
    <3>1. (i - Len(steps)) + 1 # 1
      BY <1>1, <2>2
    <3>. QED BY <2>2, <3>1 DEF Tallies, ClaimsSound
  <2>. QED BY <1>1, <2>1, <2>2
<1>. QED BY <1>2 DEF ToCreate

LEMMA TalliesInit == Init => Tallies
<1>. SUFFICES ASSUME Init PROVE Tallies
  OBVIOUS
<1>1. /\ todo = <<>> /\ ops = <<>> /\ ended = [k \in Stream |-> "no"]
      /\ tokens = [k \in Stream |-> 0] /\ held = B!NoEvent
  BY DEF Init, B!Init
<1>2. Running = {} /\ DOMAIN todo = {} /\ held.kind # B!Complete
  BY <1>1 DEF Running, B!NoEvent, B!TextKind, B!Complete
<1>. QED BY <1>1, <1>2 DEF Tallies, ClaimsSound, AllForwarded, EndedWhole, Unbegun, ToCreate

\* What the bridge lets nobody take back.
Lasts ==
    /\ \A id \in B!Id : object[id].final => object'[id].final /\ texts'[id] = texts[id]
    /\ \A id \in B!Id : outcome[id] = B!Complete => outcome'[id] = B!Complete

LEMMA BridgeLasts == ASSUME P!Inv, [Next]_vars PROVE Lasts
<1>1. [P!Next]_(P!vars)
  BY SameBridgeStep
<1>2. \A id \in P!Id : /\ object[id].final => texts'[id] = texts[id]
                       /\ outcome[id] = P!Complete => outcome'[id] = P!Complete
  BY <1>1, BridgeAssumed, P!LastWord
<1>3. \A id \in P!Id : object[id].final => object'[id].final
  BY <1>1, BridgeAssumed, P!FinalStays
<1>. QED BY <1>2, <1>3 DEF Lasts, P!Id, B!Id, P!Complete, B!Complete

\* A stream's end is never made complete but by the step that retires it.
LEMMA EndedKept ==
  ASSUME EndedWhole, Lasts, UNCHANGED nativeOf,
         \A k \in Stream : ended'[k] = "complete" =>
                              ended[k] = "complete" /\ tokens'[k] = tokens[k]
  PROVE  EndedWhole'
BY DEF EndedWhole, Lasts

\* A step that moves no text.
Still ==
    /\ held = B!NoEvent /\ held' = B!NoEvent /\ ~Now("cancel")
    /\ UNCHANGED <<nativeOf, tokens, read>>
    /\ nextStream' \in {nextStream, nextStream + 1}
    /\ \A k \in Running' :
          /\ k \in Running
          /\ ops'[k].native = ops[k].native
          /\ ops'[k].cancelRequested = ops[k].cancelRequested
          /\ ops'[k].backpressure = ops[k].backpressure

LEMMA StillForwarded == ASSUME Tallies, Still PROVE AllForwarded'
<1>. SUFFICES ASSUME NEW k \in Running' PROVE Forwarded(k)'
  BY DEF AllForwarded
<1>1. Forwarded(k) /\ k \in Running
  BY DEF Tallies, AllForwarded, Still
<1>2. InHand(k) = 0 /\ InHand(k)' = 0
  BY DEF InHand, Still
<1>3. tokens'[k] + 0 = read'[ops'[k].native] \/ ops'[k].cancelRequested
  BY <1>1, <1>2 DEF Forwarded, Still
<1>. QED BY <1>1, <1>2, <1>3 DEF Forwarded, Still

LEMMA StillKeeps ==
  ASSUME WInv, Tallies, Lasts, Still,
         \A i \in DOMAIN todo' : ~Claims(todo'[i]),
         \A k : ToCreate(k)' => ToCreate(k) \/ k = nextStream,
         \A k \in Stream : ended'[k] = "complete" => ended[k] = "complete"
  PROVE  Tallies'
<1>1. held'.kind # B!Complete
  BY DEF Still, B!NoEvent, B!TextKind, B!Complete
<1>2. ClaimsSound'
  BY <1>1 DEF ClaimsSound
<1>3. EndedWhole'
  BY EndedKept DEF Tallies, Still
<1>4. Unbegun'
  <2>1. \A k \in Stream : k >= nextStream' => k >= nextStream
    BY DEF Still, WInv, WorkerTypeOK, Stream
  <2>2. \A k \in Stream : k = nextStream => k >= nextStream
    BY DEF WInv, WorkerTypeOK, Stream
  <2>. QED BY <2>1, <2>2 DEF Tallies, Unbegun, Still
<1>. QED BY <1>2, <1>3, <1>4, StillForwarded DEF Tallies

\* A step that neither moves a text nor ends an operation complete.
CalmStep ==
    /\ It.do \notin {"cancel", "use"}
    /\ UNCHANGED <<held, nativeOf, tokens, read, nextStream>>
    /\ \A k \in Running' :
          /\ k \in Running
          /\ ops'[k].native = ops[k].native
          /\ ops'[k].cancelRequested = ops[k].cancelRequested
          /\ ops'[k].backpressure = ops[k].backpressure
    /\ \A k \in Stream : ended'[k] = "complete" => ended[k] = "complete"

LEMMA CalmStill == ASSUME WInv, todo # <<>>, CalmStep PROVE Still
BY DEF CalmStep, Still, Now, It, WInv, ThreadsInv, Held

LEMMA CalmPushes ==
  ASSUME WInv, Tallies, Lasts, todo # <<>>, CalmStep,
         NEW steps \in Seq(Step), PlainSteps(steps), Continue(steps)
  PROVE  Tallies'
<1>1. /\ \A i \in DOMAIN todo' : ~Claims(todo'[i])
      /\ \A k : ToCreate(k)' => ToCreate(k)
  BY PlainContinue
<1>. QED BY <1>1, CalmStill, StillKeeps DEF CalmStep

LEMMA CalmAborts ==
  ASSUME WInv, Tallies, Lasts, todo # <<>>, CalmStep, Abort
  PROVE  Tallies'
<1>1. DOMAIN todo' = {}
  BY DEF Abort
<1>. QED BY <1>1, CalmStill, StillKeeps DEF CalmStep, ToCreate

LEMMA NothingMoved ==
  ASSUME todo # <<>>, It.do \notin {"cancel", "use"},
         UNCHANGED <<held, read, ops, asked>>
  PROVE  CalmStep
BY DEF CalmStep, asked, Running

\* Steps that push nothing.
LEMMA PoppingTallies ==
  ASSUME WInv, P!Inv, Tallies, Lasts,
         \/ DeleteHandle \/ Reopen \/ Start \/ Settle \/ Forget \/ DeleteEngine
         \/ Exit
  PROVE  Tallies'
<1>1. todo # <<>> /\ Continue(<<>>)
  BY DEF Now, DeleteHandle, Reopen, Start, Settle, Forget, DeleteEngine, Exit
<1>2. It.do \in {"join", "reopen", "start", "pump", "forget", "engine", "close"}
  BY DEF Now, It, DeleteHandle, Reopen, Start, Settle, Forget, DeleteEngine, Exit
<1>3. UNCHANGED <<held, read, ops, asked>>
  <2>1. CASE Start
    BY <2>1 DEF Start, B!StartBegin, B!history, seen, asked
  <2>2. CASE DeleteHandle \/ Reopen \/ Settle \/ Forget \/ DeleteEngine \/ Exit
    BY <2>2 DEF DeleteHandle, Reopen, Settle, Forget, DeleteEngine, Exit, bridge, seen, asked
  <2>. QED BY <2>1, <2>2
<1>4. CalmStep
  BY <1>1, <1>2, <1>3, NothingMoved
<1>5. <<>> \in Seq(Step) /\ PlainSteps(<<>>)
  BY DEF PlainSteps
<1>. QED BY <1>1, <1>4, <1>5, CalmPushes

LEMMA AbortingTallies ==
  ASSUME WInv, P!Inv, Tallies, Lasts,
         ReopenFails \/ IdsExhausted \/ StartThrows
  PROVE  Tallies'
<1>1. todo # <<>> /\ Abort /\ It.do \in {"reopen", "create", "start"}
  BY DEF Now, It, ReopenFails, IdsExhausted, StartThrows
<1>2. /\ UNCHANGED <<held, nativeOf, tokens, read, nextStream>>
      /\ ops' = ops \/ ops' = Restrict(ops, Running \ {It.k})
      /\ ended' = [ended EXCEPT ![It.k] = "error"]
  BY DEF ReopenFails, IdsExhausted, StartThrows, B!lrlm_operation_delete, B!history, bridge,
    tables
<1>3. \A k \in Running' : k \in Running /\ ops'[k] = ops[k]
  BY <1>2 DEF Restrict, Running
<1>4. \A k \in Stream : ended'[k] = "complete" => ended[k] = "complete"
  BY <1>2 DEF WInv, WorkerTypeOK
<1>5. CalmStep
  BY <1>1, <1>2, <1>3, <1>4 DEF CalmStep
<1>. QED BY <1>1, <1>5, CalmAborts

LEMMA StartedTallies ==
  ASSUME WInv, P!Inv, Tallies, Lasts, Started
  PROVE  Tallies'
<1>1. /\ todo # <<>> /\ Continue(<<PumpStep(Running)>>) /\ It.do = "started"
      /\ UNCHANGED <<ops, seen>>
  BY DEF Now, It, Started
<1>2. UNCHANGED <<held, read>>
  BY DEF Started, B!StartOk, B!StartFailed, B!history
<1>3. CalmStep
  BY <1>1, <1>2, NothingMoved DEF seen, asked
<1>4. PumpStep(Running) \in Step /\ Plain(PumpStep(Running))
  BY StepsTyped, PlainKinds DEF WInv, WorkerTypeOK
<1>5. <<PumpStep(Running)>> \in Seq(Step) /\ PlainSteps(<<PumpStep(Running)>>)
  BY <1>4, PlainLists
<1>. QED BY <1>1, <1>3, <1>5, CalmPushes

LEMMA PumpTallies ==
  ASSUME WInv, P!Inv, Tallies, Lasts, Pump
  PROVE  Tallies'
<1>1. PICK k \in Stream :
        /\ todo # <<>> /\ It.do = "pump"
        /\ LET rest == <<[do |-> "poll", k |-> k], PumpStep(It.ks \ {k})>>
           IN  Continue(IF Overran(k) THEN <<CancelStep(k, TRUE)>> \o rest ELSE rest)
        /\ UNCHANGED <<bridge, tables, flags, producer, seen>>
  BY DEF Pump, Now, It
<1>. DEFINE a == CancelStep(k, TRUE)
            b == [do |-> "poll", k |-> k]
            c == PumpStep(It.ks \ {k})
<1>2. It \in Step /\ It.ks \in SUBSET Stream
  BY <1>1, HeadStep, StepFields DEF WInv
<1>3. a \in Step /\ b \in Step /\ c \in Step /\ Plain(a) /\ Plain(b) /\ Plain(c)
  BY <1>2, StepsTyped, PlainKinds
<1>4. Continue(<<b, c>>) \/ Continue(<<a>> \o <<b, c>>)
  BY <1>1
<1>. HIDE DEF a, b, c
<1>5. <<a>> \o <<b, c>> = <<a, b, c>>
  BY <1>3, Concat12
<1>6. /\ <<b, c>> \in Seq(Step) /\ PlainSteps(<<b, c>>)
      /\ <<a, b, c>> \in Seq(Step) /\ PlainSteps(<<a, b, c>>)
  BY <1>3, PlainLists
<1>7. CalmStep
  <2>1. UNCHANGED <<held, read, ops, seen>>
    BY <1>1 DEF bridge, tables
  <2>. QED BY <1>1, <2>1, NothingMoved DEF seen, asked
<1>. QED BY <1>1, <1>4, <1>5, <1>6, <1>7, CalmPushes

LEMMA PollTallies ==
  ASSUME WInv, P!Inv, Tallies, Lasts, Poll
  PROVE  Tallies'
<1>. DEFINE next == [do |-> "take", k |-> It.k]
<1>1. /\ todo # <<>> /\ It.do = "poll"
      /\ Continue(<<>>) \/ Continue(<<next>>)
      /\ UNCHANGED <<bridge, tables, flags, producer, seen>>
  BY DEF Poll, Now, It
<1>2. It.k \in Stream
  BY <1>1, HeadOperation DEF OnOperation
<1>3. next \in Step /\ Plain(next)
  BY <1>2, StepsTyped, PlainKinds
<1>. HIDE DEF next
<1>4. CalmStep
  <2>1. UNCHANGED <<held, read, ops, seen>>
    BY <1>1 DEF bridge, tables
  <2>. QED BY <1>1, <2>1, NothingMoved DEF seen, asked
<1>5. /\ <<>> \in Seq(Step) /\ PlainSteps(<<>>)
      /\ <<next>> \in Seq(Step) /\ PlainSteps(<<next>>)
  BY <1>3, PlainLists
<1>. QED BY <1>1, <1>4, <1>5, CalmPushes

\* The steps that stop a failed operation claim nothing.
LEMMA FailPlain ==
  ASSUME WInv, todo # <<>>, NEW k \in Running
  PROVE  FailSteps(k) \in Seq(Step) /\ PlainSteps(FailSteps(k))
<1>. DEFINE a == CancelStep(k, FALSE)
            b == JoinStep(ops[k].session)
            c == FinishStep(k, B!Error, TRUE)
<1>1. k \in Stream /\ ops[k].session \in Session
  BY WorkedOn
<1>2. B!Error \in Kind /\ B!Error # B!Complete
  BY KindsDiffer
<1>3. a \in Step /\ b \in Step /\ c \in Step /\ Plain(a) /\ Plain(b) /\ Plain(c)
  BY <1>1, <1>2, StepsTyped, PlainKinds
<1>4. FailSteps(k) = <<a, b, c>>
  BY DEF FailSteps
<1>. HIDE DEF a, b, c
<1>. QED BY <1>3, <1>4, PlainLists

LEMMA FinishThrowsTallies ==
  ASSUME WInv, P!Inv, Tallies, Lasts, FinishThrows
  PROVE  Tallies'
<1>1. /\ todo # <<>> /\ It.do = "finish" /\ It.k \in Running
      /\ Continue(FailSteps(It.k))
      /\ UNCHANGED <<bridge, tables, flags, producer, seen>>
  BY DEF FinishThrows, Now, It
<1>2. CalmStep
  <2>1. UNCHANGED <<held, read, ops, seen>>
    BY <1>1 DEF bridge, tables
  <2>. QED BY <1>1, <2>1, NothingMoved DEF seen, asked
<1>. QED BY <1>1, <1>2, FailPlain, CalmPushes

\* A turn that is discarded is cancelled, or had not ended complete.
LEMMA FinishDiscardsTallies ==
  ASSUME WInv, P!Inv, Tallies, Lasts, FinishDiscards
  PROVE  Tallies'
<1>. DEFINE a == JoinStep(ops[It.k].session)
            b == RetireStep(It)
<1>1. /\ todo # <<>> /\ It.do = "finish" /\ It.k \in Running /\ Discards(It)
      /\ Continue(<<a, b>>)
      /\ UNCHANGED <<bridge, tables, flags, producer, seen>>
  BY DEF FinishDiscards, Now, It
<1>2. /\ It.k \in Stream /\ ops[It.k].session \in Session
      /\ ops[It.k] \in NativeOperation
  BY <1>1, WorkedOn
<1>3. It.kind \in Kind /\ It.afterStop \in BOOLEAN
  BY <1>1, HeadStep, StepFields DEF WInv
<1>4. b = [do |-> "retire", k |-> It.k, kind |-> It.kind,
           cancelled |-> FinishCancelled(It)]
  BY DEF RetireStep
<1>5. FinishCancelled(It) \in BOOLEAN
  BY DEF FinishCancelled
<1>6. a \in Step /\ b \in Step
  BY <1>2, <1>3, <1>4, <1>5, StepsTyped
<1>7. Plain(a) /\ Plain(b)
  BY <1>1, <1>4, PlainKinds DEF Plain, Claims, Discards, Ending
<1>. HIDE DEF a, b
<1>8. CalmStep
  <2>1. UNCHANGED <<held, read, ops, seen>>
    BY <1>1 DEF bridge, tables
  <2>. QED BY <1>1, <2>1, NothingMoved DEF seen, asked
<1>9. <<a, b>> \in Seq(Step) /\ PlainSteps(<<a, b>>)
  BY <1>6, <1>7, PlainLists
<1>. QED BY <1>1, <1>8, <1>9, CalmPushes

\* Disposing a session ends its operation cancelled.
LEMMA DisposalPlain ==
  ASSUME WorkerTypeOK, NEW s \in Alive
  PROVE  _disposeSession(s) \in Seq(Step) /\ PlainSteps(_disposeSession(s))
<1>. DEFINE k == sessions[s].streamId
            a == CancelStep(k, FALSE)
            b == JoinStep(s)
            c == FinishStep(k, B!Cancelled, FALSE)
            d == [do |-> "forget", s |-> s]
<1>1. s \in Session /\ Running \subseteq Stream
  BY DEF WorkerTypeOK
<1>2. B!Cancelled \in Kind /\ B!Cancelled # B!Complete
  BY KindsDiffer
<1>3. b \in Step /\ d \in Step /\ Plain(b) /\ Plain(d)
  BY <1>1, StepsTyped, PlainKinds
<1>4. k \in Running => a \in Step /\ c \in Step
  BY <1>1, <1>2, StepsTyped
<1>5. Plain(a) /\ Plain(c)
  BY <1>2, PlainKinds
<1>6. _disposeSession(s) = IF k \notin Running THEN <<b, d>> ELSE <<a, b, c, d>>
  BY DEF _disposeSession
<1>. HIDE DEF a, b, c, d, k
<1>. QED BY <1>3, <1>4, <1>5, <1>6, PlainLists

LEMMA DisposeNextTallies ==
  ASSUME WInv, P!Inv, Tallies, Lasts, DisposeNext
  PROVE  Tallies'
<1>1. PICK s \in Session :
        /\ todo # <<>> /\ It.do = "engine"
        /\ s \in It.ss
        /\ Continue(_disposeSession(s) \o <<EngineStep(It.e, It.ss \ {s})>>)
        /\ UNCHANGED <<bridge, tables, flags, producer, seen>>
  BY DEF DisposeNext, Now, It, First
<1>. DEFINE p == _disposeSession(s)
            b == EngineStep(It.e, It.ss \ {s})
<1>2. 1 \in DOMAIN todo /\ It = todo[1] /\ It.e \in Engine /\ It.ss \in SUBSET Session
  BY <1>1, HeadStep, StepFields DEF WInv
<1>3. s \in Alive
  BY <1>1, <1>2 DEF WInv, StepsInv, StepsSound, EngineOK, At
<1>4. b \in Step /\ Plain(b)
  BY <1>2, StepsTyped, PlainKinds
<1>5. p \in Seq(Step) /\ PlainSteps(p)
  BY <1>3, DisposalPlain DEF WInv
<1>6. Continue(p \o <<b>>)
  BY <1>1
<1>. HIDE DEF p, b
<1>7. p \o <<b>> \in Seq(Step) /\ PlainSteps(p \o <<b>>)
  BY <1>4, <1>5, PlainAppended
<1>8. CalmStep
  <2>1. UNCHANGED <<held, read, ops, seen>>
    BY <1>1 DEF bridge, tables
  <2>. QED BY <1>1, <2>1, NothingMoved DEF seen, asked
<1>. QED BY <1>1, <1>6, <1>7, <1>8, CalmPushes

LEMMA CloseNextTallies ==
  ASSUME WInv, P!Inv, Tallies, Lasts, CloseNext
  PROVE  Tallies'
<1>1. PICK e \in Engine :
        /\ todo # <<>> /\ It.do = "close"
        /\ Continue(_disposeEngine(e) \o <<CloseStep(It.es \ {e})>>)
        /\ UNCHANGED <<bridge, tables, flags, producer, seen>>
  BY DEF CloseNext, Now, It
<1>. DEFINE ss == {s \in Alive : sessions[s].engineId = e}
            a == EngineStep(e, ss)
            b == CloseStep(It.es \ {e})
<1>2. It.es \in SUBSET Engine
  BY <1>1, HeadStep, StepFields DEF WInv
<1>3. a \in Step /\ b \in Step /\ Plain(a) /\ Plain(b)
  <2>1. ss \in SUBSET Session
    BY DEF WInv, WorkerTypeOK
  <2>. QED BY <1>2, <2>1, StepsTyped, PlainKinds
<1>4. Continue(<<a>> \o <<b>>)
  BY <1>1 DEF _disposeEngine
<1>. HIDE DEF a, b
<1>5. <<a>> \in Seq(Step) /\ PlainSteps(<<a>>)
  BY <1>3, PlainLists
<1>6. <<a>> \o <<b>> \in Seq(Step) /\ PlainSteps(<<a>> \o <<b>>)
  BY <1>3, <1>5, PlainAppended
<1>7. CalmStep
  <2>1. UNCHANGED <<held, read, ops, seen>>
    BY <1>1 DEF bridge, tables
  <2>. QED BY <1>1, <2>1, NothingMoved DEF seen, asked
<1>. QED BY <1>1, <1>4, <1>6, <1>7, CalmPushes

LEMMA CreateTallies ==
  ASSUME WInv, P!Inv, Tallies, Lasts, CreateOperation
  PROVE  Tallies'
<1>0. todo # <<>> /\ It.do = "create" /\ Continue(<<>>)
  BY DEF CreateOperation, Now, It
<1>1. PICK s, k, batch : s = It.s /\ k = It.k /\ batch = It.batch
  OBVIOUS
<1>2. PICK id : id = next_id
  OBVIOUS
<1>3. /\ B!lrlm_operation_create
      /\ ops' = With(ops, k, NewOperation(s, id, batch))
      /\ nativeOf' = [nativeOf EXCEPT ![k] = id]
      /\ UNCHANGED <<nextStream, tokens, ended>>
  BY <1>1, <1>2 DEF CreateOperation
<1>4. /\ id \in B!Id
      /\ UNCHANGED <<held, read, texts, object>>
  BY <1>2, <1>3, CreateCall DEF B!lrlm_operation_create, B!history
<1>5. read[id] = 0
  <2>1. id \in P!Id /\ next_id # 0 /\ id >= next_id
    BY <1>2, <1>3, <1>4, WorkerBounds DEF P!Id, B!Id, B!lrlm_operation_create
  <2>. QED BY <2>1 DEF P!Inv, P!AllUnused, P!Unused
<1>6. /\ 1 \in DOMAIN todo /\ It = todo[1] /\ k \in Stream
      /\ held = B!NoEvent
  BY <1>0, <1>1, HeadStep, StepFields DEF WInv, ThreadsInv, Held, Now, It, Beginning
<1>7. tokens[k] = 0
  BY <1>0, <1>1, <1>6 DEF Tallies, Unbegun, ToCreate
<1>8. k \notin Running /\ ended[k] = "no"
  <2>1. \E i \in DOMAIN todo : todo[i].do \in Beginning
    BY <1>0, <1>6 DEF Beginning
  <2>2. PICK s1 \in Session, k1 \in Stream : AtCreate(s1, k1)
    BY <1>0, <2>1, BeginningNow
  <2>3. k1 = k
    BY <1>1, <2>2, StepKinds DEF AtCreate
  <2>. QED BY <2>2, <2>3 DEF AtCreate, Requested
<1>9. /\ Running' = Running \union {k}
      /\ \A j \in Running : ops'[j] = ops[j]
      /\ ops'[k] = NewOperation(s, id, batch)
  BY <1>3, <1>8 DEF Running, With
<1>10. /\ NewOperation(s, id, batch).native = id
       /\ ~NewOperation(s, id, batch).cancelRequested
       /\ ~NewOperation(s, id, batch).backpressure
  BY DEF NewOperation
<1>11. /\ \A i \in DOMAIN todo' : ~Claims(todo'[i])
       /\ \A j : ToCreate(j)' => ToCreate(j)
  <2>1. <<>> \in Seq(Step) /\ PlainSteps(<<>>)
    BY DEF PlainSteps
  <2>. QED BY <1>0, <2>1, PlainContinue
<1>12. ClaimsSound'
  <2>1. held'.kind # B!Complete
    BY <1>4, <1>6 DEF B!NoEvent, B!TextKind, B!Complete
  <2>. QED BY <1>11, <2>1 DEF ClaimsSound
<1>13. AllForwarded'
  <2>. SUFFICES ASSUME NEW j \in Running' PROVE Forwarded(j)'
    BY DEF AllForwarded
  <2>1. InHand(j) = 0 /\ InHand(j)' = 0
    BY <1>4, <1>6 DEF InHand
  <2>2. nativeOf \in [Stream -> B!Id \union {B!NoId}] /\ Running \subseteq Stream
    BY DEF WInv, WorkerTypeOK
  <2>3. CASE j = k
    <3>1. nativeOf'[j] = id /\ ops'[j] = NewOperation(s, id, batch)
      BY <1>3, <1>6, <1>9, <2>2, <2>3
    <3>2. tokens'[j] + 0 = read'[id]
      BY <1>3, <1>4, <1>5, <1>7, <2>3
    <3>. QED BY <1>10, <2>1, <3>1, <3>2 DEF Forwarded
  <2>4. CASE j # k
    <3>1. j \in Running /\ ops'[j] = ops[j] /\ nativeOf'[j] = nativeOf[j]
      BY <1>3, <1>9, <2>2, <2>4
    <3>2. Forwarded(j) /\ ~Now("cancel")
      BY <1>0, <3>1 DEF Tallies, AllForwarded, Now, It
    <3>. QED BY <1>3, <1>4, <2>1, <3>1, <3>2 DEF Forwarded
  <2>. QED BY <2>3, <2>4
<1>14. EndedWhole'
  <2>. SUFFICES ASSUME NEW j \in Stream, ended[j] = "complete"
                PROVE  /\ nativeOf'[j] \in B!Id
                       /\ object'[nativeOf'[j]].final
                       /\ tokens'[j] = texts'[nativeOf'[j]]
    BY <1>3 DEF EndedWhole
  <2>1. j # k /\ nativeOf'[j] = nativeOf[j]
    BY <1>3, <1>8 DEF WInv, WorkerTypeOK
  <2>. QED BY <1>3, <1>4, <2>1 DEF Tallies, EndedWhole
<1>15. Unbegun'
  BY <1>3, <1>11 DEF Tallies, Unbegun
<1>. QED BY <1>12, <1>13, <1>14, <1>15 DEF Tallies

\* An operation that is cancelled owes no text any more.
LEMMA CancelTallies ==
  ASSUME WInv, P!Inv, Tallies, Lasts, Cancel
  PROVE  Tallies'
<1>1. PICK k : k = It.k
  BY Zenon
<1>2. /\ todo # <<>> /\ It.do = "cancel" /\ Continue(<<>>)
      /\ \/ ops[k].cancelRequested /\ UNCHANGED <<held, read, ops>>
         \/ /\ ops' = [ops EXCEPT ![k].cancelRequested = TRUE,
                                  ![k].backpressure = It.overflow]
            /\ UNCHANGED <<held, read>>
      /\ UNCHANGED <<nextStream, nativeOf, tokens, ended>>
  BY <1>1 DEF Cancel, Now, It, bridge, B!lrlm_operation_cancel, B!history
<1>3. k \in Running /\ held = B!NoEvent
  BY <1>1, <1>2, HeadOperation DEF WInv, ThreadsInv, Held, Now, It, OnOperation
<1>4. ops[k] \in NativeOperation
  BY <1>2, <1>3, WorkedOn
<1>5. /\ Running' = Running
      /\ \A j \in Running : ops'[j].native = ops[j].native
      /\ \A j \in Running \ {k} : ops'[j] = ops[j]
      /\ ops'[k].cancelRequested
  <2>1. CASE UNCHANGED ops /\ ops[k].cancelRequested
    BY <2>1 DEF Running
  <2>2. CASE ops' = [ops EXCEPT ![k].cancelRequested = TRUE,
                                ![k].backpressure = It.overflow]
    <3>1. /\ DOMAIN ops' = DOMAIN ops
          /\ ops'[k] = [ops[k] EXCEPT !.cancelRequested = TRUE,
                                      !.backpressure = It.overflow]
          /\ \A j \in Running \ {k} : ops'[j] = ops[j]
      BY <1>3, <2>2 DEF Running
    <3>2. ops'[k].cancelRequested /\ ops'[k].native = ops[k].native
      BY <1>4, <3>1 DEF NativeOperation
    <3>. QED BY <3>1, <3>2 DEF Running
  <2>. QED BY <1>2, <2>1, <2>2
<1>6. /\ \A i \in DOMAIN todo' : ~Claims(todo'[i])
      /\ \A j : ToCreate(j)' => ToCreate(j)
  <2>1. <<>> \in Seq(Step) /\ PlainSteps(<<>>)
    BY DEF PlainSteps
  <2>. QED BY <1>2, <2>1, PlainContinue
<1>7. held' = held /\ read' = read
  BY <1>2
<1>8. ClaimsSound'
  <2>1. held'.kind # B!Complete
    BY <1>3, <1>7 DEF B!NoEvent, B!TextKind, B!Complete
  <2>. QED BY <1>6, <2>1 DEF ClaimsSound
<1>9. AllForwarded'
  <2>. SUFFICES ASSUME NEW j \in Running' PROVE Forwarded(j)'
    BY DEF AllForwarded
  <2>1. InHand(j) = 0 /\ InHand(j)' = 0
    BY <1>3, <1>7 DEF InHand
  <2>2. j \in Running /\ Forwarded(j)
    BY <1>5 DEF Tallies, AllForwarded
  <2>3. CASE j = k
    BY <1>2, <1>5, <2>2, <2>3 DEF Forwarded
  <2>4. CASE j # k
    <3>1. ops'[j] = ops[j]
      BY <1>5, <2>2, <2>4
    <3>. QED BY <1>1, <1>2, <1>7, <2>1, <2>2, <2>4, <3>1 DEF Forwarded
  <2>. QED BY <2>3, <2>4
<1>10. EndedWhole'
  BY <1>2, EndedKept DEF Tallies
<1>11. Unbegun'
  BY <1>2, <1>6 DEF Tallies, Unbegun
<1>. QED BY <1>8, <1>9, <1>10, <1>11 DEF Tallies

\* A text that is taken is in the worker's hands, a terminal is its outcome.
LEMMA TakeTallies ==
  ASSUME WInv, P!Inv, Tallies, Lasts, Take
  PROVE  Tallies'
<1>1. PICK k, id : k = It.k /\ id = ops[k].native
  OBVIOUS
<1>. DEFINE next == [do |-> "use", k |-> k]
<1>2. /\ todo # <<>> /\ It.do = "take"
      /\ \/ UNCHANGED bridge /\ Continue(<<>>)
         \/ B!lrlm_operation_take(id) /\ Continue(<<next>>)
      /\ UNCHANGED <<tables, flags, producer, seen>>
  BY <1>1 DEF Take, Now, It
<1>3. k \in Running /\ k \in Stream /\ id \in B!Id
  BY <1>1, <1>2, HeadOperation, WorkedOn DEF OnOperation
<1>4. CASE UNCHANGED bridge /\ Continue(<<>>)
  <2>1. CalmStep
    <3>1. UNCHANGED <<held, read, ops, seen>>
      BY <1>2, <1>4 DEF bridge, tables
    <3>. QED BY <1>2, <3>1, NothingMoved DEF seen, asked
  <2>2. <<>> \in Seq(Step) /\ PlainSteps(<<>>)
    BY DEF PlainSteps
  <2>. QED BY <1>2, <1>4, <2>1, <2>2, CalmPushes
<1>5. CASE B!lrlm_operation_take(id) /\ Continue(<<next>>)
  <2>1. id \in P!Id /\ P!lrlm_operation_take(id)
    BY <1>3, <1>5 DEF B!Id, P!Id, B!lrlm_operation_take, P!lrlm_operation_take, B!NoId, P!NoId,
      B!NoEvent, P!NoEvent, B!TextKind, P!TextKind, B!IsText, P!IsText, B!TakenOperation,
      P!TakenOperation
  <2>2. /\ held = P!NoEvent /\ held' # P!NoEvent
        /\ \A j \in P!Id \ {id} : read'[j] = read[j] /\ outcome'[j] = outcome[j]
        /\ P!IsText(held') => read'[id] = read[id] + 1 /\ outcome'[id] = outcome[id]
        /\ ~P!IsText(held') => read'[id] = read[id] /\ outcome'[id] = held'.kind
    BY <2>1, BridgeAssumed, P!TakeReads
  <2>3. /\ held = B!NoEvent /\ held' # B!NoEvent
        /\ \A j \in B!Id \ {id} : read'[j] = read[j]
        /\ B!IsText(held') => read'[id] = read[id] + 1
        /\ ~B!IsText(held') => read'[id] = read[id] /\ outcome'[id] = held'.kind
    BY <2>2 DEF B!Id, P!Id, B!NoId, P!NoId, B!NoEvent, P!NoEvent, B!TextKind, P!TextKind,
      B!IsText, P!IsText
  <2>4. next \in Step /\ Plain(next)
    BY <1>3, StepsTyped, PlainKinds
  <2>5. next.do = "use" /\ next.k = k
    OBVIOUS
  <2>6. UNCHANGED <<ops, nextStream, nativeOf, tokens, ended>>
    BY <1>2 DEF tables, seen
  <2>. HIDE DEF next
  <2>7. <<next>> \in Seq(Step) /\ PlainSteps(<<next>>)
    BY <2>4, PlainLists
  <2>8. /\ \A i \in DOMAIN todo' : ~Claims(todo'[i])
        /\ \A j : ToCreate(j)' => ToCreate(j)
    BY <1>2, <1>5, <2>7, PlainContinue
  <2>9. It' = next
    BY <1>2, <1>5, <2>4, PushedOne, HeadStep DEF It, WInv
  <2>10. ClaimsSound'
    <3>1. ASSUME held'.kind = B!Complete PROVE outcome'[id] = B!Complete
      BY <2>3, <3>1 DEF B!IsText, B!TextKind, B!Complete
    <3>2. It'.k = k /\ ops'[k].native = id
      BY <1>1, <2>5, <2>6, <2>9
    <3>. QED BY <2>8, <3>1, <3>2 DEF ClaimsSound
  <2>11. AllForwarded'
    <3>. SUFFICES ASSUME NEW j \in Running' PROVE Forwarded(j)'
      BY DEF AllForwarded
    <3>1. j \in Running /\ ops'[j] = ops[j]
      BY <2>6 DEF Running
    <3>2. Forwarded(j) /\ ~Now("cancel")
      BY <1>2, <3>1 DEF Tallies, AllForwarded, Now, It
    <3>3. InHand(j) = 0
      BY <2>3 DEF InHand
    <3>4. InHand(j)' = IF B!IsText(held') /\ k = j THEN 1 ELSE 0
      BY <2>3, <2>5, <2>9 DEF InHand
    <3>5. ops[j].native \in B!Id /\ read[ops[j].native] \in Nat /\ tokens[j] \in Nat
      <4>1. ops[j].native \in B!Id /\ j \in Stream
        BY <1>2, <3>1, WorkedOn
      <4>2. ops[j].native \in P!Id
        BY <4>1 DEF B!Id, P!Id
      <4>. QED BY <4>1, <4>2 DEF P!Inv, P!TypeOK, WInv, WorkerTypeOK
    <3>6. CASE j = k
      <4>1. ops[j].native = id
        BY <1>1, <3>6
      <4>2. tokens[j] + InHand(j)' = read'[id] \/ tokens[j] + 0 # read[id]
        BY <2>3, <3>4, <3>5, <3>6, <4>1
      <4>. QED BY <2>6, <3>1, <3>2, <3>3, <4>1, <4>2 DEF Forwarded
    <3>7. CASE j # k
      <4>1. ops[j].native # id
        BY <1>1, <1>3, <3>1, <3>7 DEF WInv, TablesInv, Registered
      <4>2. read'[ops[j].native] = read[ops[j].native]
        BY <2>3, <3>5, <4>1
      <4>3. InHand(j)' = 0
        BY <3>4, <3>7
      <4>. QED BY <2>6, <3>1, <3>2, <3>3, <4>2, <4>3 DEF Forwarded
    <3>. QED BY <3>6, <3>7
  <2>12. EndedWhole'
    BY <2>6, EndedKept DEF Tallies
  <2>13. Unbegun'
    BY <2>6, <2>8 DEF Tallies, Unbegun
  <2>. QED BY <2>10, <2>11, <2>12, <2>13 DEF Tallies
<1>. QED BY <1>2, <1>4, <1>5

\* One step may claim, if it is the next one.
LEMMA ClaimContinue ==
  ASSUME WInv, Tallies, todo # <<>>, NEW step \in Step, step.do # "create",
         Continue(<<step>>)
  PROVE  /\ \A i \in DOMAIN todo' : Claims(todo'[i]) => i = 1 /\ todo'[i] = step
         /\ \A k : ToCreate(k)' => ToCreate(k)
<1>0. PICK steps \in Seq(Step) : steps = <<step>>
  OBVIOUS
<1>1. Len(steps) = 1 /\ steps[1] = step
  BY <1>0
<1>2. Continue(steps) /\ todo \in Seq(Step)
  BY <1>0 DEF WInv
<1>3. /\ DOMAIN steps = 1 .. Len(steps) /\ Len(steps) \in Nat
      /\ DOMAIN todo' \subseteq Nat
      /\ \A i \in DOMAIN todo' :
              \/ i \in 1 .. Len(steps) /\ todo'[i] = steps[i]
              \/ /\ i > Len(steps)
                 /\ (i - Len(steps)) + 1 \in DOMAIN todo
                 /\ todo'[i] = todo[(i - Len(steps)) + 1]
  BY <1>2, Shift
<1>4. ASSUME NEW i \in DOMAIN todo'
      PROVE  /\ Claims(todo'[i]) => i = 1 /\ todo'[i] = step
             /\ todo'[i].do = "create" => \E j \in DOMAIN todo : todo'[i] = todo[j]
  <2>1. CASE i \in 1 .. 1 /\ todo'[i] = steps[i]
    BY <1>1, <1>3, <2>1
  <2>2. CASE i > 1 /\ (i - 1) + 1 \in DOMAIN todo /\ todo'[i] = todo[(i - 1) + 1]
    <3>1. (i - 1) + 1 # 1
      BY <1>3, <2>2
    <3>. QED BY <2>2, <3>1 DEF Tallies, ClaimsSound
  <2>. QED BY <1>1, <1>3, <2>1, <2>2
<1>. QED BY <1>4 DEF ToCreate

\* The event is used: a text is forwarded or dropped, a terminal finishes.
LEMMA UseTallies ==
  ASSUME WInv, P!Inv, Tallies, Lasts, Use
  PROVE  Tallies'
<1>1. PICK k : k = It.k
  OBVIOUS
<1>. DEFINE next == FinishStep(k, held.kind, FALSE)
            same == tokens' = [tokens EXCEPT ![k] = @ + 0]
            more == tokens' = [tokens EXCEPT ![k] = @ + 1]
<1>2. /\ todo # <<>> /\ It.do = "use"
      /\ UNCHANGED ops \/ ops' = [ops EXCEPT ![k].credit = FALSE]
      /\ \/ ops[k].cancelRequested /\ Continue(<<>>) /\ same
         \/ B!IsText(held) /\ Continue(<<>>) /\ more
         \/ ~B!IsText(held) /\ Continue(<<next>>) /\ same
         \/ Continue(FailSteps(k)) /\ same
      /\ UNCHANGED <<nextStream, nativeOf, ended>>
  BY <1>1 DEF Use, Now, It
<1>3. /\ held # B!NoEvent /\ held' = B!NoEvent
      /\ UNCHANGED <<read, outcome>>
  BY DEF Use, B!lrlm_event_delete, B!history
<1>4. k \in Running /\ k \in Stream
  BY <1>1, <1>2, HeadOperation DEF OnOperation
<1>5. /\ tokens \in [Stream -> Nat] /\ tokens[k] \in Nat
      /\ ops[k].native \in B!Id /\ read[ops[k].native] \in Nat
  <2>1. ops[k].native \in B!Id /\ ops[k].native \in P!Id
    BY <1>2, <1>4, WorkedOn DEF B!Id, P!Id
  <2>. QED BY <1>4, <2>1 DEF P!Inv, P!TypeOK, WInv, WorkerTypeOK
<1>6. /\ Running' = Running
      /\ \A j \in Running : /\ ops'[j].native = ops[j].native
                            /\ ops'[j].cancelRequested = ops[j].cancelRequested
                            /\ ops'[j].backpressure = ops[j].backpressure
  <2>1. CASE UNCHANGED ops
    BY <2>1 DEF Running
  <2>2. CASE ops' = [ops EXCEPT ![k].credit = FALSE]
    <3>1. /\ DOMAIN ops' = DOMAIN ops
          /\ ops'[k] = [ops[k] EXCEPT !.credit = FALSE]
          /\ \A j \in Running \ {k} : ops'[j] = ops[j]
      BY <1>4, <2>2 DEF Running
    <3>2. ops[k] \in NativeOperation
      BY <1>2, <1>4, WorkedOn
    <3>3. /\ ops'[k].native = ops[k].native
          /\ ops'[k].cancelRequested = ops[k].cancelRequested
          /\ ops'[k].backpressure = ops[k].backpressure
      BY <3>1, <3>2 DEF NativeOperation
    <3>. QED BY <3>1, <3>3 DEF Running
  <2>. QED BY <1>2, <2>1, <2>2
<1>7. /\ \A j \in Stream \ {k} : tokens'[j] = tokens[j]
      /\ same => tokens'[k] = tokens[k]
      /\ more => tokens'[k] = tokens[k] + 1
  BY <1>2, <1>4, <1>5
<1>. HIDE DEF same, more
<1>8. Forwarded(k) /\ ~Now("cancel") /\ (~ops[k].cancelRequested =>
                                           tokens[k] + InHand(k) = read[ops[k].native])
  BY <1>2, <1>4 DEF Tallies, AllForwarded, Forwarded, Now, It
<1>9. ASSUME NEW j \in Running, j # k PROVE Forwarded(j)'
  <2>1. Forwarded(j) /\ ~Now("cancel") /\ j \in Stream
    BY <1>2, WorkedOn DEF Tallies, AllForwarded, Now, It
  <2>2. InHand(j) = 0 /\ InHand(j)' = 0
    BY <1>1, <1>3, <1>9 DEF InHand
  <2>3. tokens'[j] = tokens[j]
    BY <1>7, <1>9, <2>1
  <2>. QED BY <1>2, <1>3, <1>6, <2>1, <2>2, <2>3 DEF Forwarded
<1>10. InHand(k)' = 0 /\ InHand(k) = IF B!IsText(held) THEN 1 ELSE 0
  BY <1>1, <1>3 DEF InHand
<1>11. EndedWhole'
  <2>1. ended[k] = "no"
    BY <1>4 DEF WInv, TablesInv, OperationsKnown
  <2>. QED BY <1>2, <1>7, <2>1, EndedKept DEF Tallies
<1>12. /\ nativeOf'[k] = ops'[k].native
       /\ ops'[k].backpressure => ops'[k].cancelRequested
  BY <1>2, <1>4, <1>6, <1>8 DEF Forwarded
<1>13. held'.kind # B!Complete
  BY <1>3 DEF B!NoEvent, B!TextKind, B!Complete
<1>14. ASSUME \A j : ToCreate(j)' => ToCreate(j) PROVE Unbegun'
  <2>1. \A j : ~ToCreate(j)
    BY <1>2, NoBeginning DEF ToCreate, Beginning
  <2>2. ASSUME NEW j \in Stream, j >= nextStream PROVE tokens'[j] = 0
    <3>1. k < nextStream /\ nextStream \in Nat
      BY <1>4 DEF WInv, TablesInv, OperationsKnown, WorkerTypeOK
    <3>2. j # k
      BY <2>2, <3>1, <1>4 DEF Stream
    <3>. QED BY <1>7, <2>2, <3>2 DEF Tallies, Unbegun
  <2>. QED BY <1>2, <1>14, <2>1, <2>2 DEF Unbegun
<1>15. ASSUME NEW steps \in Seq(Step), PlainSteps(steps), Continue(steps),
              Forwarded(k)'
       PROVE  Tallies'
  <2>1. /\ \A i \in DOMAIN todo' : ~Claims(todo'[i])
        /\ \A j : ToCreate(j)' => ToCreate(j)
    BY <1>2, <1>15, PlainContinue
  <2>2. ClaimsSound'
    BY <1>13, <2>1 DEF ClaimsSound
  <2>3. AllForwarded'
    BY <1>6, <1>9, <1>15 DEF AllForwarded
  <2>. QED BY <1>11, <1>14, <2>1, <2>2, <2>3 DEF Tallies
<1>16. <<>> \in Seq(Step) /\ PlainSteps(<<>>)
  BY DEF PlainSteps
<1>17. CASE ops[k].cancelRequested /\ Continue(<<>>) /\ same
  <2>1. Forwarded(k)'
    BY <1>4, <1>6, <1>12, <1>17 DEF Forwarded
  <2>. QED BY <1>15, <1>16, <1>17, <2>1
<1>18. CASE B!IsText(held) /\ Continue(<<>>) /\ more
  <2>1. ops[k].cancelRequested \/ tokens[k] + 1 = read[ops[k].native]
    BY <1>8, <1>10, <1>18
  <2>2. ops[k].cancelRequested \/ tokens'[k] + 0 = read[ops[k].native]
    BY <1>5, <1>7, <1>18, <2>1
  <2>3. Forwarded(k)'
    BY <1>3, <1>4, <1>6, <1>10, <1>12, <2>2 DEF Forwarded
  <2>. QED BY <1>15, <1>16, <1>18, <2>3
<1>19. CASE ~B!IsText(held) /\ Continue(<<next>>) /\ same
  <2>1. held \in B!Event
    BY <1>3, BridgeTypes DEF B!TypeOK
  <2>2. held.kind \in Kind
    BY <1>19, <2>1, KindsDiffer DEF B!Event, B!IsText
  <2>3. /\ next \in Step /\ next.do = "finish" /\ next.k = k
        /\ next.kind = held.kind
    BY <1>4, <2>2, StepsTyped DEF FinishStep
  <2>. HIDE DEF next
  <2>4. /\ \A i \in DOMAIN todo' : Claims(todo'[i]) => i = 1 /\ todo'[i] = next
        /\ \A j : ToCreate(j)' => ToCreate(j)
    BY <1>2, <1>19, <2>3, ClaimContinue
  <2>5. Claims(next) => outcome[ops[k].native] = B!Complete
    BY <1>1, <2>3 DEF Claims, Tallies, ClaimsSound
  <2>6. ClaimsSound'
    <3>. SUFFICES ASSUME NEW i \in DOMAIN todo', Claims(todo'[i])
                  PROVE  i = 1 /\ outcome'[ops'[todo'[i].k].native] = B!Complete
      BY <1>13 DEF ClaimsSound
    <3>1. i = 1 /\ todo'[i] = next
      BY <2>4
    <3>2. ops'[next.k].native = ops[k].native
      BY <1>4, <1>6, <2>3
    <3>. QED BY <1>3, <2>5, <3>1, <3>2
  <2>7. Forwarded(k)'
    <3>1. ops[k].cancelRequested \/ tokens[k] + 0 = read[ops[k].native]
      BY <1>8, <1>10, <1>19
    <3>2. tokens'[k] = tokens[k]
      BY <1>7, <1>19
    <3>. QED BY <1>3, <1>4, <1>6, <1>10, <1>12, <3>1, <3>2 DEF Forwarded
  <2>8. AllForwarded'
    BY <1>6, <1>9, <2>7 DEF AllForwarded
  <2>. QED BY <1>11, <1>14, <2>4, <2>6, <2>8 DEF Tallies
<1>20. CASE Continue(FailSteps(k)) /\ same
  <2>1. FailSteps(k) \in Seq(Step) /\ PlainSteps(FailSteps(k))
    BY <1>2, <1>4, FailPlain
  <2>2. Now("cancel")' /\ It'.k = k
    <3>. DEFINE a == CancelStep(k, FALSE)
                b == JoinStep(ops[k].session)
                c == FinishStep(k, B!Error, TRUE)
    <3>1. a \in Step /\ b \in Step /\ c \in Step
      BY <1>2, <1>4, WorkedOn, StepsTyped, KindsDiffer
    <3>2. a.do = "cancel" /\ a.k = k
      BY DEF CancelStep
    <3>3. FailSteps(k) = <<a, b, c>>
      BY DEF FailSteps
    <3>. HIDE DEF a, b, c
    <3>4. 1 \in DOMAIN todo' /\ todo'[1] = a
      BY <1>2, <1>20, <3>1, <3>3, PushedThree
    <3>5. todo' # <<>> /\ It' = a
      BY <3>4 DEF It
    <3>. QED BY <3>2, <3>5 DEF Now, It
  <2>3. Forwarded(k)'
    BY <1>12, <2>2 DEF Forwarded
  <2>. QED BY <1>15, <1>20, <2>1, <2>3
<1>. QED BY <1>2, <1>17, <1>18, <1>19, <1>20

\* A turn that counts is retired as what it was taken for.
LEMMA FinishCommitsTallies ==
  ASSUME WInv, P!Inv, Tallies, Lasts, FinishCommits
  PROVE  Tallies'
<1>1. PICK k : k = It.k
  OBVIOUS
<1>2. PICK step : step = RetireStep(It)
  OBVIOUS
<1>3. /\ todo # <<>> /\ It.do = "finish" /\ ~Discards(It)
      /\ Continue(<<step>>)
      /\ UNCHANGED <<bridge, ops, seen>>
  BY <1>2 DEF FinishCommits, Now, It
<1>4. UNCHANGED <<held, read, outcome, nextStream, nativeOf, tokens, ended>>
  BY <1>3 DEF bridge, seen
<1>5. /\ 1 \in DOMAIN todo /\ It = todo[1] /\ k \in Stream
      /\ It.kind \in Kind /\ It.kind = B!Complete
  BY <1>1, <1>3, HeadStep, StepFields DEF WInv, OnOperation, Discards
<1>6. step = [do |-> "retire", k |-> k, kind |-> B!Complete,
              cancelled |-> FinishCancelled(It)]
  BY <1>1, <1>2, <1>5 DEF RetireStep
<1>7. FinishCancelled(It) \in BOOLEAN
  BY DEF FinishCancelled
<1>8. step \in Step /\ step.do = "retire" /\ step.k = k
  BY <1>5, <1>6, <1>7, StepsTyped
<1>9. outcome[ops[k].native] = B!Complete
  <2>1. Claims(todo[1])
    BY <1>3, <1>5 DEF Claims, Ending
  <2>. QED BY <1>1, <1>5, <2>1 DEF Tallies, ClaimsSound
<1>10. /\ \A i \in DOMAIN todo' : Claims(todo'[i]) => i = 1 /\ todo'[i] = step
       /\ \A j : ToCreate(j)' => ToCreate(j)
  BY <1>3, <1>8, ClaimContinue
<1>11. CalmStep
  <2>1. UNCHANGED <<held, read, ops, seen>>
    BY <1>3 DEF bridge
  <2>. QED BY <1>3, <2>1, NothingMoved DEF seen, asked
<1>12. Still
  BY <1>3, <1>11, CalmStill
<1>13. ClaimsSound'
  <2>1. held'.kind # B!Complete
    BY <1>12 DEF Still, B!NoEvent, B!TextKind, B!Complete
  <2>2. \A i \in DOMAIN todo' :
           Claims(todo'[i]) => i = 1 /\ outcome'[ops'[todo'[i].k].native] = B!Complete
    BY <1>3, <1>4, <1>8, <1>9, <1>10
  <2>. QED BY <2>1, <2>2 DEF ClaimsSound
<1>14. AllForwarded'
  BY <1>12, StillForwarded
<1>15. EndedWhole'
  BY <1>4, EndedKept DEF Tallies
<1>16. Unbegun'
  BY <1>4, <1>10 DEF Tallies, Unbegun
<1>. QED BY <1>13, <1>14, <1>15, <1>16 DEF Tallies

\* A stream that is reported complete was read to its end.
LEMMA RetireTallies ==
  ASSUME WInv, P!Inv, P!Ledger, Tallies, Lasts, Retire
  PROVE  Tallies'
<1>1. PICK k, id : k = It.k /\ id = ops[k].native
  BY Zenon
<1>2. /\ todo # <<>> /\ It.do = "retire" /\ Continue(<<>>)
      /\ ops' = Restrict(ops, Running \ {k})
      /\ ended' = IF fatalExit THEN ended ELSE [ended EXCEPT ![k] = TerminalEvent(It)]
      /\ UNCHANGED <<nextStream, nativeOf, tokens, held, read>>
  BY <1>1, Zenon DEF Retire, Now, It, B!lrlm_operation_delete, B!history
<1>3. k \in Running /\ k \in Stream /\ 1 \in DOMAIN todo /\ It = todo[1] /\ id \in B!Id
  BY <1>1, <1>2, HeadOperation, WorkedOn DEF OnOperation
<1>4. Running' = Running \ {k} /\ \A j \in Running' : ops'[j] = ops[j]
  BY <1>2 DEF Running, Restrict
<1>5. /\ \A i \in DOMAIN todo' : ~Claims(todo'[i])
      /\ \A j : ToCreate(j)' => ToCreate(j)
  <2>1. <<>> \in Seq(Step) /\ PlainSteps(<<>>)
    BY DEF PlainSteps
  <2>. QED BY <1>2, <2>1, PlainContinue
<1>6. held = B!NoEvent /\ held' = B!NoEvent
  BY <1>2 DEF WInv, ThreadsInv, Held, Now, It
<1>7. Still
  BY <1>2, <1>4, <1>6 DEF Still, Now, It
<1>8. ClaimsSound'
  BY <1>5, <1>6 DEF ClaimsSound, B!NoEvent, B!TextKind, B!Complete
<1>9. AllForwarded'
  BY <1>7, StillForwarded
<1>10. ended \in [Stream -> StreamEnd]
  BY DEF WInv, WorkerTypeOK
<1>11. ASSUME TerminalEvent(It) = "complete"
       PROVE  nativeOf[k] = id /\ object[id].final /\ tokens[k] = texts[id]
  <2>1. ~It.cancelled /\ It.kind = B!Complete
    BY <1>11 DEF TerminalEvent
  <2>2. outcome[id] = B!Complete
    BY <1>1, <1>2, <1>3, <2>1 DEF Claims, Ending, Tallies, ClaimsSound
  <2>3. ~ops[k].cancelRequested
    BY <1>1, <1>2, <1>3, <2>1 DEF WInv, StepsInv, StepsSound, RetireOK, At
  <2>4. Forwarded(k) /\ InHand(k) = 0 /\ ~Now("cancel")
    BY <1>2, <1>3, <1>6 DEF Tallies, AllForwarded, InHand, Now, It
  <2>5. tokens[k] + 0 = read[id] /\ nativeOf[k] = id
    BY <1>1, <2>3, <2>4 DEF Forwarded
  <2>6. tokens[k] = read[id]
    BY <1>3, <2>5 DEF WInv, WorkerTypeOK
  <2>7. id \in P!Id /\ P!Complete = B!Complete
    BY <1>3 DEF P!Id, B!Id, P!Complete, B!Complete
  <2>. QED BY <2>2, <2>5, <2>6, <2>7 DEF P!Ledger, P!AllRead
<1>12. EndedWhole'
  <2>. HIDE DEF TerminalEvent
  <2>. SUFFICES ASSUME NEW j \in Stream, ended'[j] = "complete"
                PROVE  /\ nativeOf'[j] \in B!Id
                       /\ object'[nativeOf'[j]].final
                       /\ tokens'[j] = texts'[nativeOf'[j]]
    BY DEF EndedWhole
  <2>1. CASE ended[j] = "complete"
    BY <1>2, <2>1 DEF Tallies, EndedWhole, Lasts
  <2>2. CASE ended[j] # "complete"
    <3>1. j = k /\ TerminalEvent(It) = "complete"
      BY <1>2, <1>3, <1>10, <2>2
    <3>. QED BY <1>2, <1>3, <1>11, <3>1 DEF Lasts
  <2>. QED BY <2>1, <2>2
<1>13. Unbegun'
  BY <1>2, <1>5 DEF Tallies, Unbegun
<1>. QED BY <1>8, <1>9, <1>12, <1>13 DEF Tallies

\* Between two handlers nothing is in the worker's hands.
LEMMA CommandTallies ==
  ASSUME WInv, Tallies, Lasts, todo = <<>>, PlainSteps(todo'),
         UNCHANGED <<held, read, ops, nativeOf, tokens, nextStream, ended>>
  PROVE  Tallies'
<1>1. Still
  BY Settled DEF Still, Now, Running
<1>2. /\ \A i \in DOMAIN todo' : ~Claims(todo'[i])
      /\ \A j : ~ToCreate(j)'
  BY DEF PlainSteps, Plain, ToCreate
<1>. QED BY <1>1, <1>2, StillKeeps

LEMMA HandlerTallies ==
  ASSUME WInv, Tallies, Lasts, NEW steps, PlainSteps(steps), Handler(steps)
  PROVE  Tallies'
<1>1. todo = <<>> /\ todo' = steps
      /\ UNCHANGED <<held, read, ops, nativeOf, tokens, nextStream, ended>>
  BY DEF Handler, Idle, bridge, tables, seen
<1>. QED BY <1>1, CommandTallies

LEMMA OneStepTallies ==
  ASSUME WInv, Tallies, Lasts, NEW step, Plain(step), Handler(<<step>>)
  PROVE  Tallies'
<1>1. PlainSteps(<<step>>)
  BY DEF PlainSteps
<1>. QED BY <1>1, HandlerTallies

LEMMA SameTodo ==
  ASSUME WInv, Tallies, Lasts, todo = <<>>, todo' = todo,
         UNCHANGED <<held, read, ops, nativeOf, tokens, nextStream, ended>>
  PROVE  Tallies'
<1>1. PlainSteps(todo')
  BY DEF PlainSteps
<1>. QED BY <1>1, CommandTallies

LEMMA RefusedTallies ==
  ASSUME WInv, Tallies, Lasts, NEW s \in Session, GenerateRefused(s)
  PROVE  Tallies'
<1>1. /\ todo = <<>> /\ todo' = todo
      /\ ended' = [ended EXCEPT ![nextStream] = "error"]
      /\ nextStream' = nextStream + 1
      /\ UNCHANGED <<held, read, ops, nativeOf, tokens>>
  BY DEF GenerateRefused, Idle, bridge
<1>2. Still
  BY <1>1, Settled DEF Still, Now, Running
<1>3. \A k \in Stream : ended'[k] = "complete" => ended[k] = "complete"
  BY <1>1 DEF WInv, WorkerTypeOK
<1>. QED BY <1>1, <1>2, <1>3, StillKeeps DEF ToCreate

LEMMA CreditTallies ==
  ASSUME WInv, Tallies, Lasts, NEW k \in Stream, credit(k)
  PROVE  Tallies'
<1>1. /\ todo = <<>> /\ todo' = todo /\ k \in Running
      /\ ops' = [ops EXCEPT ![k].credit = TRUE]
      /\ UNCHANGED <<held, read, nativeOf, tokens, nextStream, ended>>
  BY DEF credit, Idle, bridge, seen
<1>2. /\ Running' = Running
      /\ \A j \in Running : /\ ops'[j].native = ops[j].native
                            /\ ops'[j].cancelRequested = ops[j].cancelRequested
                            /\ ops'[j].backpressure = ops[j].backpressure
  <2>1. /\ DOMAIN ops' = DOMAIN ops
        /\ ops'[k] = [ops[k] EXCEPT !.credit = TRUE]
        /\ \A j \in Running \ {k} : ops'[j] = ops[j]
    BY <1>1 DEF Running
  <2>2. ops[k] \in NativeOperation
    BY <1>1 DEF WInv, WorkerTypeOK
  <2>3. /\ ops'[k].native = ops[k].native
        /\ ops'[k].cancelRequested = ops[k].cancelRequested
        /\ ops'[k].backpressure = ops[k].backpressure
    BY <2>1, <2>2 DEF NativeOperation
  <2>. QED BY <2>1, <2>3 DEF Running
<1>3. Still
  BY <1>1, <1>2, Settled DEF Still, Now
<1>. QED BY <1>1, <1>3, StillKeeps DEF ToCreate

\* A generate begins the next stream, for which nothing was forwarded.
LEMMA GenerateTallies ==
  ASSUME WInv, Tallies, Lasts, NEW s \in Session, NEW batch \in BOOLEAN,
         _generate(s, batch)
  PROVE  Tallies'
<1>. DEFINE k == nextStream
            j == JoinStep(s)
            r == ReopenStep(s, k)
            c == CreateStep(s, k, batch)
            b == StartStep(s, k)
            d == StartedStep(s, k)
<1>1. /\ todo = <<>> /\ k <= MaxStream
      /\ nextStream' = nextStream + 1
      /\ todo' = (IF batch THEN <<j, r>> ELSE <<>>) \o <<c, b, d>>
      /\ UNCHANGED <<held, read, ops, nativeOf, tokens, ended>>
  BY DEF _generate, Idle, bridge, ReopenStep, CreateStep, StartStep, StartedStep
<1>2. k \in Stream
  BY <1>1 DEF WInv, WorkerTypeOK, Stream
<1>3. /\ j \in Step /\ r \in Step /\ c \in Step /\ b \in Step /\ d \in Step
  BY <1>2, StepsTyped
<1>4. /\ Plain(j) /\ Plain(r) /\ Plain(b) /\ Plain(d)
      /\ ~Claims(c) /\ c.k = k
  BY PlainKinds DEF Claims, Ending, CreateStep
<1>5. Still
  BY <1>1, Settled DEF Still, Now, Running
<1>. HIDE DEF j, r, c, b, d
<1>6. todo' = <<j, r, c, b, d>> \/ todo' = <<c, b, d>>
  <2>1. <<>> \o <<c, b, d>> = <<c, b, d>>
    BY <1>3
  <2>2. <<j, r>> \o <<c, b, d>> = <<j, r, c, b, d>>
    BY <1>3, Concat23
  <2>. QED BY <1>1, <2>1, <2>2
<1>7. \A i \in DOMAIN todo' : Plain(todo'[i]) \/ todo'[i] = c
  BY <1>4, <1>6
<1>8. /\ \A i \in DOMAIN todo' : ~Claims(todo'[i])
      /\ \A h : ToCreate(h)' => h = nextStream
  BY <1>4, <1>7 DEF Plain, ToCreate
<1>. QED BY <1>1, <1>5, <1>8, StillKeeps

LEMMA CommandsTally == ASSUME WInv, Tallies, Lasts, Command \/ Tick PROVE Tallies'
<1>1. CASE _loadEngine
  BY <1>1, SameTodo DEF _loadEngine, Idle, bridge, seen
<1>2. CASE close \/ testCrash
  BY <1>2, PlainKinds, OneStepTallies DEF close, testCrash
<1>3. ASSUME NEW e \in Engine, NEW conversation \in Conversation,
             NEW configured \in Configured,
             _createSession(e, conversation, Prompt(configured))
      PROVE  Tallies'
  BY <1>3, SameTodo DEF _createSession, Idle, bridge
<1>4. ASSUME NEW e \in Engine, disposeEngine(e) PROVE Tallies'
  BY <1>4, PlainKinds, OneStepTallies DEF disposeEngine, _disposeEngine
<1>5. ASSUME NEW s \in Session, _budget(s) PROVE Tallies'
  BY <1>5, SameTodo DEF _budget, Idle, bridge, seen
<1>6. ASSUME NEW s \in Session, GenerateRefused(s) PROVE Tallies'
  BY <1>6, RefusedTallies
<1>7. ASSUME NEW s \in Session, NEW batch \in BOOLEAN, _generate(s, batch)
      PROVE  Tallies'
  BY <1>7, GenerateTallies
<1>8. ASSUME NEW s \in Session, cancelSession(s) PROVE Tallies'
  BY <1>8, PlainKinds, OneStepTallies DEF cancelSession
<1>9. ASSUME NEW s \in Session, disposeSession(s) PROVE Tallies'
  BY <1>9, DisposalPlain, HandlerTallies DEF disposeSession, WInv
<1>10. ASSUME NEW k \in Stream, credit(k) PROVE Tallies'
  BY <1>10, CreditTallies
<1>11. ASSUME NEW k \in Stream, cancelStream(k) PROVE Tallies'
  BY <1>11, PlainKinds, OneStepTallies DEF cancelStream
<1>12. CASE Tick
  BY <1>12, PlainKinds, OneStepTallies DEF Tick
<1>. QED BY <1>1, <1>2, <1>3, <1>4, <1>5, <1>6, <1>7, <1>8, <1>9, <1>10, <1>11, <1>12 DEF
  Command

\* The runtime's threads touch nothing the tallies are about, but what lasts.
LEMMA UntouchedTallies ==
  ASSUME WInv, P!Inv, Tallies, Lasts,
         UNCHANGED <<todo, held, ops, read, tokens, nativeOf, ended, nextStream>>
  PROVE  Tallies'
<1>1. ASSUME NEW i \in DOMAIN todo, Claims(todo[i])
      PROVE  i = 1 /\ outcome'[ops[todo[i].k].native] = B!Complete
  <2>1. todo[i].k \in Running
    BY <1>1 DEF WInv, StepsInv, StepsLive, At, Claims, Ending, OnOperation
  <2>2. ops[todo[i].k].native \in B!Id
    BY <2>1 DEF WInv, WorkerTypeOK, NativeOperation
  <2>. QED BY <1>1, <2>2 DEF Tallies, ClaimsSound, Lasts
<1>2. ASSUME held.kind = B!Complete PROVE outcome'[ops[It.k].native] = B!Complete
  <2>1. todo # <<>> /\ It.do = "use"
    BY <1>2 DEF WInv, ThreadsInv, Held, Now, It, B!NoEvent, B!TextKind, B!Complete
  <2>2. ops[It.k].native \in B!Id
    BY <2>1, HeadOperation, WorkedOn DEF OnOperation
  <2>. QED BY <1>2, <2>2 DEF Tallies, ClaimsSound, Lasts
<1>3. It' = It
  BY DEF It
<1>4. ClaimsSound'
  BY <1>1, <1>2, <1>3 DEF ClaimsSound
<1>5. AllForwarded'
  BY <1>3 DEF Tallies, AllForwarded, Forwarded, InHand, Running, Now, It
<1>6. EndedWhole'
  BY EndedKept DEF Tallies
<1>7. Unbegun'
  BY DEF Tallies, Unbegun, ToCreate
<1>. QED BY <1>4, <1>5, <1>6, <1>7 DEF Tallies

LEMMA TalliesStep ==
  WInv /\ P!Inv /\ P!Ledger /\ Tallies /\ [Next]_vars => Tallies'
<1>. SUFFICES ASSUME WInv, P!Inv, P!Ledger, Tallies, [Next]_vars PROVE Tallies'
  OBVIOUS
<1>1. Lasts
  BY BridgeLasts
<1>2. CASE Command \/ Tick
  BY <1>1, <1>2, CommandsTally
<1>3. CASE HandlerStep
  BY <1>1, <1>3, PoppingTallies, AbortingTallies, CreateTallies, StartedTallies, CancelTallies,
    PumpTallies, PollTallies, TakeTallies, UseTallies, FinishDiscardsTallies,
    FinishCommitsTallies, FinishThrowsTallies, RetireTallies, DisposeNextTallies,
    CloseNextTallies DEF HandlerStep
<1>4. CASE Runtime
  <2>1. UNCHANGED <<todo, held, ops, read, tokens, nativeOf, ended, nextStream>>
    BY <1>4 DEF Runtime, RuntimeFind, RuntimeRun, RuntimeEnd, worker, bridge, tables, seen,
      B!CallbackFind, B!CallbackRun, B!history
  <2>. QED BY <1>1, <2>1, UntouchedTallies
<1>5. CASE UNCHANGED vars
  BY <1>1, <1>5, UntouchedTallies DEF vars, bridge, tables, seen
<1>. QED BY <1>2, <1>3, <1>4, <1>5 DEF Next

\* A stream that was reported complete had every text the runtime produced for
\* it, however late the consumer gave credit (_pump takes what a final operation
\* has left), and the runtime never adds one.
THEOREM CompleteForwardsAll == Spec => []CompleteMeansAll
<1>1. Init => Tallies
  BY TalliesInit
<1>2. P!Inv /\ WInv /\ P!Ledger /\ Tallies /\ [Next]_vars => Tallies'
  BY TalliesStep
<1>3. Tallies => CompleteMeansAll
  BY DEF Tallies, EndedWhole, CompleteMeansAll
<1>. QED BY <1>1, <1>2, <1>3, WorkerInvariant, WorkerKeepsAccounts, PTL DEF Spec

-----------------------------------------------------------------------------
(* A conversation's history is what it was created with and the turns that *)
(* were reported complete.                                                 *)

\* What a native handle knows.
Said(s) == sessions[s].handle.preface \o sessions[s].handle.said

\* What it should know of the past: the committed turns, and the prefix of a
\* batch that did not start.
Context(s) == completed[s] \o leftover[s]

Lead(k, batch) == IF batch THEN <<Extra(k)>> ELSE <<>>

\* The message a reopened handle has of the turn that is about to begin.
Opening(s) ==
    IF Now("create") /\ It.s = s THEN Lead(It.k, It.batch) ELSE <<>>

\* The turn is in the session's history and about to be reported.
Committing(k) == Now("retire") /\ It.k = k /\ Claims(It)

\* An idle session's handle knows the past and nothing else.  One that is opened
\* for a batch has nothing left in it.
IdleTold(s) ==
    /\ sessions[s].history = completed[s]
    /\ sessions[s].handle.open => Said(s) = Context(s) \o Opening(s)
    /\ Opening(s) # <<>> => leftover[s] = <<>>

\* A busy one's knows its question, and its answer when the runtime says so.
BusyTold(s, k) ==
    LET native == ops[k].native
        before == Context(s) \o Lead(k, ops[k].batch)
        whole  == Context(s) \o Turn(k, ops[k].batch)
    IN  /\ sessions[s].history = IF Committing(k) THEN whole ELSE completed[s]
        /\ ops[k].batch => leftover[s] = <<>>
        /\ sessions[s].handle.open =>
              /\ ~object[native].started => Said(s) = before
              /\ object[native].started /\ ~object[native].final =>
                    Said(s) = Append(before, Ask(k))
              /\ P!Completing(native) => Said(s) = whole

\* A handle that is gone leaves nothing.
ClosedTold(s) == ~sessions[s].handle.open => leftover[s] = <<>>

SessionTold(s) ==
    sessions[s].conversation =>
        /\ ClosedTold(s)
        /\ sessions[s].streamId = NoStream => IdleTold(s)
        /\ \A k \in Stream : sessions[s].streamId = k => BusyTold(s, k)

\* A turn is retired when it is completed, or its handle is gone.
RetireTold == Now("retire") => Claims(It) \/ ~HandleOf(It.k).open

CompletedTyped ==
    /\ completed \in [Session -> Seq(Message)]
    /\ leftover \in [Session -> Seq(Message)]
    /\ \A s \in Session :
          s >= nextSession => completed[s] = <<>> /\ leftover[s] = <<>>

Told == (\A s \in Alive : SessionTold(s)) /\ RetireTold /\ CompletedTyped

\* A message said behind a joined list.
LEMMA JoinedLast ==
  ASSUME NEW S, NEW p \in Seq(S), NEW q \in Seq(S), NEW x \in S
  PROVE  p \o Append(q, x) = Append(p \o q, x)
<1>1. <<x>> \in Seq(S) /\ p \o q \in Seq(S)
  OBVIOUS
<1>2. Append(q, x) = q \o <<x>> /\ Append(p \o q, x) = (p \o q) \o <<x>>
  BY <1>1, AppendIsConcat
<1>. QED BY <1>1, <1>2, ConcatAssociative

LEMMA MessagesTyped ==
  ASSUME NEW k \in Stream, NEW batch \in BOOLEAN
  PROVE  /\ Extra(k) \in Message /\ Ask(k) \in Message /\ Reply(k) \in Message
         /\ Lead(k, batch) \in Seq(Message) /\ Turn(k, batch) \in Seq(Message)
<1>1. Extra(k) \in Message /\ Ask(k) \in Message /\ Reply(k) \in Message
  BY DEF Extra, Ask, Reply, Message
<1>. HIDE DEF Extra, Ask, Reply, Message
<1>2. <<>> \in Seq(Message) /\ <<Extra(k)>> \in Seq(Message)
      /\ <<Ask(k), Reply(k)>> \in Seq(Message)
  BY <1>1
<1>3. Lead(k, batch) \in Seq(Message)
  BY <1>2 DEF Lead
<1>4. Turn(k, batch) = Lead(k, batch) \o <<Ask(k), Reply(k)>>
  BY DEF Turn, Lead
<1>. QED BY <1>1, <1>2, <1>3, <1>4, Joined

\* A whole turn is its lead, its question and its answer.
LEMMA WholeTurn ==
  ASSUME NEW c \in Seq(Message), NEW k \in Stream, NEW batch \in BOOLEAN
  PROVE  c \o Turn(k, batch) = Append(Append(c \o Lead(k, batch), Ask(k)), Reply(k))
<1>1. PICK a \in Message, r \in Message, l \in Seq(Message), t \in Seq(Message) :
         /\ a = Ask(k) /\ r = Reply(k) /\ l = Lead(k, batch) /\ t = Turn(k, batch)
  BY MessagesTyped
<1>2. t = l \o <<a, r>>
  BY <1>1 DEF Turn, Lead
<1>3. <<>> \in Seq(Message)
  OBVIOUS
<1>3a. PICK e \in Seq(Message) : e = <<>>
  BY <1>3
<1>4. Append(e, a) \in Seq(Message)
  BY <1>1
<1>4a. PICK x \in Seq(Message) : x = Append(e, a)
  BY <1>4
<1>5. <<a, r>> = Append(x, r)
  BY <1>3a, <1>4a
<1>6. l \o <<a, r>> = Append(l \o x, r)
  BY <1>5, JoinedLast
<1>7. l \o x = Append(l, a)
  <2>1. l \o x = Append(l \o e, a)
    BY <1>4a, JoinedLast
  <2>2. l \o e = l
    BY <1>3a, ConcatEmptySeq
  <2>. QED BY <2>1, <2>2
<1>7a. Append(l, a) \in Seq(Message)
  BY <1>1
<1>8. PICK la \in Seq(Message) : la = Append(l, a)
  BY <1>7a
<1>8a. t = Append(la, r)
  BY <1>2, <1>6, <1>7, <1>8
<1>9. c \o t = Append(c \o la, r)
  BY <1>1, <1>8a, JoinedLast
<1>10. c \o la = Append(c \o l, a)
  BY <1>8, JoinedLast
<1>. QED BY <1>1, <1>9, <1>10

\* Nothing a session's tale depends on changed, but its handle may be gone.
SameAnswer(id) ==
    /\ object'[id].started <=> object[id].started
    /\ object[id].final => object'[id].final
    /\ P!Completing(id)' => P!Completing(id)

SameTurn(k) ==
    /\ ops'[k].native = ops[k].native /\ ops'[k].batch = ops[k].batch
    /\ Committing(k)' <=> Committing(k)
    /\ \A id : ops[k].native = id => SameAnswer(id)

SameSession(s) ==
    /\ sessions'[s].conversation = sessions[s].conversation
    /\ sessions'[s].history = sessions[s].history
    /\ sessions'[s].streamId = sessions[s].streamId
    /\ completed'[s] = completed[s]
    /\ \/ sessions'[s].handle = sessions[s].handle /\ leftover'[s] = leftover[s]
       \/ /\ ~sessions'[s].handle.open /\ leftover'[s] = <<>>
          /\ \A k : ~Committing(k)'

SameTale(s) ==
    /\ SameSession(s)
    /\ Opening(s)' = Opening(s)
    /\ \A k \in Stream : sessions[s].streamId = k => SameTurn(k)

LEMMA TaleKept ==
  ASSUME NEW s, SessionTold(s), SameTale(s)
  PROVE  SessionTold(s)'
<1>. SUFFICES ASSUME sessions'[s].conversation
              PROVE  /\ ClosedTold(s)'
                     /\ sessions'[s].streamId = NoStream => IdleTold(s)'
                     /\ \A k \in Stream :
                           sessions'[s].streamId = k => BusyTold(s, k)'
  BY DEF SessionTold
<1>1. /\ ClosedTold(s)
      /\ sessions[s].streamId = NoStream => IdleTold(s)
      /\ \A k \in Stream : sessions[s].streamId = k => BusyTold(s, k)
      /\ sessions'[s].history = sessions[s].history
      /\ sessions'[s].streamId = sessions[s].streamId
      /\ completed'[s] = completed[s] /\ Opening(s)' = Opening(s)
      /\ \A k \in Stream : sessions[s].streamId = k => SameTurn(k)
  BY DEF SessionTold, SameTale, SameSession
<1>2. CASE sessions'[s].handle = sessions[s].handle /\ leftover'[s] = leftover[s]
  <2>0. Said(s)' = Said(s) /\ Context(s)' = Context(s)
    BY <1>1, <1>2 DEF Said, Context
  <2>1. ASSUME sessions'[s].streamId = NoStream PROVE IdleTold(s)'
    BY <1>1, <1>2, <2>0, <2>1 DEF IdleTold
  <2>2. ASSUME NEW k \in Stream, sessions'[s].streamId = k PROVE BusyTold(s, k)'
    <3>1. PICK id : id = ops[k].native
      OBVIOUS
    <3>1a. sessions[s].streamId = k
      BY <1>1, <2>2
    <3>2. /\ ops'[k].native = id /\ ops'[k].batch = ops[k].batch
          /\ Committing(k)' <=> Committing(k)
          /\ SameAnswer(id)
      BY <1>1, <3>1, <3>1a DEF SameTurn
    <3>. DEFINE before == Context(s) \o Lead(k, ops[k].batch)
                whole  == Context(s) \o Turn(k, ops[k].batch)
    <3>3. /\ sessions[s].history = IF Committing(k) THEN whole ELSE completed[s]
          /\ ops[k].batch => leftover[s] = <<>>
          /\ sessions[s].handle.open =>
                /\ ~object[id].started => Said(s) = before
                /\ object[id].started /\ ~object[id].final =>
                      Said(s) = Append(before, Ask(k))
                /\ P!Completing(id) => Said(s) = whole
      BY <1>1, <3>1, <3>1a DEF BusyTold
    <3>4. /\ Context(s)' \o Lead(k, ops'[k].batch) = before
          /\ Context(s)' \o Turn(k, ops'[k].batch) = whole
      BY <2>0, <3>2
    <3>. HIDE DEF before, whole
    <3>5. /\ sessions'[s].history = IF Committing(k)' THEN whole ELSE completed'[s]
          /\ ops'[k].batch => leftover'[s] = <<>>
          /\ sessions'[s].handle.open =>
                /\ ~object'[id].started => Said(s)' = before
                /\ object'[id].started /\ ~object'[id].final =>
                      Said(s)' = Append(before, Ask(k))
                /\ P!Completing(id)' => Said(s)' = whole
      BY <1>1, <1>2, <2>0, <3>2, <3>3 DEF SameAnswer
    <3>. QED BY <3>2, <3>4, <3>5 DEF BusyTold
  <2>3. ClosedTold(s)'
    BY <1>1, <1>2 DEF ClosedTold
  <2>. QED BY <2>1, <2>2, <2>3
<1>3. CASE /\ ~sessions'[s].handle.open /\ leftover'[s] = <<>>
           /\ \A k : ~Committing(k)'
  <2>1. ASSUME sessions'[s].streamId = NoStream PROVE IdleTold(s)'
    BY <1>1, <1>3, <2>1 DEF IdleTold
  <2>2. ASSUME NEW k \in Stream, sessions'[s].streamId = k PROVE BusyTold(s, k)'
    <3>1. BusyTold(s, k) /\ ~Committing(k) /\ ~Committing(k)'
      BY <1>1, <1>3, <2>2 DEF SameTurn
    <3>2. sessions'[s].history = completed'[s]
      BY <1>1, <3>1 DEF BusyTold
    <3>. QED BY <1>3, <3>1, <3>2 DEF BusyTold
  <2>3. ClosedTold(s)'
    BY <1>3 DEF ClosedTold
  <2>. QED BY <2>1, <2>2, <2>3
<1>. QED BY <1>2, <1>3 DEF SameTale, SameSession

\* No turn begins or is reported here.
NoHeads == ~Now("create") /\ ~Now("retire")

\* What the steps of a handler that do not touch a tale have in common.
SameOperations ==
    \A k \in Running' :
        k \in Running /\ ops'[k].native = ops[k].native /\ ops'[k].batch = ops[k].batch

SameAnswers == \A id \in B!Id : SameAnswer(id)

LEMMA SessionStreams ==
  ASSUME WInv, NEW s \in Alive, sessions[s].streamId # NoStream
  PROVE  /\ sessions[s].streamId \in Running
         /\ ops[sessions[s].streamId].session = s
         /\ ops[sessions[s].streamId].native \in B!Id
BY DEF WInv, TablesInv, SessionsKnown, WorkerTypeOK, NativeOperation

\* The sessions in S have a story of their own, the others keep theirs.
LEMMA ToldFrame ==
  ASSUME WInv, WInv', Told, NEW S,
         \A k \in Running' : ops'[k].session \notin S => SameTurn(k),
         \A s \in Alive' \ S : /\ s \in Alive /\ SameSession(s)
                              /\ Opening(s)' = Opening(s),
         \A s \in Alive' \intersect S : SessionTold(s)',
         CompletedTyped', RetireTold'
  PROVE  Told'
<1>1. ASSUME NEW s \in Alive' \ S PROVE SessionTold(s)'
  <2>1. SessionTold(s) /\ SameSession(s) /\ s \in Alive
    BY <1>1 DEF Told
  <2>2. ASSUME NEW k \in Stream, sessions[s].streamId = k PROVE SameTurn(k)
    <3>1. k # NoStream /\ sessions'[s].streamId = k
      BY <2>1, <2>2 DEF Stream, NoStream, SameSession
    <3>2. k \in Running' /\ ops'[k].session = s
      BY <1>1, <3>1 DEF WInv, TablesInv, SessionsKnown
    <3>. QED BY <1>1, <3>2
  <2>. QED BY <1>1, <2>1, <2>2, TaleKept DEF SameTale
<1>. QED BY <1>1 DEF Told

\* A step that tells nothing.
LEMMA ToldQuiet ==
  ASSUME WInv, WInv', Told, NoHeads, NoHeads',
         UNCHANGED <<completed, leftover, nextSession>>,
         SameOperations, SameAnswers,
         \A s \in Alive' : s \in Alive /\ SameSession(s)
  PROVE  Told'
<1>1. \A k : ~Committing(k) /\ ~Committing(k)'
  BY DEF NoHeads, Committing
<1>2. \A s : Opening(s) = <<>> /\ Opening(s)' = <<>>
  BY DEF NoHeads, Opening
<1>3. RetireTold' /\ CompletedTyped'
  BY DEF NoHeads, RetireTold, Told, CompletedTyped
<1>4. ASSUME NEW k \in Running' PROVE SameTurn(k)
  <2>1. k \in Running /\ ops[k].native \in B!Id
    BY <1>4 DEF SameOperations, WInv, WorkerTypeOK, NativeOperation
  <2>. QED BY <1>1, <1>4, <2>1 DEF SameTurn, SameOperations, SameAnswers
<1>5. \A s \in Alive' \intersect {} : SessionTold(s)'
  OBVIOUS
<1>6. \A k \in Running' : ops'[k].session \notin {} => SameTurn(k)
  BY <1>4
<1>7. \A s \in Alive' \ {} : /\ s \in Alive /\ SameSession(s)
                            /\ Opening(s)' = Opening(s)
  BY <1>2
<1>. QED BY <1>3, <1>5, <1>6, <1>7, ToldFrame

\* Which step stands at the head when a handler goes on.
LEMMA HeadAfter ==
  ASSUME WInv, todo # <<>>, It.do \notin Beginning \union {"join"},
         NEW steps \in Seq(Step), Continue(steps),
         steps # <<>> => steps[1].do \notin {"create", "retire"}
  PROVE  NoHeads'
<1>1. /\ Len(steps) \in Nat
      /\ todo \in Seq(Step)
      /\ todo' \in Seq(Step)
      /\ DOMAIN todo' = 1 .. Len(todo')
      /\ \A i \in DOMAIN todo' :
           \/ i \in 1 .. Len(steps) /\ todo'[i] = steps[i]
           \/ /\ i > Len(steps)
              /\ (i - Len(steps)) + 1 \in DOMAIN todo
              /\ todo'[i] = todo[(i - Len(steps)) + 1]
  BY Shift DEF WInv
<1>2. SUFFICES ASSUME todo' # <<>> PROVE It'.do \notin {"create", "retire"}
  BY DEF NoHeads, Now, It
<1>3. 1 \in DOMAIN todo' /\ It' = todo'[1]
  BY <1>1, <1>2 DEF It
<1>4. CASE 1 \in 1 .. Len(steps) /\ todo'[1] = steps[1]
  BY <1>1, <1>3, <1>4
<1>5. CASE /\ 1 > Len(steps)
           /\ (1 - Len(steps)) + 1 \in DOMAIN todo
           /\ todo'[1] = todo[(1 - Len(steps)) + 1]
  <2>1. 2 \in DOMAIN todo /\ todo'[1] = todo[2]
    BY <1>1, <1>5
  <2>2. todo[2].do # "create"
    BY <2>1, NoBeginning DEF Beginning
  <2>3. todo[2].do # "retire"
    <3>1. SUFFICES ASSUME todo[2].do = "retire" PROVE FALSE
      OBVIOUS
    <3>2. RetireOK(2)
      BY <2>1 DEF WInv, StepsInv, StepsSound
    <3>3. At(1, {"join"})
      BY <2>1, <3>1, <3>2 DEF RetireOK, At
    <3>. QED BY <1>1, <3>3, HeadStep DEF At
  <2>. QED BY <1>3, <2>1, <2>2, <2>3
<1>. QED BY <1>1, <1>3, <1>4, <1>5

LEMMA AnswersSame == ASSUME UNCHANGED <<object, outcome>> PROVE SameAnswers
BY DEF SameAnswers, SameAnswer, P!Completing, P!SaysComplete

LEMMA AnswersKept ==
  ASSUME P!Inv, [Next]_vars, callback' = callback,
         \A id \in B!Id : object'[id].started <=> object[id].started
  PROVE  SameAnswers
<1>1. [P!Next]_(P!vars)
  BY SameBridgeStep
<1>2. ASSUME NEW id \in B!Id PROVE SameAnswer(id)
  <2>1. id \in P!Id
    BY DEF P!Id, B!Id
  <2>2. P!Completing(id)' => P!Completing(id)
    BY <1>1, <2>1, BridgeAssumed, P!NothingCompletes
  <2>3. object[id].final => object'[id].final
    BY <1>1, <2>1, BridgeAssumed, P!FinalStays
  <2>. QED BY <2>2, <2>3 DEF SameAnswer
<1>. QED BY <1>2 DEF SameAnswers

LEMMA NothingTold ==
  ASSUME WInv, WInv', Told, NoHeads, NoHeads',
         UNCHANGED <<sessions, ops, nextSession, completed, leftover>>, SameAnswers
  PROVE  Told'
<1>1. SameOperations
  BY DEF SameOperations, Running
<1>2. \A s \in Alive' : s \in Alive /\ SameSession(s)
  BY DEF Alive, SameSession
<1>. QED BY <1>1, <1>2, ToldQuiet

LEMMA NoSteps == ASSUME todo = <<>> PROVE NoHeads
BY DEF NoHeads, Now

\* Commands that begin a handler or change no session.
LEMMA HandlerTold ==
  ASSUME WInv, WInv', Told, NEW steps, Handler(steps),
         steps # <<>> => Head(steps).do \notin {"create", "retire"}
  PROVE  Told'
<1>1. /\ todo = <<>> /\ todo' = steps
      /\ UNCHANGED <<object, outcome, sessions, ops, nextSession, completed, leftover>>
  BY DEF Handler, Idle, bridge, tables, seen
<1>2. NoHeads /\ NoHeads'
  BY <1>1, NoSteps DEF NoHeads, Now
<1>. QED BY <1>1, <1>2, NothingTold, AnswersSame

LEMMA OneStepTold ==
  ASSUME WInv, WInv', Told, NEW step, Handler(<<step>>),
         step.do \notin {"create", "retire"}
  PROVE  Told'
<1>1. Head(<<step>>) = step
  OBVIOUS
<1>. QED BY <1>1, HandlerTold

LEMMA DisposeSessionTold ==
  ASSUME WInv, WInv', Told, NEW s \in Session, disposeSession(s)
  PROVE  Told'
<1>. DEFINE k == sessions[s].streamId
            a == CancelStep(k, FALSE)
            b == JoinStep(s)
            c == FinishStep(k, B!Cancelled, FALSE)
            d == [do |-> "forget", s |-> s]
<1>1. Handler(_disposeSession(s))
  BY DEF disposeSession
<1>2. a.do = "cancel" /\ b.do = "join"
  BY DEF CancelStep, JoinStep
<1>3. _disposeSession(s) = IF k \notin Running THEN <<b, d>> ELSE <<a, b, c, d>>
  BY DEF _disposeSession
<1>. HIDE DEF a, b, c, d, k
<1>4. Head(<<b, d>>) = b /\ Head(<<a, b, c, d>>) = a
  OBVIOUS
<1>5. Head(_disposeSession(s)).do \notin {"create", "retire"}
  BY <1>2, <1>3, <1>4
<1>. QED BY <1>1, <1>5, HandlerTold

LEMMA CreditTold ==
  ASSUME WInv, WInv', Told, NEW k \in Stream, credit(k)
  PROVE  Told'
<1>1. /\ todo = <<>> /\ todo' = todo /\ k \in Running
      /\ ops' = [ops EXCEPT ![k].credit = TRUE]
      /\ UNCHANGED <<object, outcome, sessions, nextSession, completed, leftover>>
  BY DEF credit, Idle, bridge, seen
<1>2. SameOperations
  <2>1. /\ DOMAIN ops' = DOMAIN ops
        /\ ops'[k] = [ops[k] EXCEPT !.credit = TRUE]
        /\ \A j \in Running \ {k} : ops'[j] = ops[j]
    BY <1>1 DEF Running
  <2>2. ops[k] \in NativeOperation
    BY <1>1 DEF WInv, WorkerTypeOK
  <2>3. ops'[k].native = ops[k].native /\ ops'[k].batch = ops[k].batch
    BY <2>1, <2>2 DEF NativeOperation
  <2>. QED BY <2>1, <2>3 DEF SameOperations, Running
<1>3. NoHeads /\ NoHeads'
  BY <1>1, NoSteps DEF NoHeads, Now
<1>4. \A s \in Alive' : s \in Alive /\ SameSession(s)
  BY <1>1 DEF Alive, SameSession
<1>. QED BY <1>1, <1>2, <1>3, <1>4, ToldQuiet, AnswersSame

\* A new session has the messages it is created with.
LEMMA CreateSessionTold ==
  ASSUME WInv, WInv', Told, NEW e \in Engine, NEW conversation \in Conversation,
         NEW messages \in Seq(Message),
         _createSession(e, conversation, messages)
  PROVE  Told'
<1>1. PICK n : n = nextSession
  OBVIOUS
<1>2. /\ todo = <<>> /\ todo' = todo
      /\ sessions' = With(sessions, n, NewSession(e, conversation, messages))
      /\ nextSession' = n + 1 /\ n <= MaxSession
      /\ completed' = [completed EXCEPT ![n] = messages]
      /\ UNCHANGED <<object, outcome, ops, leftover>>
  BY <1>1 DEF _createSession, Idle, bridge, seen
<1>3. n \in Session
  BY <1>1, <1>2 DEF WInv, WorkerTypeOK, Session
<1>4. n \notin Alive
  BY <1>1, <1>3 DEF WInv, TablesInv, SessionsKnown, Session
<1>5. /\ Alive' = Alive \union {n}
      /\ sessions'[n] = NewSession(e, conversation, messages)
      /\ \A s \in Alive : sessions'[s] = sessions[s]
  BY <1>2, <1>4 DEF Alive, With
<1>6. NoHeads /\ NoHeads'
  BY <1>2, NoSteps DEF NoHeads, Now
<1>7. \A k : ~Committing(k) /\ ~Committing(k)'
  BY <1>6 DEF NoHeads, Committing
<1>8. \A s : Opening(s) = <<>> /\ Opening(s)' = <<>>
  BY <1>6 DEF NoHeads, Opening
<1>9. RetireTold'
  BY <1>6 DEF NoHeads, RetireTold
<1>10. /\ CompletedTyped'
       /\ completed'[n] = messages /\ leftover'[n] = <<>>
       /\ \A s \in Session \ {n} : completed'[s] = completed[s]
  <2>1. CompletedTyped
    BY DEF Told
  <2>2. /\ completed'[n] = messages
        /\ \A s \in Session \ {n} : completed'[s] = completed[s]
        /\ completed' \in [Session -> Seq(Message)]
    BY <1>2, <1>3, <2>1 DEF CompletedTyped
  <2>3. n \in Nat /\ \A s \in Session : s \in Nat
    BY <1>3 DEF Session
  <2>4. leftover'[n] = <<>>
    BY <1>1, <1>2, <1>3, <2>1, <2>3 DEF CompletedTyped
  <2>5. \A s \in Session : s >= nextSession' => s >= nextSession /\ s # n
    BY <1>1, <1>2, <2>3
  <2>. QED BY <1>1, <1>2, <2>1, <2>2, <2>4, <2>5 DEF CompletedTyped
<1>11. messages \o <<>> = messages
  BY ConcatEmptySeq
<1>12. SessionTold(n)'
  <2>1. /\ sessions'[n].history = messages /\ sessions'[n].streamId = NoStream
        /\ sessions'[n].handle = Opened(messages)
    BY <1>5 DEF NewSession
  <2>2. Said(n)' = messages
    BY <1>11, <2>1 DEF Said, Opened
  <2>3. Context(n)' = messages /\ Opening(n)' = <<>>
    BY <1>8, <1>10, <1>11 DEF Context
  <2>4. IdleTold(n)'
    BY <1>10, <1>11, <2>1, <2>2, <2>3 DEF IdleTold
  <2>5. ClosedTold(n)'
    BY <1>10 DEF ClosedTold
  <2>. QED BY <2>1, <2>4, <2>5 DEF SessionTold, Stream, NoStream
<1>13. ASSUME NEW k \in Running' PROVE SameTurn(k)
  <2>1. ops[k].native \in B!Id
    BY <1>2, <1>13 DEF Running, WInv, WorkerTypeOK, NativeOperation
  <2>. QED BY <1>2, <1>7, <2>1, AnswersSame DEF SameTurn, SameAnswers
<1>14. \A s \in Alive' \ {n} : /\ s \in Alive /\ SameSession(s)
                               /\ Opening(s)' = Opening(s)
  <2>1. \A s \in Alive : s \in Session
    BY DEF WInv, WorkerTypeOK
  <2>. QED BY <1>2, <1>5, <1>8, <1>10, <2>1 DEF SameSession
<1>15. /\ \A k \in Running' : ops'[k].session \notin {n} => SameTurn(k)
       /\ \A s \in Alive' \intersect {n} : SessionTold(s)'
  BY <1>12, <1>13
<1>. QED BY <1>9, <1>10, <1>14, <1>15, ToldFrame

\* An idle session's handle is opened with its history.
LEMMA OpenedTold ==
  ASSUME WInv, WInv', Told, NEW s \in Alive, sessions[s].streamId = NoStream,
         todo = <<>>,
         \/ UNCHANGED sessions
         \/ /\ ~sessions[s].handle.open
            /\ Change(s, "handle", Opened(sessions[s].history)),
         UNCHANGED <<object, outcome, ops, nextSession, completed, leftover>>,
         ~Now("retire")', \A r : Opening(r)' = <<>>
  PROVE  Told'
<1>1. NoHeads
  BY NoSteps
<1>2. \A k : ~Committing(k) /\ ~Committing(k)'
  BY <1>1 DEF NoHeads, Committing
<1>3. \A r : Opening(r) = <<>>
  BY <1>1 DEF NoHeads, Opening
<1>4. RetireTold' /\ CompletedTyped'
  BY DEF RetireTold, Told, CompletedTyped
<1>5. Alive' = Alive /\ \A r \in Alive \ {s} : sessions'[r] = sessions[r]
  BY DEF Change, Alive
<1>6. sessions[s] \in NativeSession /\ SessionTold(s) /\ s \in Session
  BY DEF WInv, WorkerTypeOK, Told
<1>7. SessionTold(s)'
  <2>. SUFFICES ASSUME sessions'[s].conversation
                PROVE  /\ IdleTold(s)' /\ ClosedTold(s)'
                       /\ sessions'[s].streamId = NoStream
    BY DEF SessionTold, Stream, NoStream
  <2>1. CASE UNCHANGED sessions
    <3>1. IdleTold(s) /\ ClosedTold(s)
      BY <1>6, <2>1 DEF SessionTold
    <3>. QED BY <1>3, <2>1, <3>1 DEF IdleTold, ClosedTold, Said, Context
  <2>2. CASE /\ ~sessions[s].handle.open
             /\ Change(s, "handle", Opened(sessions[s].history))
    <3>. DEFINE h == Opened(sessions[s].history)
    <3>1. sessions'[s] = [sessions[s] EXCEPT !.handle = h]
      BY <2>2 DEF Change, Alive
    <3>. HIDE DEF h
    <3>2. /\ sessions'[s].conversation = sessions[s].conversation
          /\ sessions'[s].history = sessions[s].history
          /\ sessions'[s].streamId = sessions[s].streamId
          /\ sessions'[s].handle = h
      BY <1>6, <3>1 DEF NativeSession
    <3>3. h.preface = sessions[s].history /\ h.said = <<>> /\ h.open
      BY DEF h, Opened
    <3>4. IdleTold(s) /\ ClosedTold(s) /\ sessions[s].history \in Seq(Message)
      BY <1>6, <3>2 DEF SessionTold, NativeSession
    <3>5. Said(s)' = sessions[s].history \o <<>>
      BY <3>2, <3>3 DEF Said
    <3>6. sessions[s].history = completed[s] /\ leftover[s] = <<>>
      BY <2>2, <3>4 DEF IdleTold, ClosedTold
    <3>7. sessions[s].history \o <<>> = sessions[s].history
      BY <3>4, ConcatEmptySeq
    <3>8. Said(s)' = sessions[s].history /\ Context(s)' = sessions[s].history
      BY <3>5, <3>6, <3>7 DEF Context
    <3>9. IdleTold(s)'
      BY <3>2, <3>6, <3>7, <3>8 DEF IdleTold
    <3>. QED BY <3>2, <3>3, <3>9 DEF ClosedTold
  <2>. QED BY <2>1, <2>2
<1>8. ASSUME NEW k \in Running' PROVE SameTurn(k)
  <2>1. ops[k].native \in B!Id
    BY <1>8 DEF Running, WInv, WorkerTypeOK, NativeOperation
  <2>. QED BY <1>2, <2>1, AnswersSame DEF SameTurn, SameAnswers
<1>9. \A r \in Alive' \ {s} : /\ r \in Alive /\ SameSession(r)
                              /\ Opening(r)' = Opening(r)
  BY <1>3, <1>5 DEF SameSession
<1>10. /\ \A k \in Running' : ops'[k].session \notin {s} => SameTurn(k)
       /\ \A r \in Alive' \intersect {s} : SessionTold(r)'
  BY <1>7, <1>8
<1>. QED BY <1>4, <1>9, <1>10, ToldFrame

LEMMA TellInit == Init => Told
<1>. SUFFICES ASSUME Init PROVE Told
  OBVIOUS
<1>1. /\ sessions = <<>> /\ todo = <<>> /\ completed = [s \in Session |-> <<>>]
      /\ leftover = [s \in Session |-> <<>>]
  BY DEF Init
<1>2. Alive = {} /\ RetireTold
  BY <1>1 DEF Alive, RetireTold, Now
<1>3. CompletedTyped
  <2>1. <<>> \in Seq(Message)
    OBVIOUS
  <2>. QED BY <1>1, <2>1 DEF CompletedTyped
<1>. QED BY <1>2, <1>3 DEF Told

LEMMA BudgetTold ==
  ASSUME WInv, WInv', Told, NEW s \in Session, _budget(s)
  PROVE  Told'
<1>1. /\ s \in Alive /\ sessions[s].streamId = NoStream
      /\ todo = <<>> /\ todo' = <<>>
      /\ ~sessions[s].handle.open
      /\ Change(s, "handle", Opened(sessions[s].history))
      /\ UNCHANGED <<object, outcome, ops, nextSession, completed, leftover>>
  BY DEF _budget, Idle, bridge, seen
<1>2. ~Now("retire")' /\ \A r : Opening(r)' = <<>>
  BY <1>1 DEF Now, Opening
<1>. QED BY <1>1, <1>2, OpenedTold

LEMMA RefusedTold ==
  ASSUME WInv, WInv', Told, NEW s \in Session, GenerateRefused(s)
  PROVE  Told'
<1>1. /\ todo = <<>> /\ todo' = <<>>
      /\ UNCHANGED <<object, outcome, ops, nextSession, completed, leftover>>
  BY DEF GenerateRefused, Idle, bridge
<1>2. ~Now("retire")' /\ \A r : Opening(r)' = <<>>
  BY <1>1 DEF Now, Opening
<1>3. CASE UNCHANGED sessions
  <2>1. NoHeads /\ NoHeads'
    BY <1>1, NoSteps DEF NoHeads, Now
  <2>. QED BY <1>1, <1>3, <2>1, NothingTold, AnswersSame
<1>4. CASE ~(UNCHANGED sessions)
  <2>1. /\ s \in Alive /\ sessions[s].streamId = NoStream
        /\ ~sessions[s].handle.open
        /\ Change(s, "handle", Opened(sessions[s].history))
    BY <1>4 DEF GenerateRefused
  <2>. QED BY <1>1, <1>2, <2>1, OpenedTold
<1>. QED BY <1>3, <1>4

LEMMA GenerateTold ==
  ASSUME WInv, WInv', Told, NEW s \in Session, NEW batch \in BOOLEAN,
         _generate(s, batch)
  PROVE  Told'
<1>. DEFINE k == nextStream
            j == JoinStep(s)
            r == ReopenStep(s, k)
            c == CreateStep(s, k, batch)
            b == StartStep(s, k)
            d == StartedStep(s, k)
<1>1. /\ s \in Alive /\ sessions[s].streamId = NoStream
      /\ todo = <<>> /\ k <= MaxStream
      /\ \/ UNCHANGED sessions
         \/ /\ ~sessions[s].handle.open
            /\ Change(s, "handle", Opened(sessions[s].history))
      /\ todo' = (IF batch THEN <<j, r>> ELSE <<>>) \o <<c, b, d>>
      /\ UNCHANGED <<object, outcome, ops, nextSession, completed, leftover>>
  BY DEF _generate, Idle, bridge, ReopenStep, CreateStep, StartStep, StartedStep
<1>2. k \in Stream
  BY <1>1 DEF WInv, WorkerTypeOK, Stream
<1>3. /\ j \in Step /\ r \in Step /\ c \in Step /\ b \in Step /\ d \in Step
  BY <1>2, StepsTyped
<1>4. /\ j.do = "join" /\ c.do = "create" /\ c.batch = batch
  BY StepKinds
<1>. HIDE DEF j, r, c, b, d
<1>5. /\ batch => todo' # <<>> /\ Head(todo') = j
      /\ ~batch => todo' # <<>> /\ Head(todo') = c
  <2>1. <<>> \o <<c, b, d>> = <<c, b, d>>
    BY <1>3
  <2>2. <<j, r>> \o <<c, b, d>> = <<j, r, c, b, d>>
    BY <1>3, Concat23
  <2>3. Head(<<c, b, d>>) = c /\ Head(<<j, r, c, b, d>>) = j
    BY <1>3, Tails
  <2>. QED BY <1>1, <2>1, <2>2, <2>3
<1>6. ~Now("retire")'
  BY <1>4, <1>5 DEF Now
<1>7. ASSUME NEW x PROVE Opening(x)' = <<>>
  <2>1. CASE batch
    BY <1>4, <1>5, <2>1 DEF Opening, Now
  <2>2. CASE ~batch
    <3>1. It'.batch = FALSE
      BY <1>4, <1>5, <2>2 DEF It
    <3>. QED BY <3>1 DEF Opening, Lead
  <2>. QED BY <2>1, <2>2
<1>. QED BY <1>1, <1>6, <1>7, OpenedTold

LEMMA LoadTold == ASSUME WInv, WInv', Told, _loadEngine PROVE Told'
<1>1. /\ todo = <<>> /\ todo' = <<>>
      /\ UNCHANGED <<object, outcome, sessions, ops, nextSession, completed, leftover>>
  BY DEF _loadEngine, Idle, bridge, seen
<1>2. NoHeads /\ NoHeads'
  BY <1>1, NoSteps DEF NoHeads, Now
<1>. QED BY <1>1, <1>2, NothingTold, AnswersSame

LEMMA StepNamesQuiet ==
  /\ \A k, overflow : CancelStep(k, overflow).do \notin {"create", "retire"}
  /\ \A s : JoinStep(s).do \notin {"create", "retire"}
  /\ \A ks : PumpStep(ks).do \notin {"create", "retire"}
  /\ \A e, ss : EngineStep(e, ss).do \notin {"create", "retire"}
  /\ \A es : CloseStep(es).do \notin {"create", "retire"}
BY DEF CancelStep, JoinStep, PumpStep, EngineStep, CloseStep

LEMMA CommandTold == ASSUME WInv, WInv', Told, Command \/ Tick PROVE Told'
<1>1. CASE Tick
  BY <1>1, StepNamesQuiet, OneStepTold DEF Tick
<1>2. CASE close \/ testCrash
  BY <1>2, StepNamesQuiet, OneStepTold DEF close, testCrash
<1>3. ASSUME NEW e \in Engine, disposeEngine(e) PROVE Told'
  BY <1>3, StepNamesQuiet, OneStepTold DEF disposeEngine, _disposeEngine
<1>4. ASSUME NEW s \in Session, cancelSession(s) PROVE Told'
  BY <1>4, StepNamesQuiet, OneStepTold DEF cancelSession
<1>5. ASSUME NEW k \in Stream, cancelStream(k) PROVE Told'
  BY <1>5, StepNamesQuiet, OneStepTold DEF cancelStream
<1>6. ASSUME NEW e \in Engine, NEW conversation \in Conversation,
             NEW configured \in Configured,
             _createSession(e, conversation, Prompt(configured))
      PROVE  Told'
  <2>1. Prompt(configured) \in Seq(Message)
    BY PromptTyped
  <2>. QED BY <1>6, <2>1, CreateSessionTold
<1>. QED BY <1>1, <1>2, <1>3, <1>4, <1>5, <1>6, LoadTold, BudgetTold, RefusedTold, GenerateTold,
  DisposeSessionTold, CreditTold DEF Command

\* Steps of which the first neither begins nor reports a turn.
Leads(steps) == steps # <<>> => steps[1].do \notin {"create", "retire"}

LEMMA CalmTold ==
  ASSUME WInv, WInv', Told, todo # <<>>,
         It.do \notin Beginning \union {"join", "retire"},
         NEW steps \in Seq(Step), Continue(steps), Leads(steps),
         UNCHANGED <<completed, leftover, nextSession>>, SameOperations, SameAnswers,
         \A s \in Alive' : s \in Alive /\ SameSession(s)
  PROVE  Told'
<1>1. NoHeads
  BY DEF NoHeads, Now, It, Beginning
<1>2. NoHeads'
  BY HeadAfter DEF Leads
<1>. QED BY <1>1, <1>2, ToldQuiet

LEMMA SameTables ==
  ASSUME UNCHANGED <<sessions, ops, completed, leftover>>
  PROVE  SameOperations /\ \A s \in Alive' : s \in Alive /\ SameSession(s)
BY DEF SameOperations, SameSession, Running, Alive

LEMMA StepTold ==
  ASSUME WInv, WInv', Told, todo # <<>>,
         It.do \notin Beginning \union {"join", "retire"},
         NEW steps \in Seq(Step), Continue(steps), Leads(steps),
         UNCHANGED <<completed, leftover, nextSession, sessions, ops, object, outcome>>
  PROVE  Told'
<1>1. SameAnswers
  BY AnswersSame
<1>2. SameOperations /\ \A s \in Alive' : s \in Alive /\ SameSession(s)
  BY SameTables
<1>. QED BY <1>1, <1>2, CalmTold

LEMMA LeadLists ==
  ASSUME NEW a \in Step, NEW b \in Step, NEW c \in Step, NEW d \in Step,
         a.do \notin {"create", "retire"}
  PROVE  /\ <<>> \in Seq(Step) /\ Leads(<<>>)
         /\ <<a>> \in Seq(Step) /\ Leads(<<a>>)
         /\ <<a, b>> \in Seq(Step) /\ Leads(<<a, b>>)
         /\ <<a, b, c>> \in Seq(Step) /\ Leads(<<a, b, c>>)
         /\ <<a, b, c, d>> \in Seq(Step) /\ Leads(<<a, b, c, d>>)
BY DEF Leads

LEMMA LeadNothing == <<>> \in Seq(Step) /\ Leads(<<>>)
BY DEF Leads

LEMMA LeadAppended ==
  ASSUME NEW p \in Seq(Step), Leads(p), NEW x \in Step, x.do \notin {"create", "retire"}
  PROVE  p \o <<x>> \in Seq(Step) /\ Leads(p \o <<x>>)
<1>. DEFINE q == p \o <<x>>
<1>1. /\ q \in Seq(Step) /\ Len(q) = Len(p) + 1
      /\ \A i \in 1 .. Len(p) : q[i] = p[i]
      /\ q[Len(p) + 1] = x
  BY EndOfList
<1>2. Len(p) \in Nat /\ (p # <<>> => 1 \in 1 .. Len(p)) /\ (p = <<>> => Len(p) = 0)
  OBVIOUS
<1>3. q[1] = x \/ (p # <<>> /\ q[1] = p[1])
  BY <1>1, <1>2
<1>. HIDE DEF q
<1>. QED BY <1>1, <1>3 DEF Leads

\* The loop of _pump, and one turn of it.
LEMMA PumpTold == ASSUME WInv, WInv', Told, Pump PROVE Told'
<1>1. PICK k \in Stream :
        /\ todo # <<>> /\ It.do = "pump"
        /\ LET rest == <<[do |-> "poll", k |-> k], PumpStep(It.ks \ {k})>>
           IN  Continue(IF Overran(k) THEN <<CancelStep(k, TRUE)>> \o rest ELSE rest)
        /\ UNCHANGED <<bridge, tables, flags, producer, seen>>
  BY DEF Pump, Now, It
<1>. DEFINE a == CancelStep(k, TRUE)
            b == [do |-> "poll", k |-> k]
            c == PumpStep(It.ks \ {k})
<1>2. It \in Step /\ It.ks \in SUBSET Stream
  BY <1>1, HeadStep, StepFields DEF WInv
<1>3. a \in Step /\ b \in Step /\ c \in Step
  BY <1>2, StepsTyped
<1>4. /\ a.do \notin {"create", "retire"} /\ b.do \notin {"create", "retire"}
      /\ Continue(<<b, c>>) \/ Continue(<<a>> \o <<b, c>>)
  BY <1>1, StepNamesQuiet
<1>. HIDE DEF a, b, c
<1>5. <<a>> \o <<b, c>> = <<a, b, c>>
  BY <1>3, Concat12
<1>6. /\ <<b, c>> \in Seq(Step) /\ Leads(<<b, c>>)
      /\ <<a, b, c>> \in Seq(Step) /\ Leads(<<a, b, c>>)
  BY <1>3, <1>4, LeadLists
<1>7. UNCHANGED <<completed, leftover, nextSession, sessions, ops, object, outcome>>
  BY <1>1 DEF bridge, tables, seen
<1>8. It.do \notin Beginning \union {"join", "retire"}
  BY <1>1 DEF Beginning
<1>. QED BY <1>1, <1>4, <1>5, <1>6, <1>7, <1>8, StepTold

LEMMA PollTold == ASSUME WInv, WInv', Told, Poll PROVE Told'
<1>. DEFINE next == [do |-> "take", k |-> It.k]
<1>1. /\ todo # <<>> /\ It.do = "poll"
      /\ Continue(<<>>) \/ Continue(<<next>>)
      /\ UNCHANGED <<completed, leftover, nextSession, sessions, ops, object, outcome>>
  BY DEF Poll, Now, It, bridge, tables, seen
<1>2. It.k \in Stream
  BY <1>1, HeadOperation DEF OnOperation
<1>3. next \in Step /\ next.do \notin {"create", "retire"}
  BY <1>2, StepsTyped
<1>. HIDE DEF next
<1>4. /\ <<>> \in Seq(Step) /\ Leads(<<>>) /\ <<next>> \in Seq(Step) /\ Leads(<<next>>)
  BY <1>3, LeadLists
<1>5. It.do \notin Beginning \union {"join", "retire"}
  BY <1>1 DEF Beginning
<1>. QED BY <1>1, <1>4, <1>5, StepTold

LEMMA TakeTold == ASSUME WInv, WInv', P!Inv, [Next]_vars, Told, Take PROVE Told'
<1>. DEFINE next == [do |-> "use", k |-> It.k]
<1>1. /\ todo # <<>> /\ It.do = "take"
      /\ Continue(<<>>) \/ Continue(<<next>>)
      /\ UNCHANGED bridge \/ B!lrlm_operation_take(ops[It.k].native)
      /\ UNCHANGED <<completed, leftover, nextSession, sessions, ops>>
  BY DEF Take, Now, It, tables, seen
<1>2. It.k \in Stream
  BY <1>1, HeadOperation DEF OnOperation
<1>3. next \in Step /\ next.do \notin {"create", "retire"}
  BY <1>2, StepsTyped
<1>. HIDE DEF next
<1>4. /\ <<>> \in Seq(Step) /\ Leads(<<>>) /\ <<next>> \in Seq(Step) /\ Leads(<<next>>)
  BY <1>3, LeadLists
<1>5. It.do \notin Beginning \union {"join", "retire"}
  BY <1>1 DEF Beginning
<1>6. SameAnswers
  <2>1. CASE UNCHANGED bridge
    BY <2>1, AnswersSame DEF bridge
  <2>2. CASE B!lrlm_operation_take(ops[It.k].native)
    <3>1. /\ \A j \in B!Id : object'[j].started = object[j].started
          /\ callback' = callback
      BY <2>2, TakeCall
    <3>. QED BY <3>1, AnswersKept
  <2>. QED BY <1>1, <2>1, <2>2
<1>7. SameOperations /\ \A s \in Alive' : s \in Alive /\ SameSession(s)
  BY <1>1, SameTables
<1>. QED BY <1>1, <1>4, <1>5, <1>6, <1>7, CalmTold

LEMMA CancelTold == ASSUME WInv, WInv', P!Inv, [Next]_vars, Told, Cancel PROVE Told'
<1>1. PICK k : k = It.k
  BY Zenon
<1>2. /\ todo # <<>> /\ It.do = "cancel" /\ Continue(<<>>)
      /\ \/ UNCHANGED <<bridge, ops, sessions>>
         \/ /\ ops' = [ops EXCEPT ![k].cancelRequested = TRUE,
                                  ![k].backpressure = It.overflow]
            /\ sessions' = [sessions EXCEPT ![ops[k].session].phase = "cancelRequested"]
            /\ UNCHANGED bridge \/ B!lrlm_operation_cancel(ops[k].native)
      /\ UNCHANGED <<completed, leftover, nextSession>>
  BY <1>1 DEF Cancel, Now, It
<1>3. k \in Running
  BY <1>1, <1>2, HeadOperation DEF OnOperation
<1>4. PICK s \in Alive : s = ops[k].session
  BY <1>2, <1>3, WorkedOn
<1>5. ops[k] \in NativeOperation /\ sessions[s] \in NativeSession
  BY <1>2, <1>3, <1>4, WorkedOn
<1>6. SameOperations
  <2>1. CASE UNCHANGED ops
    BY <2>1 DEF SameOperations, Running
  <2>2. CASE ops' = [ops EXCEPT ![k].cancelRequested = TRUE,
                                ![k].backpressure = It.overflow]
    <3>1. /\ DOMAIN ops' = DOMAIN ops
          /\ ops'[k] = [ops[k] EXCEPT !.cancelRequested = TRUE,
                                      !.backpressure = It.overflow]
          /\ \A j \in Running \ {k} : ops'[j] = ops[j]
      BY <1>3, <2>2 DEF Running
    <3>2. ops'[k].batch = ops[k].batch /\ ops'[k].native = ops[k].native
      BY <1>5, <3>1 DEF NativeOperation
    <3>. QED BY <3>1, <3>2 DEF SameOperations, Running
  <2>. QED BY <1>2, <2>1, <2>2
<1>7. \A r \in Alive' : r \in Alive /\ SameSession(r)
  <2>1. CASE UNCHANGED sessions
    BY <1>2, <2>1 DEF SameSession, Alive
  <2>2. CASE sessions' = [sessions EXCEPT ![s].phase = "cancelRequested"]
    <3>1. /\ DOMAIN sessions' = DOMAIN sessions
          /\ sessions'[s] = [sessions[s] EXCEPT !.phase = "cancelRequested"]
          /\ \A r \in Alive \ {s} : sessions'[r] = sessions[r]
      BY <2>2 DEF Alive
    <3>2. SameSession(s)
      BY <1>2, <1>5, <3>1 DEF NativeSession, SameSession
    <3>. QED BY <1>2, <3>1, <3>2 DEF SameSession, Alive
  <2>. QED BY <1>2, <1>4, <2>1, <2>2
<1>8. SameAnswers
  <2>1. CASE UNCHANGED bridge
    BY <2>1, AnswersSame DEF bridge
  <2>2. CASE B!lrlm_operation_cancel(ops[k].native)
    <3>1. /\ \A j \in B!Id : object'[j].started = object[j].started
          /\ callback' = callback
      BY <2>2, CancelCall
    <3>. QED BY <3>1, AnswersKept
  <2>. QED BY <1>2, <2>1, <2>2
<1>9. It.do \notin Beginning \union {"join", "retire"}
  BY <1>2 DEF Beginning
<1>. QED BY <1>2, <1>6, <1>7, <1>8, <1>9, LeadNothing, CalmTold

LEMMA FailLeads ==
  ASSUME WInv, todo # <<>>, NEW k \in Running
  PROVE  FailSteps(k) \in Seq(Step) /\ Leads(FailSteps(k))
<1>. DEFINE a == CancelStep(k, FALSE)
            b == JoinStep(ops[k].session)
            c == FinishStep(k, B!Error, TRUE)
<1>1. k \in Stream /\ ops[k].session \in Session
  BY WorkedOn
<1>2. B!Error \in Kind
  BY KindsDiffer
<1>3. a \in Step /\ b \in Step /\ c \in Step /\ a.do \notin {"create", "retire"}
  BY <1>1, <1>2, StepsTyped, StepNamesQuiet
<1>4. FailSteps(k) = <<a, b, c>>
  BY DEF FailSteps
<1>. HIDE DEF a, b, c
<1>. QED BY <1>3, <1>4, LeadLists

LEMMA UseTold == ASSUME WInv, WInv', P!Inv, [Next]_vars, Told, Use PROVE Told'
<1>1. PICK k : k = It.k
  OBVIOUS
<1>. DEFINE next == FinishStep(k, held.kind, FALSE)
<1>2. /\ todo # <<>> /\ It.do = "use" /\ B!lrlm_event_delete
      /\ UNCHANGED ops \/ ops' = [ops EXCEPT ![k].credit = FALSE]
      /\ \/ Continue(<<>>)
         \/ ~B!IsText(held) /\ Continue(<<next>>)
         \/ Continue(FailSteps(k))
      /\ UNCHANGED <<sessions, completed, leftover, nextSession>>
  BY <1>1 DEF Use, Now, It
<1>3. k \in Running /\ k \in Stream
  BY <1>1, <1>2, HeadOperation DEF OnOperation
<1>4. ops[k] \in NativeOperation
  BY <1>2, <1>3, WorkedOn
<1>5. SameOperations
  <2>1. CASE UNCHANGED ops
    BY <2>1 DEF SameOperations, Running
  <2>2. CASE ops' = [ops EXCEPT ![k].credit = FALSE]
    <3>1. /\ DOMAIN ops' = DOMAIN ops
          /\ ops'[k] = [ops[k] EXCEPT !.credit = FALSE]
          /\ \A j \in Running \ {k} : ops'[j] = ops[j]
      BY <1>3, <2>2 DEF Running
    <3>2. ops'[k].batch = ops[k].batch /\ ops'[k].native = ops[k].native
      BY <1>4, <3>1 DEF NativeOperation
    <3>. QED BY <3>1, <3>2 DEF SameOperations, Running
  <2>. QED BY <1>2, <2>1, <2>2
<1>6. \A r \in Alive' : r \in Alive /\ SameSession(r)
  BY <1>2 DEF SameSession, Alive
<1>7. SameAnswers
  <2>1. UNCHANGED <<object, callback>>
    BY <1>2, EventDeleteCall
  <2>. QED BY <2>1, AnswersKept
<1>8. It.do \notin Beginning \union {"join", "retire"}
  BY <1>2 DEF Beginning
<1>9. CASE Continue(<<>>)
  BY <1>2, <1>5, <1>6, <1>7, <1>8, <1>9, LeadNothing, CalmTold
<1>10. CASE ~B!IsText(held) /\ Continue(<<next>>)
  <2>1. held # B!NoEvent
    BY <1>2, EventDeleteCall
  <2>2. held.kind \in Kind
    BY <2>1 DEF P!Inv, P!TypeOK, P!Event, P!NoEvent, B!NoEvent, Kind, B!TextKind,
      B!TerminalKind, P!TextKind, P!TerminalKind, B!Complete, P!Complete, B!Error, P!Error,
      B!Cancelled, P!Cancelled, B!Backpressure, P!Backpressure
  <2>3. next \in Step
    BY <1>3, <2>2, StepsTyped
  <2>4. next.do \notin {"create", "retire"}
    BY DEF FinishStep
  <2>. HIDE DEF next
  <2>5. <<next>> \in Seq(Step) /\ Leads(<<next>>)
    BY <2>3, <2>4, LeadLists
  <2>. QED BY <1>2, <1>5, <1>6, <1>7, <1>8, <1>10, <2>5, CalmTold
<1>11. CASE Continue(FailSteps(k))
  BY <1>2, <1>3, <1>5, <1>6, <1>7, <1>8, <1>11, FailLeads, CalmTold
<1>. QED BY <1>2, <1>9, <1>10, <1>11

LEMMA FinishDiscardsTold == ASSUME WInv, WInv', Told, FinishDiscards PROVE Told'
<1>. DEFINE a == JoinStep(ops[It.k].session)
            b == RetireStep(It)
<1>1. /\ todo # <<>> /\ It.do = "finish" /\ It.k \in Running
      /\ Continue(<<a, b>>)
      /\ UNCHANGED <<completed, leftover, nextSession, sessions, ops, object, outcome>>
  BY DEF FinishDiscards, Now, It, bridge, tables, seen
<1>2. It.k \in Stream /\ ops[It.k].session \in Session
  BY <1>1, WorkedOn
<1>3. It.kind \in Kind
  BY <1>1, HeadStep, StepFields DEF WInv
<1>4. b = [do |-> "retire", k |-> It.k, kind |-> It.kind,
           cancelled |-> FinishCancelled(It)]
  BY DEF RetireStep
<1>5. FinishCancelled(It) \in BOOLEAN
  BY DEF FinishCancelled
<1>6. a \in Step /\ b \in Step /\ a.do \notin {"create", "retire"}
  BY <1>2, <1>3, <1>4, <1>5, StepsTyped, StepNamesQuiet
<1>. HIDE DEF a, b
<1>7. <<a, b>> \in Seq(Step) /\ Leads(<<a, b>>)
  BY <1>6, LeadLists
<1>8. It.do \notin Beginning \union {"join", "retire"}
  BY <1>1 DEF Beginning
<1>. QED BY <1>1, <1>7, <1>8, StepTold

LEMMA FinishThrowsTold == ASSUME WInv, WInv', Told, FinishThrows PROVE Told'
<1>1. /\ todo # <<>> /\ It.do = "finish" /\ It.k \in Running
      /\ Continue(FailSteps(It.k))
      /\ UNCHANGED <<completed, leftover, nextSession, sessions, ops, object, outcome>>
  BY DEF FinishThrows, Now, It, bridge, tables, seen
<1>2. It.do \notin Beginning \union {"join", "retire"}
  BY <1>1 DEF Beginning
<1>. QED BY <1>1, <1>2, FailLeads, StepTold

LEMMA LoopEndTold ==
  ASSUME WInv, WInv', Told, Settle \/ DeleteEngine \/ Exit
  PROVE  Told'
<1>1. /\ todo # <<>> /\ It.do \in {"pump", "engine", "close"}
      /\ Continue(<<>>)
      /\ UNCHANGED <<completed, leftover, nextSession, sessions, ops, object, outcome>>
  BY DEF Settle, DeleteEngine, Exit, Now, It, bridge, seen
<1>2. It.do \notin Beginning \union {"join", "retire"}
  BY <1>1 DEF Beginning
<1>. QED BY <1>1, <1>2, LeadNothing, StepTold

LEMMA ForgetTold == ASSUME WInv, WInv', Told, Forget PROVE Told'
<1>1. /\ todo # <<>> /\ It.do = "forget" /\ Continue(<<>>)
      /\ sessions' = Restrict(sessions, Alive \ {It.s})
      /\ UNCHANGED <<completed, leftover, nextSession, ops, object, outcome>>
  BY DEF Forget, Now, It, bridge, seen
<1>2. It.do \notin Beginning \union {"join", "retire"}
  BY <1>1 DEF Beginning
<1>3. \A r \in Alive' : r \in Alive /\ SameSession(r)
  <2>1. Alive' = Alive \ {It.s} /\ \A r \in Alive' : sessions'[r] = sessions[r]
    BY <1>1 DEF Alive, Restrict
  <2>. QED BY <1>1, <2>1 DEF SameSession
<1>4. SameOperations
  BY <1>1 DEF SameOperations, Running
<1>. QED BY <1>1, <1>2, <1>3, <1>4, LeadNothing, AnswersSame, CalmTold

LEMMA DisposalLeads ==
  ASSUME WorkerTypeOK, NEW s \in Alive
  PROVE  _disposeSession(s) \in Seq(Step) /\ Leads(_disposeSession(s))
<1>. DEFINE k == sessions[s].streamId
            a == CancelStep(k, FALSE)
            b == JoinStep(s)
            c == FinishStep(k, B!Cancelled, FALSE)
            d == [do |-> "forget", s |-> s]
<1>1. s \in Session /\ Running \subseteq Stream
  BY DEF WorkerTypeOK
<1>2. B!Cancelled \in Kind
  BY KindsDiffer
<1>3. b \in Step /\ d \in Step
  BY <1>1, StepsTyped
<1>4. k \in Running => a \in Step /\ c \in Step
  BY <1>1, <1>2, StepsTyped
<1>5. a.do \notin {"create", "retire"} /\ b.do \notin {"create", "retire"}
  BY StepNamesQuiet
<1>6. _disposeSession(s) = IF k \notin Running THEN <<b, d>> ELSE <<a, b, c, d>>
  BY DEF _disposeSession
<1>. HIDE DEF a, b, c, d, k
<1>. QED BY <1>3, <1>4, <1>5, <1>6, LeadLists

LEMMA DisposeNextTold == ASSUME WInv, WInv', Told, DisposeNext PROVE Told'
<1>1. PICK s \in Session :
        /\ todo # <<>> /\ It.do = "engine"
        /\ s \in It.ss
        /\ Continue(_disposeSession(s) \o <<EngineStep(It.e, It.ss \ {s})>>)
        /\ UNCHANGED <<completed, leftover, nextSession, sessions, ops, object, outcome>>
  BY DEF DisposeNext, Now, It, First, bridge, tables, seen
<1>. DEFINE p == _disposeSession(s)
            b == EngineStep(It.e, It.ss \ {s})
<1>2. 1 \in DOMAIN todo /\ It = todo[1] /\ It.e \in Engine /\ It.ss \in SUBSET Session
  BY <1>1, HeadStep, StepFields DEF WInv
<1>3. s \in Alive
  BY <1>1, <1>2 DEF WInv, StepsInv, StepsSound, EngineOK, At
<1>4. b \in Step /\ b.do \notin {"create", "retire"}
  BY <1>2, StepsTyped, StepNamesQuiet
<1>5. p \in Seq(Step) /\ Leads(p)
  BY <1>3, DisposalLeads DEF WInv
<1>6. Continue(p \o <<b>>)
  BY <1>1
<1>. HIDE DEF p, b
<1>7. p \o <<b>> \in Seq(Step) /\ Leads(p \o <<b>>)
  BY <1>4, <1>5, LeadAppended
<1>8. It.do \notin Beginning \union {"join", "retire"}
  BY <1>1 DEF Beginning
<1>. QED BY <1>1, <1>6, <1>7, <1>8, StepTold

LEMMA CloseNextTold == ASSUME WInv, WInv', Told, CloseNext PROVE Told'
<1>1. PICK e \in Engine :
        /\ todo # <<>> /\ It.do = "close"
        /\ Continue(_disposeEngine(e) \o <<CloseStep(It.es \ {e})>>)
        /\ UNCHANGED <<completed, leftover, nextSession, sessions, ops, object, outcome>>
  BY DEF CloseNext, Now, It, bridge, tables, seen
<1>. DEFINE ss == {s \in Alive : sessions[s].engineId = e}
            a == EngineStep(e, ss)
            b == CloseStep(It.es \ {e})
<1>2. It.es \in SUBSET Engine
  BY <1>1, HeadStep, StepFields DEF WInv
<1>3. /\ a \in Step /\ b \in Step
      /\ a.do \notin {"create", "retire"} /\ b.do \notin {"create", "retire"}
  <2>1. ss \in SUBSET Session
    BY DEF WInv, WorkerTypeOK
  <2>. QED BY <1>2, <2>1, StepsTyped, StepNamesQuiet
<1>4. Continue(<<a>> \o <<b>>)
  BY <1>1 DEF _disposeEngine
<1>. HIDE DEF a, b
<1>5. <<a>> \in Seq(Step) /\ Leads(<<a>>)
  BY <1>3, LeadLists
<1>6. <<a>> \o <<b>> \in Seq(Step) /\ Leads(<<a>> \o <<b>>)
  BY <1>3, <1>5, LeadAppended
<1>7. It.do \notin Beginning \union {"join", "retire"}
  BY <1>1 DEF Beginning
<1>. QED BY <1>1, <1>4, <1>6, <1>7, StepTold

LEMMA ReopenFailsTold == ASSUME WInv, WInv', Told, ReopenFails PROVE Told'
<1>1. /\ todo # <<>> /\ It.do = "reopen" /\ todo' = <<>>
      /\ UNCHANGED <<sessions, ops, nextSession, completed, leftover, object, outcome>>
  BY DEF ReopenFails, Now, It, Abort, bridge, tables
<1>2. NoHeads /\ NoHeads'
  BY <1>1 DEF NoHeads, Now, It
<1>. QED BY <1>1, <1>2, NothingTold, AnswersSame

LEMMA StartedTold == ASSUME WInv, WInv', P!Inv, [Next]_vars, Told, Started PROVE Told'
<1>. DEFINE a == PumpStep(Running)
<1>1. /\ todo # <<>> /\ Continue(<<a>>) /\ It.do = "started"
      /\ UNCHANGED <<sessions, ops, nextSession, completed, leftover>>
  BY DEF Now, It, Started, seen
<1>2. a \in Step /\ a.do \notin {"create", "retire"}
  BY StepsTyped, StepNamesQuiet DEF WInv, WorkerTypeOK
<1>. HIDE DEF a
<1>3. todo' # <<>> /\ It' = a
  <2>1. todo' # <<>> /\ todo'[1] = a
    BY <1>1, <1>2, PushedOne
  <2>2. todo' \in Seq(Step)
    BY DEF WInv
  <2>. QED BY <2>1, <2>2 DEF It
<1>4. NoHeads /\ NoHeads'
  BY <1>1, <1>2, <1>3 DEF NoHeads, Now, It
<1>5. callback' = callback /\ \A id \in B!Id : object'[id].started <=> object[id].started
  <2>1. CASE B!StartOk
    BY <2>1 DEF B!StartOk
  <2>2. ASSUME NEW error \in ErrorSize, B!StartFailed(error)
        PROVE  /\ callback' = callback
               /\ \A id \in B!Id : object'[id].started <=> object[id].started
    <3>1. /\ starting \in operations /\ callback' = callback
          /\ \A j \in B!Id \ {starting} : object'[j] = object[j]
      BY <2>2, StartFailedCall
    <3>2. starting \in B!Id /\ object[starting] \in P!Operation
      BY <3>1 DEF P!Inv, P!TypeOK, P!Id, B!Id
    <3>3. object'[starting] = B!Finish(object[starting], starting, B!Error, error)
      <4>1. B!Store(starting, B!Finish(object[starting], starting, B!Error, error))
        BY <2>2 DEF B!StartFailed
      <4>. QED BY <3>2, <4>1, StoreFlags
    <3>4. object'[starting].started = object[starting].started
      BY <3>2, <3>3, SameCalls, BridgeAssumed, P!FinishFlags
    <3>. QED BY <3>1, <3>4
  <2>3. B!StartOk \/ \E error \in ErrorSize : B!StartFailed(error)
    BY DEF Started
  <2>. QED BY <2>1, <2>2, <2>3
<1>6. SameAnswers
  BY <1>5, AnswersKept
<1>. QED BY <1>1, <1>4, <1>6, NothingTold

\* What a batch leaves is its prefix, which the handle knows already.
LEMMA LeaveTells ==
  ASSUME CompletedTyped, nextSession \in Nat, NEW s \in Session, s < nextSession,
         NEW k \in Stream, NEW batch \in BOOLEAN,
         Leave(s, k, batch), UNCHANGED <<completed, nextSession>>
  PROVE  /\ CompletedTyped'
         /\ \A r \in Session \ {s} : leftover'[r] = leftover[r]
         /\ (batch => leftover[s] = <<>>) =>
              Context(s)' \o <<>> = Context(s) \o Lead(k, batch)
<1>1. PICK x \in Message : x = Extra(k)
  BY MessagesTyped
<1>2. <<x>> \in Seq(Message) /\ leftover \in [Session -> Seq(Message)]
  BY DEF CompletedTyped
<1>3. leftover' = IF batch THEN [leftover EXCEPT ![s] = <<x>>] ELSE leftover
  BY <1>1 DEF Leave
<1>4. /\ leftover' \in [Session -> Seq(Message)]
      /\ \A r \in Session \ {s} : leftover'[r] = leftover[r]
      /\ leftover'[s] = IF batch THEN <<x>> ELSE leftover[s]
  BY <1>2, <1>3
<1>5. CompletedTyped'
  <2>1. s \in Nat /\ \A r \in Session : r >= nextSession => r # s
    BY DEF Session
  <2>. QED BY <1>4, <2>1 DEF CompletedTyped
<1>6. ASSUME batch => leftover[s] = <<>>
      PROVE  Context(s)' \o <<>> = Context(s) \o Lead(k, batch)
  <2>1. PICK c \in Seq(Message) : c = completed[s]
    BY DEF CompletedTyped
  <2>2. CASE batch
    <3>1. Context(s)' = c \o <<x>> /\ Context(s) = c \o <<>> /\ Lead(k, batch) = <<x>>
      BY <1>1, <1>4, <1>6, <2>1, <2>2 DEF Context, Lead
    <3>2. c \o <<>> = c /\ c \o <<x>> = Append(c, x) /\ Append(c, x) \in Seq(Message)
      BY ConcatEmptySeq, AppendIsConcat
    <3>3. Append(c, x) \o <<>> = Append(c, x)
      BY <3>2, ConcatEmptySeq
    <3>. QED BY <3>1, <3>2, <3>3
  <2>3. CASE ~batch
    BY <1>4, <2>3 DEF Context, Lead
  <2>. QED BY <2>2, <2>3
<1>. QED BY <1>4, <1>5, <1>6

\* The bridge has no id left: the handle is kept as it was rebuilt.
LEMMA IdsExhaustedTold ==
  ASSUME WInv, WInv', Told, IdsExhausted
  PROVE  Told'
<1>0. todo # <<>> /\ It.do = "create"
  BY DEF IdsExhausted, Now, It
<1>0a. \E i \in DOMAIN todo : todo[i].do \in Beginning
  BY <1>0, HeadStep DEF WInv, Beginning
<1>1. PICK s \in Session, k \in Stream : AtCreate(s, k)
  BY <1>0, <1>0a, BeginningNow
<1>2. PICK batch \in BOOLEAN : It = CreateStep(s, k, batch)
  BY <1>1 DEF AtCreate
<1>3. It.s = s /\ It.k = k /\ It.batch = batch
  BY <1>2 DEF CreateStep
<1>4. /\ s \in Alive /\ sessions[s].streamId = NoStream /\ sessions[s].handle.open
  BY <1>1 DEF AtCreate, Requested
<1>5. /\ Leave(s, k, batch) /\ todo' = <<>>
      /\ UNCHANGED <<object, outcome, sessions, ops, nextSession, completed>>
  BY <1>3 DEF IdsExhausted, Abort, bridge, tables
<1>6. NoHeads'
  BY <1>5 DEF NoHeads, Now
<1>7. /\ \A j : ~Committing(j) /\ ~Committing(j)'
      /\ \A r : Opening(r)' = <<>>
      /\ \A r : r # s => Opening(r) = <<>>
      /\ Opening(s) = Lead(k, batch)
  BY <1>0, <1>3, <1>6 DEF NoHeads, Committing, Opening, Now, It
<1>8. s < nextSession /\ nextSession \in Nat /\ \A r \in Alive : r \in Session
  BY <1>4 DEF WInv, TablesInv, SessionsKnown, WorkerTypeOK
<1>9. /\ CompletedTyped'
      /\ \A r \in Session \ {s} : leftover'[r] = leftover[r]
      /\ (batch => leftover[s] = <<>>) =>
           Context(s)' \o <<>> = Context(s) \o Lead(k, batch)
  BY <1>5, <1>8, LeaveTells DEF Told
<1>10. RetireTold'
  BY <1>6 DEF NoHeads, RetireTold
<1>11. SessionTold(s)'
  <2>. SUFFICES ASSUME sessions[s].conversation
                PROVE  IdleTold(s)' /\ ClosedTold(s)'
    BY <1>4, <1>5 DEF SessionTold, Stream, NoStream
  <2>1. IdleTold(s)
    BY <1>4 DEF Told, SessionTold
  <2>2. batch => Lead(k, batch) # <<>>
    BY DEF Lead
  <2>3. Said(s) = Context(s) \o Lead(k, batch) /\ (batch => leftover[s] = <<>>)
    BY <1>4, <1>7, <2>1, <2>2 DEF IdleTold
  <2>4. Said(s)' = Context(s)' \o Opening(s)'
    BY <1>5, <1>7, <1>9, <2>3 DEF Said
  <2>5. sessions'[s].history = completed'[s]
    BY <1>5, <2>1 DEF IdleTold
  <2>. QED BY <1>4, <1>5, <1>7, <2>4, <2>5 DEF IdleTold, ClosedTold
<1>12. ASSUME NEW j \in Running' PROVE SameTurn(j)
  <2>1. j \in Running /\ ops[j].native \in B!Id
    BY <1>0, <1>5, <1>12, WorkedOn DEF Running
  <2>. QED BY <1>5, <1>7, <2>1, AnswersSame DEF SameTurn, SameAnswers
<1>13. \A r \in Alive' \ {s} : /\ r \in Alive /\ SameSession(r)
                               /\ Opening(r)' = Opening(r)
  BY <1>5, <1>7, <1>8, <1>9 DEF SameSession, Alive
<1>14. /\ \A j \in Running' : ops'[j].session \notin {s} => SameTurn(j)
       /\ \A r \in Alive' \intersect {s} : SessionTold(r)'
  BY <1>11, <1>12
<1>. QED BY <1>9, <1>10, <1>13, <1>14, ToldFrame

\* The message cannot be made: the handle is kept as it was rebuilt.
LEMMA StartThrowsTold ==
  ASSUME WInv, WInv', P!Inv, [Next]_vars, Told, StartThrows
  PROVE  Told'
<1>0. todo # <<>> /\ It.do = "start"
  BY DEF StartThrows, Now, It
<1>0a. \E i \in DOMAIN todo : todo[i].do \in Beginning
  BY <1>0, HeadStep DEF WInv, Beginning
<1>1. PICK s \in Session, k \in Stream : AtStart(s, k)
  BY <1>0, <1>0a, BeginningNow
<1>2. k \in Running /\ ops[k].session = s /\ s = It.s /\ k = It.k
  BY <1>1, StepKinds DEF AtStart
<1>3. PICK id : id = ops[k].native
  OBVIOUS
<1>4. /\ B!lrlm_operation_delete(id)
      /\ ops' = Restrict(ops, Running \ {k})
      /\ sessions' = [sessions EXCEPT ![s].phase = "ready", ![s].streamId = NoStream]
      /\ todo' = <<>>
      /\ Leave(s, k, ops[k].batch)
      /\ UNCHANGED <<nextSession, completed>>
  BY <1>2, <1>3 DEF StartThrows, Abort
<1>5. /\ s \in Alive /\ sessions[s] \in NativeSession /\ ops[k] \in NativeOperation
      /\ sessions[s].streamId = k /\ sessions[s].handle.open
      /\ ~object[id].started
  BY <1>0, <1>1, <1>2, <1>3, WorkedOn DEF AtStart
<1>5a. s < nextSession /\ nextSession \in Nat /\ \A r \in Alive : r \in Session
  BY <1>5 DEF WInv, TablesInv, SessionsKnown, WorkerTypeOK
<1>5b. PICK batch \in BOOLEAN : batch = ops[k].batch
  BY <1>5 DEF NativeOperation
<1>5c. /\ CompletedTyped'
       /\ \A r \in Session \ {s} : leftover'[r] = leftover[r]
       /\ (batch => leftover[s] = <<>>) =>
            Context(s)' \o <<>> = Context(s) \o Lead(k, batch)
  BY <1>4, <1>5a, <1>5b, LeaveTells DEF Told
<1>6. SameAnswers
  <2>1. /\ \A j \in B!Id : object'[j].started = object[j].started
        /\ callback' = callback
    BY <1>4, DeleteCall
  <2>. QED BY <2>1, AnswersKept
<1>7. NoHeads /\ NoHeads'
  BY <1>0, <1>4 DEF NoHeads, Now, It
<1>8. /\ \A j : ~Committing(j) /\ ~Committing(j)'
      /\ \A r : Opening(r) = <<>> /\ Opening(r)' = <<>>
  BY <1>7 DEF NoHeads, Committing, Opening
<1>9. RetireTold'
  BY <1>7 DEF NoHeads, RetireTold
<1>10. \A j \in Running' : j \in Running /\ ops'[j] = ops[j]
  BY <1>4 DEF Running, Restrict
<1>11. ASSUME NEW j \in Running' PROVE SameTurn(j)
  <2>1. ops[j].native \in B!Id
    BY <1>0, <1>10, WorkedOn
  <2>. QED BY <1>6, <1>8, <1>10, <2>1 DEF SameTurn, SameAnswers
<1>12. /\ DOMAIN sessions' = DOMAIN sessions
       /\ sessions'[s] = [sessions[s] EXCEPT !.phase = "ready", !.streamId = NoStream]
       /\ \A r \in Alive \ {s} : sessions'[r] = sessions[r]
  BY <1>4, <1>5 DEF Alive
<1>12a. /\ sessions'[s].conversation = sessions[s].conversation
        /\ sessions'[s].history = sessions[s].history
        /\ sessions'[s].streamId = NoStream
        /\ sessions'[s].handle = sessions[s].handle
  BY <1>5, <1>12 DEF NativeSession
<1>13. SessionTold(s)'
  <2>. SUFFICES ASSUME sessions[s].conversation
                PROVE  IdleTold(s)' /\ ClosedTold(s)'
    BY <1>12a DEF SessionTold, Stream, NoStream
  <2>1. BusyTold(s, k)
    BY <1>5 DEF Told, SessionTold
  <2>2. /\ sessions[s].history = completed[s]
        /\ Said(s) = Context(s) \o Lead(k, batch)
        /\ batch => leftover[s] = <<>>
    BY <1>3, <1>5, <1>5b, <1>8, <2>1 DEF BusyTold
  <2>3. Said(s)' = Said(s)
    BY <1>12a DEF Said
  <2>4. Said(s)' = Context(s)' \o Opening(s)'
    BY <1>5c, <1>8, <2>2, <2>3
  <2>5. sessions'[s].history = completed'[s] /\ sessions'[s].handle.open
    BY <1>4, <1>5, <1>12a, <2>2
  <2>. QED BY <1>8, <2>4, <2>5 DEF IdleTold, ClosedTold
<1>14. \A r \in Alive' \ {s} : /\ r \in Alive /\ SameSession(r)
                               /\ Opening(r)' = Opening(r)
  BY <1>4, <1>5a, <1>5c, <1>8, <1>12 DEF SameSession, Alive
<1>15. /\ \A j \in Running' : ops'[j].session \notin {s} => SameTurn(j)
       /\ \A r \in Alive' \intersect {s} : SessionTold(r)'
  BY <1>11, <1>13
<1>. QED BY <1>5c, <1>9, <1>14, <1>15, ToldFrame

\* What waits behind the deletion of a handle.
LEMMA AfterDelete ==
  ASSUME WInv, Tallies, DeleteHandle, NEW s, s = It.s
  PROVE  /\ ~Now("create")'
         /\ \A j : ~Committing(j)'
         /\ Now("retire")' => It'.k \in Running /\ ops[It'.k].session = s
<1>1. todo # <<>> /\ It.do = "join" /\ Continue(<<>>)
  BY DEF DeleteHandle, Now, It
<1>2. todo' = Tail(todo) /\ todo \in Seq(Step)
  BY <1>1, NothingPushed DEF WInv
<1>3. CASE \E i \in DOMAIN todo : todo[i].do \in Beginning
  <2>1. PICK r \in Session, k \in Stream : AtJoin(r, k)
    BY <1>1, <1>3, BeginningNow
  <2>2. todo' = <<ReopenStep(r, k), CreateStep(r, k, TRUE), StartStep(r, k),
                  StartedStep(r, k)>>
    BY <1>2, <2>1 DEF AtJoin
  <2>3. It' = ReopenStep(r, k)
    BY <2>2, StepsTyped, Tails DEF It
  <2>4. It'.do = "reopen"
    BY <2>3, StepKinds
  <2>. QED BY <2>4 DEF Now, It, Committing
<1>4. CASE ~\E i \in DOMAIN todo : todo[i].do \in Beginning
  <2>. SUFFICES ASSUME todo' # <<>>
                PROVE  /\ It'.do # "create" /\ ~Claims(It')
                       /\ It'.do = "retire" => It'.k \in Running /\ ops[It'.k].session = s
    BY DEF Now, It, Committing
  <2>1. PICK step : step = todo[2]
    OBVIOUS
  <2>2. /\ 1 \in DOMAIN todo /\ 2 \in DOMAIN todo /\ It = todo[1]
        /\ It' = step /\ 1 \in DOMAIN todo' /\ todo'[1] = step
    BY <1>1, <1>2, <2>1 DEF It
  <2>3. step.do # "create"
    BY <1>4, <2>1, <2>2 DEF Beginning
  <2>4. ~Claims(step)
    <3>1. <<>> \in Seq(Step) /\ PlainSteps(<<>>)
      BY DEF PlainSteps
    <3>. QED BY <1>1, <2>2, <3>1, PlainContinue
  <2>5. ASSUME step.do = "retire" PROVE step.k \in Running /\ ops[step.k].session = s
    <3>1. step.k \in Running
      BY <2>1, <2>2, <2>5 DEF WInv, StepsInv, StepsLive, At, OnOperation
    <3>2. RetireOK(2)
      BY <2>2 DEF WInv, StepsInv, StepsSound
    <3>3. todo[1].s = ops[step.k].session
      BY <2>1, <2>2, <2>5, <3>2 DEF RetireOK, At
    <3>. QED BY <2>2, <3>1, <3>3
  <2>. QED BY <2>2, <2>3, <2>4, <2>5
<1>. QED BY <1>3, <1>4

LEMMA DeleteHandleTold ==
  ASSUME WInv, WInv', Tallies, Told, DeleteHandle
  PROVE  Told'
<1>1. PICK s : s = It.s
  OBVIOUS
<1>2. /\ todo # <<>> /\ It.do = "join"
      /\ Change(s, "handle", Closed)
      /\ leftover' = [leftover EXCEPT ![s] = <<>>]
      /\ UNCHANGED <<nextSession, completed, ops, object, outcome>>
  BY <1>1 DEF DeleteHandle, Now, It, bridge
<1>3. s \in Alive
  BY <1>1, HandleDeleted
<1>4. /\ Alive' = Alive
      /\ \A r \in Alive \ {s} : sessions'[r] = sessions[r]
      /\ sessions'[s] = [sessions[s] EXCEPT !.handle = Closed]
  BY <1>2, <1>3 DEF Change, Alive
<1>5. sessions[s] \in NativeSession
  BY <1>3 DEF WInv, WorkerTypeOK
<1>6. /\ sessions'[s].conversation = sessions[s].conversation
      /\ sessions'[s].history = sessions[s].history
      /\ sessions'[s].streamId = sessions[s].streamId
      /\ ~sessions'[s].handle.open
  BY <1>4, <1>5 DEF NativeSession, Closed
<1>7. NoHeads
  BY <1>2 DEF NoHeads, Now, It
<1>8. /\ \A j : ~Committing(j) /\ ~Committing(j)'
      /\ \A r : Opening(r) = <<>> /\ Opening(r)' = <<>>
  BY <1>1, <1>7, AfterDelete DEF NoHeads, Committing, Opening
<1>9. RetireTold'
  <2>1. Now("retire")' => It'.k \in Running /\ ops[It'.k].session = s
    BY <1>1, AfterDelete
  <2>2. PICK k : k = It'.k
    OBVIOUS
  <2>3. Now("retire")' => ~sessions'[ops'[k].session].handle.open
    BY <1>2, <1>6, <2>1, <2>2
  <2>. QED BY <2>2, <2>3 DEF RetireTold, HandleOf
<1>10. /\ CompletedTyped' /\ leftover'[s] = <<>>
       /\ \A r \in Alive \ {s} : leftover'[r] = leftover[r]
  <2>1. \A r \in Alive : r \in Session
    BY DEF WInv, WorkerTypeOK
  <2>2. <<>> \in Seq(Message)
    OBVIOUS
  <2>. QED BY <1>2, <1>3, <2>1, <2>2 DEF Told, CompletedTyped
<1>11. ASSUME NEW j \in Running' PROVE SameTurn(j)
  <2>1. j \in Running /\ ops[j].native \in B!Id
    BY <1>2, <1>11, WorkedOn DEF Running
  <2>. QED BY <1>2, <1>8, <2>1, AnswersSame DEF SameTurn, SameAnswers
<1>12. \A r \in Alive' \ {} : /\ r \in Alive /\ SameSession(r)
                              /\ Opening(r)' = Opening(r)
  BY <1>2, <1>4, <1>6, <1>8, <1>10 DEF SameSession
<1>13. /\ \A j \in Running' : ops'[j].session \notin {} => SameTurn(j)
       /\ \A r \in Alive' \intersect {} : SessionTold(r)'
  BY <1>11
<1>. QED BY <1>9, <1>10, <1>12, <1>13, ToldFrame

\* A batch opens its handle with what it must know before the question.
LEMMA ReopenTold == ASSUME WInv, WInv', Told, Reopen PROVE Told'
<1>0. todo # <<>> /\ It.do = "reopen"
  BY DEF Reopen, Now, It
<1>0a. \E i \in DOMAIN todo : todo[i].do \in Beginning
  BY <1>0, HeadStep DEF WInv, Beginning
<1>1. PICK s \in Session, k \in Stream : AtReopen(s, k)
  BY <1>0, <1>0a, BeginningNow
<1>2. /\ ~sessions[s].handle.open
      /\ s \in Alive /\ sessions[s].streamId = NoStream /\ s = It.s /\ k = It.k
      /\ Tail(todo) = <<CreateStep(s, k, TRUE), StartStep(s, k), StartedStep(s, k)>>
  <2>1. It = ReopenStep(s, k)
    BY <1>1 DEF AtReopen
  <2>2. ReopenStep(s, k).s = s /\ ReopenStep(s, k).k = k
    BY DEF ReopenStep
  <2>3. s = It.s /\ k = It.k
    BY <2>1, <2>2
  <2>. QED BY <1>1, <2>3 DEF AtReopen, Requested
<1>. DEFINE h == Opened(Append(sessions[s].history, Extra(k)))
<1>3. /\ Change(s, "handle", h) /\ Continue(<<>>)
      /\ UNCHANGED <<nextSession, completed, leftover, ops, object, outcome>>
  BY <1>2 DEF Reopen, bridge, seen
<1>4. /\ todo' # <<>> /\ It'.do = "create" /\ It'.s = s /\ It'.k = k /\ It'.batch = TRUE
  <2>1. todo' = <<CreateStep(s, k, TRUE), StartStep(s, k), StartedStep(s, k)>>
    BY <1>0, <1>2, <1>3, NothingPushed DEF WInv
  <2>2. It' = CreateStep(s, k, TRUE) /\ todo' # <<>>
    BY <2>1, StepsTyped, Tails DEF It
  <2>3. /\ CreateStep(s, k, TRUE).do = "create" /\ CreateStep(s, k, TRUE).s = s
        /\ CreateStep(s, k, TRUE).k = k /\ CreateStep(s, k, TRUE).batch = TRUE
    BY DEF CreateStep
  <2>. QED BY <2>2, <2>3
<1>5. NoHeads
  BY <1>0 DEF NoHeads, Now, It
<1>6. \A j : ~Committing(j) /\ ~Committing(j)'
  BY <1>4, <1>5 DEF NoHeads, Committing, Now, It
<1>7. /\ \A r : Opening(r) = <<>>
      /\ \A r : r # s => Opening(r)' = <<>>
      /\ Opening(s)' = <<Extra(k)>>
  BY <1>4, <1>5 DEF NoHeads, Opening, Now, It, Lead
<1>8. RetireTold' /\ CompletedTyped'
  BY <1>3, <1>4 DEF RetireTold, Now, It, Told, CompletedTyped
<1>9. sessions[s] \in NativeSession /\ sessions[s].history \in Seq(Message)
  BY <1>2 DEF WInv, WorkerTypeOK, NativeSession
<1>10. /\ Alive' = Alive
       /\ \A r \in Alive \ {s} : sessions'[r] = sessions[r]
       /\ sessions'[s] = [sessions[s] EXCEPT !.handle = h]
  BY <1>2, <1>3 DEF Change, Alive
<1>11. h.preface = Append(sessions[s].history, Extra(k)) /\ h.said = <<>> /\ h.open
  BY DEF Opened
<1>. HIDE DEF h
<1>12. /\ sessions'[s].conversation = sessions[s].conversation
       /\ sessions'[s].history = sessions[s].history
       /\ sessions'[s].streamId = NoStream
       /\ sessions'[s].handle = h
  BY <1>2, <1>9, <1>10 DEF NativeSession
<1>13. SessionTold(s)'
  <2>. SUFFICES ASSUME sessions'[s].conversation
                PROVE  IdleTold(s)' /\ ClosedTold(s)'
    BY <1>12 DEF SessionTold, Stream, NoStream
  <2>1. sessions[s].history = completed[s] /\ leftover[s] = <<>>
    BY <1>2, <1>12 DEF Told, SessionTold, IdleTold, ClosedTold
  <2>2. Said(s)' = Append(sessions[s].history, Extra(k)) \o <<>>
    BY <1>11, <1>12 DEF Said
  <2>3. Extra(k) \in Message
    BY MessagesTyped
  <2>4. Append(sessions[s].history, Extra(k)) \in Seq(Message)
    BY <1>9, <2>3
  <2>5. Said(s)' = Append(sessions[s].history, Extra(k))
    BY <2>2, <2>4, ConcatEmptySeq
  <2>6. sessions[s].history \o <<Extra(k)>> = Append(sessions[s].history, Extra(k))
    BY <1>9, <2>3, AppendIsConcat
  <2>7. completed'[s] = sessions[s].history /\ leftover'[s] = <<>>
    BY <1>3, <2>1
  <2>7a. Context(s)' = sessions[s].history
    BY <1>9, <2>7, ConcatEmptySeq DEF Context
  <2>8. Said(s)' = Context(s)' \o Opening(s)'
    BY <1>7, <2>5, <2>6, <2>7a
  <2>. QED BY <1>11, <1>12, <2>7, <2>8 DEF IdleTold, ClosedTold
<1>14. ASSUME NEW j \in Running' PROVE SameTurn(j)
  <2>1. j \in Running /\ ops[j].native \in B!Id
    BY <1>0, <1>3, <1>14, WorkedOn DEF Running
  <2>. QED BY <1>3, <1>6, <2>1, AnswersSame DEF SameTurn, SameAnswers
<1>15. \A r \in Alive' \ {s} : /\ r \in Alive /\ SameSession(r)
                               /\ Opening(r)' = Opening(r)
  BY <1>3, <1>7, <1>10 DEF SameSession
<1>16. /\ \A j \in Running' : ops'[j].session \notin {s} => SameTurn(j)
       /\ \A r \in Alive' \intersect {s} : SessionTold(r)'
  BY <1>13, <1>14
<1>. QED BY <1>8, <1>15, <1>16, ToldFrame

LEMMA AnswerSame ==
  ASSUME NEW id, object'[id] = object[id], outcome'[id] = outcome[id]
  PROVE  SameAnswer(id)
BY DEF SameAnswer, P!Completing, P!SaysComplete

\* An operation that nobody used says nothing.
LEMMA UnusedSays ==
  ASSUME NEW id, P!Unused(id)
  PROVE  ~object[id].started /\ ~P!Completing(id)
BY DEF P!Unused, P!NewOperation, P!Completing, P!SaysComplete, P!Open, P!Complete

\* What the head of `todo` is when only the end of a beginning is left.
LEMMA BeginningLeft ==
  ASSUME NEW s \in Session, NEW k \in Stream,
         \/ todo' = <<StartStep(s, k), StartedStep(s, k)>>
         \/ todo' = <<StartedStep(s, k)>>
  PROVE  NoHeads'
<1>1. It' = StartStep(s, k) \/ It' = StartedStep(s, k)
  BY StepsTyped, Tails DEF It
<1>2. StartStep(s, k).do = "start" /\ StartedStep(s, k).do = "started"
  BY DEF StartStep, StartedStep
<1>. QED BY <1>1, <1>2 DEF NoHeads, Now, It

LEMMA CreateOperationTold ==
  ASSUME WInv, WInv', P!Inv, Told, CreateOperation
  PROVE  Told'
<1>0. todo # <<>> /\ It.do = "create" /\ Continue(<<>>)
  BY DEF CreateOperation, Now, It
<1>0a. \E i \in DOMAIN todo : todo[i].do \in Beginning
  BY <1>0, HeadStep DEF WInv, Beginning
<1>1. PICK s \in Session, k \in Stream : AtCreate(s, k)
  BY <1>0, <1>0a, BeginningNow
<1>2. PICK batch \in BOOLEAN : It = CreateStep(s, k, batch)
  BY <1>1 DEF AtCreate
<1>3. /\ s \in Alive /\ sessions[s].streamId = NoStream /\ k \notin Running
      /\ Tail(todo) = <<StartStep(s, k), StartedStep(s, k)>>
  BY <1>1 DEF AtCreate, Requested
<1>4. It.s = s /\ It.k = k /\ It.batch = batch
  BY <1>2 DEF CreateStep
<1>5. PICK id : id = next_id
  OBVIOUS
<1>6. /\ B!lrlm_operation_create
      /\ ops' = With(ops, k, NewOperation(s, id, batch))
      /\ sessions' = [sessions EXCEPT ![s].phase = "generating", ![s].streamId = k]
      /\ UNCHANGED <<nextSession, completed, leftover>>
  BY <1>4, <1>5 DEF CreateOperation
<1>7. /\ id \in B!Id /\ UNCHANGED <<object, outcome>>
      /\ P!Unused(id)
  <2>1. id \in B!Id /\ UNCHANGED <<object, outcome>>
    BY <1>5, <1>6, CreateCall DEF B!lrlm_operation_create, B!history
  <2>2. id \in P!Id /\ next_id # 0 /\ id >= next_id
    BY <1>5, <1>6, <2>1, WorkerBounds DEF P!Id, B!Id, B!lrlm_operation_create
  <2>. QED BY <2>1, <2>2 DEF P!Inv, P!AllUnused
<1>8. NoHeads'
  <2>1. todo' = <<StartStep(s, k), StartedStep(s, k)>>
    BY <1>0, <1>3, NothingPushed DEF WInv
  <2>. QED BY <2>1, BeginningLeft
<1>9. /\ \A j : ~Committing(j) /\ ~Committing(j)'
      /\ \A r : Opening(r)' = <<>>
      /\ \A r : r # s => Opening(r) = <<>>
      /\ Opening(s) = Lead(k, batch)
  BY <1>0, <1>4, <1>8 DEF NoHeads, Committing, Opening, Now, It
<1>10. RetireTold' /\ CompletedTyped'
  BY <1>6, <1>8 DEF NoHeads, RetireTold, Told, CompletedTyped
<1>11. /\ Running' = Running \union {k}
       /\ \A j \in Running : ops'[j] = ops[j]
       /\ ops'[k] = NewOperation(s, id, batch)
  BY <1>3, <1>6 DEF Running, With
<1>12. /\ NewOperation(s, id, batch).native = id
       /\ NewOperation(s, id, batch).batch = batch
       /\ NewOperation(s, id, batch).session = s
  BY DEF NewOperation
<1>13. sessions[s] \in NativeSession
  BY <1>3 DEF WInv, WorkerTypeOK
<1>14. /\ Alive' = Alive
       /\ \A r \in Alive \ {s} : sessions'[r] = sessions[r]
       /\ sessions'[s].conversation = sessions[s].conversation
       /\ sessions'[s].history = sessions[s].history
       /\ sessions'[s].streamId = k
       /\ sessions'[s].handle = sessions[s].handle
  <2>1. /\ DOMAIN sessions' = DOMAIN sessions
        /\ sessions'[s] = [sessions[s] EXCEPT !.phase = "generating", !.streamId = k]
        /\ \A r \in Alive \ {s} : sessions'[r] = sessions[r]
    BY <1>3, <1>6 DEF Alive
  <2>. QED BY <1>13, <2>1 DEF NativeSession, Alive
<1>15. SessionTold(s)'
  <2>. SUFFICES ASSUME sessions'[s].conversation
                PROVE  BusyTold(s, k)' /\ ClosedTold(s)'
    BY <1>14 DEF SessionTold, Stream, NoStream
  <2>1. IdleTold(s) /\ ClosedTold(s)
    BY <1>3, <1>14 DEF Told, SessionTold
  <2>2. /\ sessions'[s].history = completed'[s]
        /\ sessions'[s].handle.open => Said(s)' = Context(s)' \o Lead(k, batch)
        /\ batch => leftover'[s] = <<>>
        /\ ClosedTold(s)'
    <3>1. Context(s)' = Context(s) /\ Said(s)' = Said(s) /\ leftover'[s] = leftover[s]
      BY <1>6, <1>14 DEF Said, Context
    <3>2. batch => Opening(s) # <<>>
      BY <1>9 DEF Lead
    <3>3. ClosedTold(s)'
      BY <1>14, <2>1, <3>1 DEF ClosedTold
    <3>. QED BY <1>6, <1>9, <1>14, <2>1, <3>1, <3>2, <3>3 DEF IdleTold
  <2>3. ops'[k].native = id /\ ops'[k].batch = batch
    BY <1>11, <1>12
  <2>4. ~object'[id].started /\ ~P!Completing(id)'
    <3>1. ~object[id].started /\ ~P!Completing(id)
      BY <1>7, UnusedSays
    <3>. QED BY <1>7, <3>1 DEF P!Completing
  <2>. QED BY <1>9, <2>2, <2>3, <2>4 DEF BusyTold
<1>16. ASSUME NEW j \in Running', ops'[j].session \notin {s} PROVE SameTurn(j)
  <2>1. j \in Running /\ ops'[j] = ops[j]
    BY <1>11, <1>12, <1>16
  <2>2. ops[j].native \in B!Id
    BY <1>0, <2>1, WorkedOn
  <2>. QED BY <1>7, <1>9, <2>1, <2>2, AnswersSame DEF SameTurn, SameAnswers
<1>17. \A r \in Alive' \ {s} : /\ r \in Alive /\ SameSession(r)
                               /\ Opening(r)' = Opening(r)
  BY <1>6, <1>9, <1>14 DEF SameSession
<1>18. /\ \A j \in Running' : ops'[j].session \notin {s} => SameTurn(j)
       /\ \A r \in Alive' \intersect {s} : SessionTold(r)'
  BY <1>15, <1>16
<1>. QED BY <1>10, <1>17, <1>18, ToldFrame

\* The question reaches the handle.
LEMMA StartTold ==
  ASSUME WInv, WInv', P!Inv, P!Ledger, [Next]_vars, Told, Start
  PROVE  Told'
<1>0. todo # <<>> /\ It.do = "start" /\ Continue(<<>>)
  BY DEF Start, Now, It
<1>0a. \E i \in DOMAIN todo : todo[i].do \in Beginning
  BY <1>0, HeadStep DEF WInv, Beginning
<1>1. PICK s \in Session, k \in Stream : AtStart(s, k)
  BY <1>0, <1>0a, BeginningNow
<1>2. /\ k \in Running /\ ops[k].session = s
      /\ Tail(todo) = <<StartedStep(s, k)>>
      /\ sessions[s].handle.open
      /\ ~object[ops[k].native].started
      /\ It.s = s /\ It.k = k
  BY <1>1, StepKinds DEF AtStart
<1>3. PICK id : id = ops[k].native
  OBVIOUS
<1>4. /\ B!StartBegin(id)
      /\ sessions' = [sessions EXCEPT ![s].handle.said = Append(@, Ask(k))]
      /\ UNCHANGED <<nextSession, ops, completed, leftover>>
  BY <1>2, <1>3 DEF Start, seen
<1>5. /\ id \in operations /\ id \in B!Id /\ object'[id].started
      /\ UNCHANGED callback /\ outcome' = outcome
      /\ \A j \in B!Id \ {id} : object'[j] = object[j]
  <2>1. id \in operations /\ object'[id].started /\ UNCHANGED callback
    BY <1>4, StartCall
  <2>2. id \in B!Id
    BY <2>1 DEF P!Inv, P!TypeOK, P!Id, B!Id
  <2>3. outcome' = outcome /\ B!Store(id, [object[id] EXCEPT !.started = TRUE])
    BY <1>4 DEF B!StartBegin, B!history
  <2>. QED BY <2>1, <2>2, <2>3, StoreFlags
<1>6. NoHeads /\ NoHeads'
  <2>1. todo' = <<StartedStep(s, k)>>
    BY <1>0, <1>2, NothingPushed DEF WInv
  <2>2. NoHeads'
    BY <2>1, BeginningLeft
  <2>. QED BY <1>0, <2>2 DEF NoHeads, Now, It
<1>7. /\ \A j : ~Committing(j) /\ ~Committing(j)'
      /\ \A r : Opening(r) = <<>> /\ Opening(r)' = <<>>
  BY <1>6 DEF NoHeads, Committing, Opening
<1>8. RetireTold' /\ CompletedTyped'
  BY <1>4, <1>6 DEF NoHeads, RetireTold, Told, CompletedTyped
<1>9. /\ s \in Alive /\ sessions[s] \in NativeSession
      /\ sessions[s].streamId = k /\ ops[k] \in NativeOperation
  BY <1>0, <1>2, WorkedOn
<1>10. PICK preface \in Seq(Message), said \in Seq(Message) :
         preface = sessions[s].handle.preface /\ said = sessions[s].handle.said
  BY <1>9 DEF NativeSession, Handle
<1>11. /\ Alive' = Alive
       /\ \A r \in Alive \ {s} : sessions'[r] = sessions[r]
       /\ sessions'[s].conversation = sessions[s].conversation
       /\ sessions'[s].history = sessions[s].history
       /\ sessions'[s].streamId = k
       /\ sessions'[s].handle.open
       /\ sessions'[s].handle.preface = preface
       /\ sessions'[s].handle.said = Append(said, Ask(k))
  <2>1. /\ DOMAIN sessions' = DOMAIN sessions
        /\ sessions'[s] = [sessions[s] EXCEPT !.handle.said =
                             Append(sessions[s].handle.said, Ask(k))]
        /\ \A r \in Alive \ {s} : sessions'[r] = sessions[r]
    BY <1>4, <1>9 DEF Alive
  <2>2. sessions[s].handle \in Handle
    BY <1>9 DEF NativeSession
  <2>3. sessions'[s].handle = [sessions[s].handle EXCEPT !.said = Append(said, Ask(k))]
    BY <1>9, <1>10, <2>1 DEF NativeSession
  <2>4. /\ sessions'[s].handle.open
        /\ sessions'[s].handle.preface = preface
        /\ sessions'[s].handle.said = Append(said, Ask(k))
    BY <1>2, <1>10, <2>2, <2>3 DEF Handle
  <2>5. /\ sessions'[s].conversation = sessions[s].conversation
        /\ sessions'[s].history = sessions[s].history
        /\ sessions'[s].streamId = k
    BY <1>9, <2>1 DEF NativeSession
  <2>. QED BY <2>1, <2>4, <2>5 DEF Alive
<1>12. SessionTold(s)'
  <2>. SUFFICES ASSUME sessions'[s].conversation
                PROVE  BusyTold(s, k)' /\ ClosedTold(s)'
    BY <1>11 DEF SessionTold, Stream, NoStream
  <2>1. BusyTold(s, k) /\ Said(s) = preface \o said
    BY <1>9, <1>10, <1>11 DEF Told, SessionTold, Said
  <2>2. PICK before : before = Context(s) \o Lead(k, ops[k].batch)
    OBVIOUS
  <2>3. /\ sessions[s].history = completed[s] /\ preface \o said = before
        /\ ops[k].batch => leftover[s] = <<>>
    BY <1>2, <1>7, <2>1, <2>2 DEF BusyTold
  <2>4. Ask(k) \in Message
    BY <1>9, MessagesTyped DEF NativeOperation
  <2>5. Said(s)' = Append(before, Ask(k))
    <3>1. Said(s)' = preface \o Append(said, Ask(k))
      BY <1>11 DEF Said
    <3>2. preface \o Append(said, Ask(k)) = Append(preface \o said, Ask(k))
      BY <2>4, JoinedLast
    <3>. QED BY <2>3, <3>1, <3>2
  <2>6. ~P!Completing(id)'
    <3>1. [P!Next]_(P!vars)
      BY SameBridgeStep
    <3>2. id \in P!Id
      BY <1>5 DEF P!Id, B!Id
    <3>3. P!Completing(id)' => P!Completing(id)
      BY <1>5, <3>1, <3>2, BridgeAssumed, P!NothingCompletes
    <3>4. ~P!Completing(id)
      BY <1>2, <1>3, <1>5, BridgeAssumed, P!CompletingFinal
    <3>. QED BY <3>3, <3>4
  <2>7. /\ ops'[k].native = id /\ ops'[k].batch = ops[k].batch
        /\ completed'[s] = completed[s] /\ leftover'[s] = leftover[s]
        /\ sessions'[s].history = completed[s]
    BY <1>3, <1>4, <1>11, <2>3
  <2>8. Context(s)' \o Lead(k, ops'[k].batch) = before
    BY <2>2, <2>7 DEF Context
  <2>9. BusyTold(s, k)'
    BY <1>5, <1>7, <2>3, <2>5, <2>6, <2>7, <2>8 DEF BusyTold
  <2>. QED BY <1>11, <2>9 DEF ClosedTold
<1>13. ASSUME NEW j \in Running', ops'[j].session \notin {s} PROVE SameTurn(j)
  <2>1. j \in Running /\ ops'[j] = ops[j] /\ j # k
    BY <1>2, <1>4, <1>13 DEF Running
  <2>2. ops[j].native \in B!Id /\ ops[j].native # id
    BY <1>0, <1>2, <1>3, <2>1, WorkedOn DEF WInv, TablesInv, Registered
  <2>3. PICK n \in B!Id : n = ops[j].native
    BY <2>2
  <2>4. SameAnswer(n)
    BY <1>5, <2>2, <2>3, AnswerSame
  <2>. QED BY <1>7, <2>1, <2>3, <2>4 DEF SameTurn
<1>14. \A r \in Alive' \ {s} : /\ r \in Alive /\ SameSession(r)
                               /\ Opening(r)' = Opening(r)
  BY <1>4, <1>7, <1>11 DEF SameSession
<1>15. /\ \A j \in Running' : ops'[j].session \notin {s} => SameTurn(j)
       /\ \A r \in Alive' \intersect {s} : SessionTold(r)'
  BY <1>12, <1>13
<1>. QED BY <1>8, <1>14, <1>15, ToldFrame

\* A completed turn is read back from the handle and committed.
LEMMA FinishCommitsTold ==
  ASSUME WInv, WInv', Tallies, Told, FinishCommits
  PROVE  Told'
<1>0. PICK k : k = It.k
  OBVIOUS
<1>1. /\ todo # <<>> /\ It.do = "finish" /\ ~Discards(It)
      /\ Change(ops[k].session, "history", CommittedHistory(sessions[ops[k].session]))
      /\ Continue(<<RetireStep(It)>>)
      /\ UNCHANGED <<nextSession, ops, object, outcome, completed, leftover>>
  BY <1>0 DEF FinishCommits, Now, It, bridge, seen
<1>2. /\ k \in Running /\ k \in Stream /\ 1 \in DOMAIN todo /\ It = todo[1]
      /\ It.kind = B!Complete /\ HandleOf(k).open
  <2>1. k \in Running /\ k \in Stream /\ 1 \in DOMAIN todo /\ It = todo[1]
    BY <1>0, <1>1, HeadOperation DEF OnOperation
  <2>2. It.kind = B!Complete
    BY <1>1 DEF Discards
  <2>. QED BY <1>0, <1>1, <2>1, <2>2, FinishHead
<1>3. PICK s \in Session : s = ops[k].session
  BY <1>1, <1>2, WorkedOn
<1>4. /\ s \in Alive /\ sessions[s] \in NativeSession /\ sessions[s].streamId = k
      /\ sessions[s].handle.open
  BY <1>1, <1>2, <1>3, WorkedOn DEF HandleOf
<1>5. PICK id \in B!Id : id = ops[k].native
  BY <1>1, <1>2, WorkedOn
<1>6. P!Completing(id)
  <2>1. outcome[id] = B!Complete
    BY <1>0, <1>1, <1>2, <1>5 DEF Claims, Ending, Tallies, ClaimsSound
  <2>. QED BY <2>1 DEF P!Completing, P!Complete, B!Complete
<1>. DEFINE b == RetireStep(It)
<1>7. /\ b.do = "retire" /\ b.k = k /\ Claims(b) /\ b \in Step
  <2>1. b = [do |-> "retire", k |-> It.k, kind |-> It.kind,
             cancelled |-> FinishCancelled(It)]
    BY DEF RetireStep
  <2>2. FinishCancelled(It) = FALSE
    BY <1>1 DEF Discards, FinishCancelled
  <2>3. It.kind \in Kind
    BY <1>1, HeadStep, StepFields DEF WInv
  <2>4. b \in Step
    BY <1>0, <1>2, <2>1, <2>2, <2>3, StepsTyped
  <2>. QED BY <1>0, <1>2, <2>1, <2>2, <2>4 DEF Claims, Ending
<1>. HIDE DEF b
<1>8. todo' # <<>> /\ It' = b
  <2>1. todo' # <<>> /\ todo'[1] = b
    BY <1>1, <1>7, PushedOne DEF b
  <2>2. todo' \in Seq(Step)
    BY DEF WInv
  <2>. QED BY <2>1, <2>2 DEF It
<1>9. NoHeads
  BY <1>1 DEF NoHeads, Now, It
<1>10. /\ \A j : ~Committing(j)
       /\ \A j : Committing(j)' <=> j = k
       /\ \A r : Opening(r) = <<>> /\ Opening(r)' = <<>>
  BY <1>7, <1>8, <1>9 DEF NoHeads, Committing, Opening, Now, It
<1>11. RetireTold' /\ CompletedTyped'
  BY <1>1, <1>7, <1>8 DEF RetireTold, Told, CompletedTyped
<1>. DEFINE h == CommittedHistory(sessions[s])
<1>12. /\ DOMAIN sessions' = DOMAIN sessions
       /\ sessions'[s] = [sessions[s] EXCEPT !.history = h]
       /\ \A r \in Alive \ {s} : sessions'[r] = sessions[r]
  BY <1>1, <1>3, <1>4 DEF Change, Alive
<1>13. sessions[s].conversation => h = Said(s)
  BY DEF CommittedHistory, Said
<1>. HIDE DEF h
<1>14. /\ Alive' = Alive
       /\ sessions'[s].conversation = sessions[s].conversation
       /\ sessions'[s].history = h
       /\ sessions'[s].streamId = k
       /\ sessions'[s].handle = sessions[s].handle
  BY <1>4, <1>12 DEF NativeSession, Alive
<1>15. SessionTold(s)'
  <2>. SUFFICES ASSUME sessions'[s].conversation
                PROVE  BusyTold(s, k)' /\ ClosedTold(s)'
    BY <1>2, <1>14 DEF SessionTold, Stream, NoStream
  <2>1. BusyTold(s, k)
    BY <1>2, <1>4, <1>14 DEF Told, SessionTold
  <2>2. PICK before, whole : /\ before = Context(s) \o Lead(k, ops[k].batch)
                             /\ whole = Context(s) \o Turn(k, ops[k].batch)
    OBVIOUS
  <2>3. /\ ~object[id].started => Said(s) = before
        /\ object[id].started /\ ~object[id].final => Said(s) = Append(before, Ask(k))
        /\ P!Completing(id) => Said(s) = whole
        /\ ops[k].batch => leftover[s] = <<>>
    BY <1>4, <1>5, <2>1, <2>2 DEF BusyTold
  <2>4. h = whole /\ Said(s) = whole /\ Said(s)' = whole
    BY <1>6, <1>13, <1>14, <2>3 DEF Said
  <2>5. /\ ops'[k].native = id /\ object'[id] = object[id]
        /\ Context(s)' \o Lead(k, ops'[k].batch) = before
        /\ Context(s)' \o Turn(k, ops'[k].batch) = whole
        /\ ops'[k].batch => leftover'[s] = <<>>
    BY <1>1, <1>5, <2>2, <2>3 DEF Context
  <2>6. Committing(k)'
    BY <1>10
  <2>7. BusyTold(s, k)'
    BY <1>14, <2>3, <2>4, <2>5, <2>6 DEF BusyTold
  <2>. QED BY <1>4, <1>14, <2>7 DEF ClosedTold
<1>16. ASSUME NEW j \in Running', ops'[j].session \notin {s} PROVE SameTurn(j)
  <2>1. j \in Running /\ ops'[j] = ops[j] /\ j # k
    BY <1>1, <1>3, <1>16 DEF Running
  <2>2. ops[j].native \in B!Id
    BY <1>1, <2>1, WorkedOn
  <2>. QED BY <1>1, <1>10, <2>1, <2>2, AnswersSame DEF SameTurn, SameAnswers
<1>17. \A r \in Alive' \ {s} : /\ r \in Alive /\ SameSession(r)
                               /\ Opening(r)' = Opening(r)
  BY <1>1, <1>10, <1>12, <1>14 DEF SameSession
<1>18. /\ \A j \in Running' : ops'[j].session \notin {s} => SameTurn(j)
       /\ \A r \in Alive' \intersect {s} : SessionTold(r)'
  BY <1>15, <1>16
<1>. QED BY <1>11, <1>17, <1>18, ToldFrame

\* The end that is reported is the one the step says.
LEMMA RetireReports ==
  ASSUME WInv, Tallies, todo # <<>>, It.do = "retire"
  PROVE  TerminalEvent(It) = "complete" <=> Claims(It)
<1>1. /\ It.k \in Running /\ 1 \in DOMAIN todo /\ It = todo[1]
  BY HeadOperation DEF OnOperation
<1>2. ASSUME Claims(It) PROVE TerminalEvent(It) = "complete"
  <2>1. It.kind = B!Complete /\ ~It.cancelled
    BY <1>2 DEF Claims
  <2>2. ~ops[It.k].cancelRequested
    BY <1>1, <2>1 DEF WInv, StepsInv, StepsSound, RetireOK, At
  <2>3. ~ops[It.k].backpressure
    BY <1>1, <2>2 DEF Tallies, AllForwarded, Forwarded
  <2>. QED BY <2>1, <2>3, KindsDiffer DEF TerminalEvent
<1>3. ASSUME TerminalEvent(It) = "complete" PROVE Claims(It)
  BY <1>3 DEF TerminalEvent, Claims, Ending
<1>. QED BY <1>2, <1>3

\* A turn that is reported complete is one more completed turn; one that is not
\* leaves the history alone and its handle is gone.
LEMMA RetireTells ==
  ASSUME WInv, WInv', P!Inv, [Next]_vars, Tallies, Told, Retire
  PROVE  Told'
<1>0. PICK k : k = It.k
  OBVIOUS
<1>1. /\ todo # <<>> /\ It.do = "retire" /\ Continue(<<>>)
      /\ B!lrlm_operation_delete(ops[k].native)
      /\ ops' = Restrict(ops, Running \ {k})
      /\ sessions' = [sessions EXCEPT ![ops[k].session].phase = "ready",
                                      ![ops[k].session].streamId = NoStream]
      /\ completed' = IF TerminalEvent(It) = "complete"
                      THEN [completed EXCEPT ![ops[k].session] =
                              @ \o leftover[ops[k].session]
                                \o Turn(k, ops[k].batch)]
                      ELSE completed
      /\ leftover' = [leftover EXCEPT ![ops[k].session] = <<>>]
      /\ nextSession' = nextSession
  BY <1>0, Zenon DEF Retire, Now, It
<1>2. k \in Running /\ k \in Stream /\ 1 \in DOMAIN todo /\ It = todo[1]
  BY <1>0, <1>1, HeadOperation DEF OnOperation
<1>3. PICK s \in Session : s = ops[k].session
  BY <1>1, <1>2, WorkedOn
<1>4. /\ s \in Alive /\ sessions[s] \in NativeSession /\ sessions[s].streamId = k
      /\ ops[k] \in NativeOperation
  BY <1>1, <1>2, <1>3, WorkedOn
<1>5. PICK id \in B!Id : id = ops[k].native
  BY <1>1, <1>2, WorkedOn
<1>6. SameAnswers
  <2>1. /\ \A j \in B!Id : object'[j].started = object[j].started
        /\ callback' = callback
    BY <1>1, DeleteCall
  <2>. QED BY <2>1, AnswersKept
<1>7. NoHeads'
  <2>1. It.do \notin Beginning \union {"join"}
    BY <1>1 DEF Beginning
  <2>. QED BY <1>1, <2>1, LeadNothing, HeadAfter
<1>8. /\ \A j : j # k => ~Committing(j)
      /\ \A j : ~Committing(j)'
      /\ \A r : Opening(r) = <<>> /\ Opening(r)' = <<>>
      /\ Committing(k) <=> Claims(It)
  BY <1>0, <1>1, <1>7, Zenon DEF NoHeads, Committing, Opening, Now, It
<1>9. RetireTold'
  BY <1>7 DEF NoHeads, RetireTold
<1>10. /\ Running' = Running \ {k}
       /\ \A j \in Running' : ops'[j] = ops[j]
  BY <1>1 DEF Running, Restrict
<1>11. /\ Alive' = Alive
       /\ \A r \in Alive \ {s} : sessions'[r] = sessions[r]
       /\ sessions'[s].conversation = sessions[s].conversation
       /\ sessions'[s].history = sessions[s].history
       /\ sessions'[s].streamId = NoStream
       /\ sessions'[s].handle = sessions[s].handle
  <2>1. /\ DOMAIN sessions' = DOMAIN sessions
        /\ sessions'[s] = [sessions[s] EXCEPT !.phase = "ready", !.streamId = NoStream]
        /\ \A r \in Alive \ {s} : sessions'[r] = sessions[r]
    BY <1>1, <1>3, <1>4 DEF Alive
  <2>. QED BY <1>4, <2>1 DEF NativeSession, Alive
<1>12. /\ completed \in [Session -> Seq(Message)]
       /\ leftover \in [Session -> Seq(Message)]
       /\ \A r \in Session :
             r >= nextSession => completed[r] = <<>> /\ leftover[r] = <<>>
  BY DEF Told, CompletedTyped
<1>13. PICK whole \in Seq(Message) : whole = Context(s) \o Turn(k, ops[k].batch)
  <2>1. /\ Turn(k, ops[k].batch) \in Seq(Message) /\ completed[s] \in Seq(Message)
        /\ leftover[s] \in Seq(Message)
    BY <1>2, <1>4, <1>12, MessagesTyped DEF NativeOperation
  <2>2. Context(s) \in Seq(Message)
    BY <2>1, Joined DEF Context
  <2>. QED BY <2>1, <2>2, Joined
<1>14. /\ Claims(It) => completed'[s] = whole
       /\ ~Claims(It) => completed'[s] = completed[s]
       /\ \A r \in Session \ {s} : completed'[r] = completed[r]
       /\ completed' \in [Session -> Seq(Message)]
       /\ leftover'[s] = <<>>
       /\ \A r \in Session \ {s} : leftover'[r] = leftover[r]
       /\ leftover' \in [Session -> Seq(Message)]
  <2>1. TerminalEvent(It) = "complete" <=> Claims(It)
    BY <1>1, RetireReports
  <2>2. completed' = IF Claims(It) THEN [completed EXCEPT ![s] = whole] ELSE completed
    BY <1>1, <1>3, <1>13, <2>1, Zenon DEF Context
  <2>3. /\ Claims(It) => completed'[s] = whole
        /\ ~Claims(It) => completed'[s] = completed[s]
        /\ \A r \in Session \ {s} : completed'[r] = completed[r]
        /\ completed' \in [Session -> Seq(Message)]
    BY <1>12, <1>13, <2>2
  <2>4. <<>> \in Seq(Message) /\ leftover' = [leftover EXCEPT ![s] = <<>>]
    BY <1>1, <1>3
  <2>5. /\ leftover'[s] = <<>>
        /\ \A r \in Session \ {s} : leftover'[r] = leftover[r]
        /\ leftover' \in [Session -> Seq(Message)]
    BY <1>12, <2>4
  <2>. QED BY <2>3, <2>5
<1>15. CompletedTyped'
  <2>1. s < nextSession /\ nextSession \in Nat /\ s \in Nat
    BY <1>4 DEF WInv, TablesInv, SessionsKnown, WorkerTypeOK, Session
  <2>2. ASSUME NEW r \in Session, r >= nextSession PROVE r # s
    BY <2>1, <2>2
  <2>. QED BY <1>1, <1>12, <1>14, <2>2 DEF CompletedTyped
<1>16. SessionTold(s)'
  <2>. SUFFICES ASSUME sessions'[s].conversation
                PROVE  IdleTold(s)' /\ ClosedTold(s)'
    BY <1>11 DEF SessionTold, Stream, NoStream
  <2>1. BusyTold(s, k)
    BY <1>2, <1>4, <1>11 DEF Told, SessionTold
  <2>2. Said(s)' = Said(s) /\ Opening(s)' = <<>>
    BY <1>8, <1>11 DEF Said
  <2>3. CASE Claims(It)
    <3>1. sessions[s].history = whole
      BY <1>8, <1>13, <2>1, <2>3 DEF BusyTold
    <3>2. P!Completing(id)
      <4>1. outcome[id] = B!Complete
        BY <1>0, <1>2, <1>5, <2>3 DEF Tallies, ClaimsSound
      <4>. QED BY <4>1 DEF P!Completing, P!Complete, B!Complete
    <3>3. sessions[s].handle.open => Said(s) = whole
      BY <1>5, <1>13, <2>1, <3>2 DEF BusyTold
    <3>4. whole \o <<>> = whole
      BY <1>13, ConcatEmptySeq
    <3>5. completed'[s] = whole /\ Context(s)' = whole
      BY <1>14, <2>3, <3>4 DEF Context
    <3>6. Context(s)' \o Opening(s)' = whole
      BY <2>2, <3>4, <3>5
    <3>. QED BY <1>11, <1>14, <2>2, <3>1, <3>3, <3>5, <3>6 DEF IdleTold, ClosedTold
  <2>4. CASE ~Claims(It)
    <3>1. ~HandleOf(It.k).open
      BY <1>1, <2>4 DEF Told, RetireTold, Now, It
    <3>2. ~sessions[s].handle.open
      BY <1>0, <1>3, <3>1 DEF HandleOf
    <3>3. sessions[s].history = completed[s]
      BY <1>8, <2>1, <2>4 DEF BusyTold
    <3>. QED BY <1>11, <1>14, <2>4, <3>2, <3>3 DEF IdleTold, ClosedTold
  <2>. QED BY <2>3, <2>4
<1>17. ASSUME NEW j \in Running' PROVE SameTurn(j)
  <2>1. j \in Running /\ ops'[j] = ops[j] /\ j # k
    BY <1>10, <1>17
  <2>2. ops[j].native \in B!Id
    BY <1>1, <2>1, WorkedOn
  <2>. QED BY <1>6, <1>8, <2>1, <2>2 DEF SameTurn, SameAnswers
<1>18. Alive \subseteq Session
  BY DEF WInv, WorkerTypeOK
<1>19. \A r \in Alive' \ {s} : /\ r \in Alive /\ SameSession(r)
                               /\ Opening(r)' = Opening(r)
  BY <1>8, <1>11, <1>14, <1>18 DEF SameSession
<1>20. /\ \A j \in Running' : ops'[j].session \notin {s} => SameTurn(j)
       /\ \A r \in Alive' \intersect {s} : SessionTold(r)'
  BY <1>16, <1>17
<1>. QED BY <1>9, <1>15, <1>19, <1>20, ToldFrame

\* What a chunk of the runtime changes of the answers.
LEMMA RunSays ==
  ASSUME P!Inv, NEW t \in Thread, NEW chunk \in B!Chunk, B!CallbackRun(t, chunk)
  PROVE  /\ outcome' = outcome
         /\ object'[callback[t]].started = object[callback[t]].started
         /\ chunk.final /\ chunk.error = 0 => object'[callback[t]].final
         /\ ~(chunk.final /\ chunk.error = 0) =>
              \A j \in B!Id : P!Completing(j)' => P!Completing(j)
<1>1. PICK id \in B!Id : id = callback[t]
  BY RunCall
<1>2. PICK p : p = B!Receive(object[id], id, chunk, texts[id] + 1)
  OBVIOUS
<1>3. /\ outcome' = outcome
      /\ object'[id] = p \/ object'[id] = B!Release(p)
  <2>1. /\ outcome' = outcome
        /\ B!Store(id, p) \/ B!Store(id, B!Release(p))
    BY <1>1, <1>2 DEF B!CallbackRun
  <2>. QED BY <2>1, StoreFlags
<1>4. p \in P!Operation /\ p.started = object[id].started
  BY <1>2, SameCalls, BridgeAssumed, P!ReceiveFlags
<1>5. object'[id].started = p.started /\ object'[id].final = p.final
  BY <1>3, <1>4 DEF B!Release, B!Clear, P!Operation
<1>6. ASSUME chunk.final, chunk.error = 0 PROVE p.final
  <2>. DEFINE offered == P!Offer(object[id], id, chunk.text, texts[id] + 1)
              ended0  == P!Finish(offered, id, P!Complete, 0)
  <2>1. /\ P!Sound(object[id]) /\ texts[id] + 1 \in Nat
        /\ id \in P!Id /\ chunk.text \in {0} \union TextSize
    BY DEF P!Inv, P!TypeOK, P!AllSound, P!Id, B!Id, B!Chunk
  <2>2. p = IF object[id].final THEN object[id] ELSE ended0
    BY <1>2, <1>6 DEF B!Receive, B!Offer, P!Offer, B!Finish, P!Finish, B!FinishKind,
      P!FinishKind, B!FinishSize, P!FinishSize, B!Push, P!Push, B!Clear, P!Clear, B!TextKind,
      P!TextKind, B!Complete, P!Complete, B!Cancelled, P!Cancelled, B!Backpressure,
      P!Backpressure
  <2>3. CASE ~object[id].final
    <3>1. P!Sound(offered) /\ ~offered.final
      BY <2>1, <2>3, BridgeAssumed, P!OfferSound
    <3>. HIDE DEF offered
    <3>2. ended0.final
      BY <2>1, <3>1, BridgeAssumed, P!FinishSound
    <3>. HIDE DEF ended0
    <3>. QED BY <2>2, <2>3, <3>2
  <2>. HIDE DEF ended0
  <2>. QED BY <2>2, <2>3
<1>7. ASSUME ~(chunk.final /\ chunk.error = 0), NEW j \in B!Id, P!Completing(j)'
      PROVE  P!Completing(j)
  <2>1. P!CallbackRun(t, chunk)
    BY Zenon DEF B!CallbackRun, P!CallbackRun, B!Receive, P!Receive, B!Offer, P!Offer, B!Finish,
      P!Finish, B!FinishKind, P!FinishKind, B!FinishSize, P!FinishSize, B!Push, P!Push, B!Clear,
      P!Clear, B!Release, P!Release, B!Store, P!Store, B!TextKind, P!TextKind, B!Complete,
      P!Complete, B!Error, P!Error, B!Cancelled, P!Cancelled, B!Backpressure, P!Backpressure,
      B!NoId, P!NoId
  <2>2. j \in P!Id /\ chunk \in P!Chunk
    BY DEF P!Id, B!Id, P!Chunk, B!Chunk
  <2>3. P!Completing(j) \/ (j = callback[t] /\ chunk.final /\ chunk.error = 0)
    BY <1>7, <2>1, <2>2, BridgeAssumed, P!RunCompletes
  <2>. QED BY <1>7, <2>3
<1>. QED BY <1>1, <1>3, <1>4, <1>5, <1>6, <1>7

\* A step of another thread, or none: the worker's tables stay.
LEMMA ToldStutters ==
  ASSUME WInv, WInv', Told, SameAnswers,
         UNCHANGED <<todo, sessions, ops, nextSession, completed, leftover>>
  PROVE  Told'
<1>1. /\ \A k : Committing(k)' <=> Committing(k)
      /\ \A s : Opening(s)' = Opening(s)
      /\ RetireTold' /\ CompletedTyped'
  BY DEF Committing, Opening, Now, It, RetireTold, HandleOf, CompletedTyped, Told, Claims,
    Ending
<1>2. ASSUME NEW k \in Running' PROVE SameTurn(k)
  <2>1. k \in Running /\ ops[k].native \in B!Id
    BY <1>2 DEF Running, WInv, WorkerTypeOK, NativeOperation
  <2>. QED BY <1>1, <2>1 DEF SameTurn, SameAnswers
<1>3. \A s \in Alive' \ {} : /\ s \in Alive /\ SameSession(s)
                            /\ Opening(s)' = Opening(s)
  BY <1>1 DEF Alive, SameSession
<1>4. /\ \A k \in Running' : ops'[k].session \notin {} => SameTurn(k)
      /\ \A s \in Alive' \intersect {} : SessionTold(s)'
  BY <1>2
<1>. QED BY <1>1, <1>3, <1>4, ToldFrame

\* The answer is in the conversation before the final chunk says so.
LEMMA RuntimeRunTold ==
  ASSUME WInv, WInv', P!Inv, Told, NEW s \in Session, NEW chunk \in B!Chunk,
         RuntimeRun(s, chunk)
  PROVE  Told'
<1>1. /\ B!CallbackRun(s, chunk) /\ s \in Thread
      /\ sessions' = IF chunk.final /\ chunk.error = 0 /\ s \in Alive
                     THEN [sessions EXCEPT ![s].handle.said =
                             Append(@, Reply(sessions[s].streamId))]
                     ELSE sessions
      /\ UNCHANGED <<nextSession, ops, todo, completed, leftover>>
  BY DEF RuntimeRun, Thread, seen
<1>2. PICK id \in B!Id : id = callback[s]
  BY <1>1, RunCall
<1>3. /\ \A j \in B!Id : P!Lasting(j)
      /\ \A j \in B!Id \ {id} : object'[j] = object[j]
      /\ id # B!NoId
  BY <1>1, <1>2, RunCall
<1>4. /\ outcome' = outcome
      /\ object'[id].started = object[id].started
      /\ chunk.final /\ chunk.error = 0 => object'[id].final
      /\ ~(chunk.final /\ chunk.error = 0) =>
           \A j \in B!Id : P!Completing(j)' => P!Completing(j)
  BY <1>1, <1>2, RunSays
<1>5. /\ id = producer[s] /\ ~object[id].final
      /\ object[id].started /\ id \in operations /\ s \in Alive
  BY <1>2, <1>3 DEF WInv, ThreadsInv, Producers
<1>6. CASE ~(chunk.final /\ chunk.error = 0)
  <2>1. ASSUME NEW j \in B!Id PROVE SameAnswer(j)
    <3>1. object'[j].started = object[j].started
      BY <1>3, <1>4
    <3>. QED BY <1>3, <1>4, <1>6, <3>1 DEF SameAnswer, P!Lasting
  <2>2. SameAnswers
    BY <2>1 DEF SameAnswers
  <2>. QED BY <1>1, <1>6, <2>2, ToldStutters
<1>7. CASE chunk.final /\ chunk.error = 0
  <2>1. PICK k \in Running : ops[k].native = id /\ ops[k].session = s
    BY <1>3, <1>5 DEF WInv, ThreadsInv, Producers, WorksFor
  <2>2. /\ sessions[s].streamId = k /\ k \in Stream
        /\ sessions[s] \in NativeSession /\ ops[k] \in NativeOperation
    BY <1>5, <2>1 DEF WInv, WorkerTypeOK, TablesInv, OperationsKnown
  <2>3. Reply(k) \in Message
    BY <2>2, MessagesTyped
  <2>4. PICK said \in Seq(Message), preface \in Seq(Message) :
          said = sessions[s].handle.said /\ preface = sessions[s].handle.preface
    BY <2>2 DEF NativeSession, Handle
  <2>5. /\ Alive' = Alive
        /\ \A r \in Alive \ {s} : sessions'[r] = sessions[r]
        /\ sessions'[s] = [sessions[s] EXCEPT !.handle.said = Append(said, Reply(k))]
    BY <1>1, <1>5, <1>7, <2>2, <2>4 DEF Alive
  <2>6. /\ sessions'[s].conversation = sessions[s].conversation
        /\ sessions'[s].history = sessions[s].history
        /\ sessions'[s].streamId = k
        /\ sessions'[s].handle = [sessions[s].handle EXCEPT !.said =
                                    Append(said, Reply(k))]
    BY <2>2, <2>5 DEF NativeSession
  <2>7. /\ sessions'[s].handle.open = sessions[s].handle.open
        /\ sessions'[s].handle.preface = preface
        /\ sessions'[s].handle.said = Append(said, Reply(k))
    <3>1. sessions[s].handle \in Handle
      BY <2>2 DEF NativeSession
    <3>. QED BY <2>4, <2>6, <3>1 DEF Handle
  <2>8. Said(s)' = Append(Said(s), Reply(k))
    <3>1. Said(s)' = preface \o Append(said, Reply(k))
      BY <2>7 DEF Said
    <3>2. Said(s) = preface \o said
      BY <2>4 DEF Said
    <3>3. preface \o Append(said, Reply(k)) = Append(preface \o said, Reply(k))
      <4>1. PICK x \in Message : x = Reply(k)
        BY <2>3
      <4>2. preface \o Append(said, x) = Append(preface \o said, x)
        BY JoinedLast
      <4>. QED BY <4>1, <4>2
    <3>. QED BY <3>1, <3>2, <3>3
  <2>9. /\ \A j : Committing(j)' <=> Committing(j)
        /\ \A r : Opening(r)' = Opening(r)
        /\ CompletedTyped'
    BY <1>1 DEF Committing, Opening, Now, It, CompletedTyped, Told, Claims, Ending
  <2>10. RetireTold'
    <3>. SUFFICES ASSUME todo # <<>>, It.do = "retire"
                  PROVE  Claims(It) \/ ~HandleOf(It.k)'.open
      BY <1>1 DEF RetireTold, Now, It
    <3>1. PICK j \in Running : j = It.k
      BY HeadOperation DEF OnOperation
    <3>2. PICK r \in Alive : r = ops[j].session
      BY <3>1, WorkedOn
    <3>3. sessions'[r].handle.open = sessions[r].handle.open
      BY <2>5, <2>7
    <3>4. HandleOf(It.k)'.open = HandleOf(It.k).open
      BY <1>1, <3>1, <3>2, <3>3 DEF HandleOf, It
    <3>. QED BY <3>4 DEF Told, RetireTold, Now, It
  <2>11. SessionTold(s)'
    <3>. SUFFICES ASSUME sessions'[s].conversation
                PROVE  BusyTold(s, k)' /\ ClosedTold(s)'
      BY <2>2, <2>6 DEF SessionTold, Stream, NoStream
    <3>1. BusyTold(s, k) /\ ClosedTold(s)
      BY <1>5, <2>2, <2>6 DEF Told, SessionTold
    <3>2. PICK before, whole : /\ before = Context(s) \o Lead(k, ops[k].batch)
                               /\ whole = Context(s) \o Turn(k, ops[k].batch)
      OBVIOUS
    <3>3. /\ sessions[s].history = IF Committing(k) THEN whole ELSE completed[s]
          /\ sessions[s].handle.open => Said(s) = Append(before, Ask(k))
          /\ ops[k].batch => leftover[s] = <<>>
      BY <1>5, <2>1, <3>1, <3>2 DEF BusyTold
    <3>4. whole = Append(Append(before, Ask(k)), Reply(k))
      <4>1. /\ completed[s] \in Seq(Message) /\ leftover[s] \in Seq(Message)
            /\ ops[k].batch \in BOOLEAN
        BY <2>2 DEF Told, CompletedTyped, NativeOperation
      <4>2. Context(s) \in Seq(Message)
        BY <4>1, Joined DEF Context
      <4>. QED BY <2>2, <3>2, <4>1, <4>2, WholeTurn
    <3>5. sessions'[s].handle.open => Said(s)' = whole
      BY <2>7, <2>8, <3>3, <3>4
    <3>6. object'[id].started /\ object'[id].final
      BY <1>4, <1>5, <1>7
    <3>7. /\ ops'[k].native = id
          /\ Context(s)' \o Lead(k, ops'[k].batch) = before
          /\ Context(s)' \o Turn(k, ops'[k].batch) = whole
          /\ sessions'[s].history = IF Committing(k)' THEN whole ELSE completed'[s]
          /\ ops'[k].batch => leftover'[s] = <<>>
      BY <1>1, <2>1, <2>6, <2>9, <3>2, <3>3 DEF Context
    <3>8. ClosedTold(s)'
      BY <1>1, <2>7, <3>1 DEF ClosedTold
    <3>. QED BY <3>5, <3>6, <3>7, <3>8 DEF BusyTold
  <2>12. ASSUME NEW j \in Running', ops'[j].session \notin {s} PROVE SameTurn(j)
    <3>1. j \in Running /\ ops'[j] = ops[j] /\ j # k
      BY <1>1, <2>1, <2>12 DEF Running
    <3>2. PICK other \in B!Id : other = ops[j].native
      BY <3>1 DEF WInv, WorkerTypeOK, NativeOperation
    <3>3. other # id
      BY <2>1, <3>1, <3>2 DEF WInv, TablesInv, Registered
    <3>4. SameAnswer(other)
      BY <1>3, <1>4, <3>2, <3>3, AnswerSame
    <3>. QED BY <2>9, <3>1, <3>2, <3>4 DEF SameTurn
  <2>13. \A r \in Alive' \ {s} : /\ r \in Alive /\ SameSession(r)
                                /\ Opening(r)' = Opening(r)
    BY <1>1, <2>5, <2>9 DEF SameSession
  <2>14. /\ \A j \in Running' : ops'[j].session \notin {s} => SameTurn(j)
         /\ \A r \in Alive' \intersect {s} : SessionTold(r)'
    BY <2>11, <2>12
  <2>. QED BY <2>9, <2>10, <2>13, <2>14, ToldFrame
<1>. QED BY <1>6, <1>7

LEMMA ToldStep ==
  ASSUME WInv, WInv', P!Inv, P!Ledger, Tallies, Told, [Next]_vars
  PROVE  Told'
<1>1. CASE Command \/ Tick
  BY <1>1, CommandTold
<1>2. CASE HandlerStep
  <2>1. CASE DeleteHandle \/ Reopen \/ ReopenFails \/ IdsExhausted
    BY <2>1, DeleteHandleTold, ReopenTold, ReopenFailsTold, IdsExhaustedTold
  <2>2. CASE CreateOperation \/ Start \/ StartThrows \/ Started
    BY <2>2, CreateOperationTold, StartTold, StartThrowsTold, StartedTold
  <2>3. CASE Cancel \/ Pump \/ Poll \/ Take \/ Use
    BY <2>3, CancelTold, PumpTold, PollTold, TakeTold, UseTold
  <2>4. CASE FinishDiscards \/ FinishCommits \/ FinishThrows \/ Retire
    BY <2>4, FinishDiscardsTold, FinishCommitsTold, FinishThrowsTold, RetireTells
  <2>5. CASE Settle \/ Forget \/ DisposeNext \/ DeleteEngine \/ CloseNext \/ Exit
    BY <2>5, LoopEndTold, ForgetTold, DisposeNextTold, CloseNextTold
  <2>. QED BY <1>2, <2>1, <2>2, <2>3, <2>4, <2>5 DEF HandlerStep
<1>3. ASSUME NEW s \in Session, RuntimeFind(s) \/ RuntimeEnd(s) PROVE Told'
  <2>1. UNCHANGED <<object, outcome, todo, sessions, ops, nextSession, completed, leftover>>
    BY <1>3 DEF RuntimeFind, RuntimeEnd, B!CallbackFind, B!history, worker, bridge, tables, seen
  <2>2. SameAnswers
    BY <2>1, AnswersSame
  <2>. QED BY <2>1, <2>2, ToldStutters
<1>4. ASSUME NEW s \in Session, NEW chunk \in B!Chunk, RuntimeRun(s, chunk)
      PROVE  Told'
  BY <1>4, RuntimeRunTold
<1>5. CASE UNCHANGED vars
  <2>1. UNCHANGED <<object, outcome, todo, sessions, ops, nextSession, completed, leftover>>
    BY <1>5 DEF vars, bridge, tables, seen
  <2>2. SameAnswers
    BY <2>1, AnswersSame
  <2>. QED BY <2>1, <2>2, ToldStutters
<1>. QED BY <1>1, <1>2, <1>3, <1>4, <1>5 DEF Next, Runtime

\* Between two handlers the tale is the property.
LEMMA ToldSays ==
  ASSUME WInv, Told
  PROVE  HistoryIsCompletedTurns
<1>. SUFFICES ASSUME NEW s \in Alive, sessions[s].conversation, todo = <<>>
              PROVE  /\ sessions[s].history = completed[s]
                     /\ sessions[s].handle.open /\ sessions[s].streamId = NoStream =>
                          Said(s) = Context(s)
                     /\ ClosedTold(s)
  BY DEF HistoryIsCompletedTurns, Said, Context, ClosedTold
<1>1. /\ \A k : ~Committing(k)
      /\ Opening(s) = <<>>
  BY DEF Committing, Opening, Now
<1>2. Context(s) \o <<>> = Context(s)
  <2>1. s \in Session
    BY DEF WInv, WorkerTypeOK
  <2>2. completed[s] \in Seq(Message) /\ leftover[s] \in Seq(Message)
    BY <2>1 DEF Told, CompletedTyped
  <2>3. Context(s) \in Seq(Message)
    BY <2>2, Joined DEF Context
  <2>. QED BY <2>3, ConcatEmptySeq
<1>2a. ClosedTold(s)
  BY DEF Told, SessionTold
<1>3. CASE sessions[s].streamId = NoStream
  BY <1>1, <1>2, <1>2a, <1>3 DEF Told, SessionTold, IdleTold
<1>4. CASE sessions[s].streamId # NoStream
  <2>1. PICK k \in Stream : sessions[s].streamId = k
    BY <1>4, SessionStreams DEF WInv, WorkerTypeOK
  <2>2. BusyTold(s, k)
    BY <2>1 DEF Told, SessionTold
  <2>. QED BY <1>1, <1>2a, <1>4, <2>2 DEF BusyTold
<1>. QED BY <1>3, <1>4

\* A conversation's history is the messages it was created with and the turns
\* that were reported complete, whole and in order: what is cancelled, fails or
\* overruns leaves nothing in it, as _finish throws the handle away and the next
\* use opens one from the history.  Between two turns the native context is that
\* history too, but for one case of the code: a batch that could not be started
\* after its handle was rebuilt (no operation id, no message) leaves its prefix
\* in the handle, which is kept, until the handle is deleted or a turn that
\* completes takes the prefix over into the history.
THEOREM HistoryIsWhatWasCompleted == Spec => []HistoryIsCompletedTurns
<1>1. Init => Told
  BY TellInit
<1>2. /\ WInv /\ P!Inv /\ P!Ledger /\ Tallies /\ Told
      /\ [Next]_vars /\ WInv'
      => Told'
  BY ToldStep
<1>3. WInv /\ Told => HistoryIsCompletedTurns
  BY ToldSays
<1>4. Init => Tallies
  BY TalliesInit
<1>5. P!Inv /\ WInv /\ P!Ledger /\ Tallies /\ [Next]_vars => Tallies'
  BY TalliesStep
<1>. QED BY <1>1, <1>2, <1>3, <1>4, <1>5, WorkerInvariant, WorkerKeepsAccounts, PTL DEF Spec
=============================================================================
