----------------------------- MODULE NativeWorker -----------------------------
(***************************************************************************)
(* The worker isolate (lib/src/native_backend.dart, _NativeWorker): one    *)
(* event loop that owns every engine, session, generation and native       *)
(* handle, and drains the callback bridge (LrlmBridge) on a timer.         *)
(*                                                                         *)
(* A handler of the loop makes many native calls and the runtime's threads *)
(* run between any two of them, so a handler is a list of steps in `todo`, *)
(* each of at most one native call; the loop takes the next command or     *)
(* timer tick when the list is empty.  A step that deletes a native handle *)
(* waits for the runtime's thread (the destructor joins it).               *)
(*                                                                         *)
(* The runtime is external: a session's handle has a thread that works for *)
(* one operation, calls back into the bridge and, when it said its last    *)
(* word, ends.                                                             *)
(***************************************************************************)
EXTENDS Integers, Sequences, FiniteSets, Functions

CONSTANTS
    MaxSession,   \* bound: sessions created
    MaxEngine,    \* bound: engines loaded
    MaxStream,    \* bound: generations requested
    MaxId,        \* bound: operation ids
    Conversation, \* which kinds of sessions are created: TRUE, FALSE or both
    Configured,   \* whether they are created with messages: TRUE, FALSE or both
    MaxEvents, MaxBytes, MessageSize, TextSize, ErrorSize, MaxTexts

Session == 1 .. MaxSession
Engine  == 1 .. MaxEngine
Stream  == 1 .. MaxStream
Thread  == Session
NoStream == 0

ASSUME WorkerBounds ==
    /\ MaxSession \in Nat \ {0} /\ MaxEngine \in Nat \ {0}
    /\ MaxStream \in Nat \ {0} /\ MaxId \in Nat \ {0}
    /\ Conversation \subseteq BOOLEAN /\ Configured \subseteq BOOLEAN
    /\ MaxEvents \in Nat \ {0} /\ MaxBytes \in Nat /\ MaxTexts \in Nat
    /\ MessageSize \in 0 .. MaxBytes
    /\ TextSize \subseteq 1 .. (MaxBytes + 1)
    /\ ErrorSize \subseteq 1 .. (MaxBytes + 1)

VARIABLES
    \* The bridge.
    next_id, operations, object, callback, starting, held, live_events,
    texts, read, outcome,
    \* The worker.
    engines,      \* ids of live engines
    nextEngine,
    sessions,     \* id -> _NativeSession
    nextSession,
    ops,          \* stream -> _Operation (the Dart map `operations`)
    timer,        \* the 2 ms timer exists
    todo,         \* the steps left of the handler that is running
    fatalExit,    \* testCrash: events are suppressed
    exited,       \* the command port is closed, or the isolate died
    \* The runtime.
    producer,     \* the operation a session's native thread works for, or 0
    \* What was seen and asked: the properties compare it.
    nextStream,   \* the next stream id the client uses
    nativeOf,     \* stream -> its operation id, 0 if it never had one
    tokens,       \* stream -> texts sent as token events or found empty
    ended,        \* stream -> "no", or the terminal event sent
    askedCancel,  \* streams whose cancel reached the worker while they ran
    completed,    \* session -> its first messages and those of completed turns
    leftover      \* session -> what a batch that did not start left in its handle

bridge == <<next_id, operations, object, callback, starting, held, live_events,
            texts, read, outcome>>
tables == <<engines, nextEngine, sessions, nextSession, ops, timer>>
flags  == <<fatalExit, exited>>
seen   == <<nextStream, nativeOf, tokens, ended, askedCancel, completed,
            leftover>>
vars   == <<bridge, tables, todo, flags, producer, seen>>

B == INSTANCE LrlmBridge

-----------------------------------------------------------------------------
(* Messages and native contexts.  A turn's messages are known by its       *)
(* stream: the extra message of a batch, the question, the answer.  What a *)
(* session is created with belongs to no turn.                             *)

Message == [turn : Stream \union {NoStream},
            part : {"configured", "extra", "ask", "reply"}]
Prompt(configured) ==
    IF configured THEN <<[turn |-> NoStream, part |-> "configured"]>> ELSE <<>>
Extra(k) == [turn |-> k, part |-> "extra"]
Ask(k)   == [turn |-> k, part |-> "ask"]
Reply(k) == [turn |-> k, part |-> "reply"]
Turn(k, batch) == (IF batch THEN <<Extra(k)>> ELSE <<>>) \o <<Ask(k), Reply(k)>>

\* A native handle knows the preface it was created with and what was said
\* since; Closed is a null pointer.
Closed == [open |-> FALSE, preface |-> <<>>, said |-> <<>>]
Opened(preface) == [open |-> TRUE, preface |-> preface, said |-> <<>>]

NewSession(e, conversation, messages) ==
    [engineId |-> e, conversation |-> conversation, history |-> messages,
     handle |-> Opened(messages), phase |-> "ready", streamId |-> NoStream]

\* `batch` says that the turn had more than one message.
NewOperation(s, native, batch) ==
    [session |-> s, native |-> native, batch |-> batch, credit |-> TRUE,
     cancelRequested |-> FALSE, backpressure |-> FALSE]

Running == DOMAIN ops
Alive   == DOMAIN sessions
HandleOf(k) == sessions[ops[k].session].handle

\* A handler is the steps it has left; `do` names the step, the other fields
\* are what it is about.
Idle == todo = <<>> /\ ~exited
Now(do) == todo # <<>> /\ Head(todo).do = do
It == Head(todo)
Continue(steps) == todo' = steps \o Tail(todo)
Abort == todo' = <<>>

\* A Dart map with one more entry.
With(map, key, value) ==
    [x \in DOMAIN map \union {key} |-> IF x = key THEN value ELSE map[x]]

\* The loops go over a copy of a map's keys, in the order of their creation.
First(x, S) == x \in S /\ \A y \in S : x <= y

CancelStep(k, overflow) == [do |-> "cancel", k |-> k, overflow |-> overflow]
JoinStep(s) == [do |-> "join", s |-> s]
FinishStep(k, kind, afterStop) ==
    [do |-> "finish", k |-> k, kind |-> kind, afterStop |-> afterStop]

\* _pump: every operation in the map when it starts, then the timer.
PumpStep(ks) == [do |-> "pump", ks |-> ks]

\* Mutant: the handle goes before the cancel that needs it.
FailStepsJoinFirst(k) ==
    <<JoinStep(ops[k].session), CancelStep(k, FALSE),
      FinishStep(k, B!Error, TRUE)>>

\* The catch of _pump: stop the producer before letting the operation go.
FailSteps(k) ==
    <<CancelStep(k, FALSE), JoinStep(ops[k].session),
      FinishStep(k, B!Error, TRUE)>>

\* Mutant: the destructor joins a generation nobody cancelled.
DisposeUncancelled(s) ==
    LET k == sessions[s].streamId
        forget == [do |-> "forget", s |-> s]
    IN  IF k \notin Running THEN <<JoinStep(s), forget>>
        ELSE <<JoinStep(s), FinishStep(k, B!Cancelled, FALSE), forget>>

\* The phases "closing" and "closed" exist only inside this handler, where nothing
\* reads them.
_disposeSession(s) ==
    LET k == sessions[s].streamId
        forget == [do |-> "forget", s |-> s]
    IN  IF k \notin Running THEN <<JoinStep(s), forget>>
        ELSE <<CancelStep(k, FALSE), JoinStep(s),
               FinishStep(k, B!Cancelled, FALSE), forget>>

\* Mutant: an engine goes without its sessions.
EngineOnlyStep(e, ss) == [do |-> "engine", e |-> e, ss |-> {}]

\* _disposeEngine: the sessions in `ss` are still to be disposed.
EngineStep(e, ss) == [do |-> "engine", e |-> e, ss |-> ss]

_disposeEngine(e) ==
    <<EngineStep(e, {s \in Alive : sessions[s].engineId = e})>>

\* _closeAll: the engines in `es` are still to be disposed, then the port closes.
CloseStep(es) == [do |-> "close", es |-> es]

Init ==
    /\ B!Init
    /\ engines = {} /\ nextEngine = 1
    /\ sessions = <<>> /\ nextSession = 1
    /\ ops = <<>>
    /\ timer = FALSE
    /\ todo = <<>>
    /\ fatalExit = FALSE /\ exited = FALSE
    /\ producer = [s \in Session |-> B!NoId]
    /\ nextStream = 1
    /\ nativeOf = [k \in Stream |-> B!NoId]
    /\ tokens = [k \in Stream |-> 0]
    /\ ended = [k \in Stream |-> "no"]
    /\ askedCancel = {}
    /\ completed = [s \in Session |-> <<>>]
    /\ leftover = [s \in Session |-> <<>>]

Change(s, field, value) ==
    sessions' = [sessions EXCEPT ![s][field] = value]

-----------------------------------------------------------------------------
(* Commands.  The ports deliver them in some order; what a client can send *)
(* is any of them at any time, for handles that exist, never existed or    *)
(* are gone.  A command that only replies is a stutter.                    *)

\* _loadEngine; a rejected or failed load leaves no engine.
_loadEngine ==
    /\ Idle
    /\ nextEngine <= MaxEngine
    /\ engines' = engines \union {nextEngine}
    /\ nextEngine' = nextEngine + 1
    /\ UNCHANGED <<bridge, sessions, nextSession, ops, timer, todo, flags,
                   producer, seen>>

_createSession(e, conversation, messages) ==
    /\ Idle
    /\ e \in engines
    /\ nextSession <= MaxSession
    /\ sessions' = With(sessions, nextSession,
                        NewSession(e, conversation, messages))
    /\ nextSession' = nextSession + 1
    /\ completed' = [completed EXCEPT ![nextSession] = messages]
    /\ UNCHANGED <<bridge, engines, nextEngine, ops, timer, todo, flags,
                   producer, nextStream, nativeOf, tokens, ended, askedCancel,
                   leftover>>

\* _budget, for an idle session: it may have to open the native handle again.
_budget(s) ==
    /\ Idle
    /\ s \in Alive
    /\ sessions[s].streamId = NoStream
    /\ ~sessions[s].handle.open
    /\ Change(s, "handle", Opened(sessions[s].history))
    /\ UNCHANGED <<bridge, engines, nextEngine, nextSession, ops, timer, todo,
                   flags, producer, seen>>

\* A generate that is refused: the session is gone or busy, the request is
\* invalid, there is no room for it, or the handle cannot be opened.  It was
\* perhaps opened on the way.
GenerateRefused(s) ==
    /\ Idle
    /\ nextStream <= MaxStream
    /\ ended' = [ended EXCEPT ![nextStream] = "error"]
    /\ nextStream' = nextStream + 1
    /\ \/ UNCHANGED sessions
       \/ /\ s \in Alive
          /\ sessions[s].streamId = NoStream
          /\ ~sessions[s].handle.open
          /\ Change(s, "handle", Opened(sessions[s].history))
    /\ UNCHANGED <<bridge, engines, nextEngine, nextSession, ops, timer, todo,
                   flags, producer, nativeOf, tokens, askedCancel, completed,
                   leftover>>

\* A generate that passes the checks, up to the first delete it may wait for.
_generate(s, batch) ==
    /\ Idle
    /\ nextStream <= MaxStream
    /\ s \in Alive
    /\ sessions[s].streamId = NoStream
    /\ batch => sessions[s].conversation
    /\ IF sessions[s].handle.open THEN UNCHANGED sessions
       ELSE Change(s, "handle", Opened(sessions[s].history))
    /\ nextStream' = nextStream + 1
    /\ LET k == nextStream
           rebuild == <<JoinStep(s), [do |-> "reopen", s |-> s, k |-> k]>>
       IN  todo' = (IF batch THEN rebuild ELSE <<>>)
                     \o <<[do |-> "create", s |-> s, k |-> k, batch |-> batch],
                          [do |-> "start", s |-> s, k |-> k],
                          [do |-> "started", s |-> s, k |-> k]>>
    /\ UNCHANGED <<bridge, engines, nextEngine, nextSession, ops, timer, flags,
                   producer, nativeOf, tokens, ended, askedCancel, completed,
                   leftover>>

credit(k) ==
    /\ Idle
    /\ k \in Running
    /\ ops' = [ops EXCEPT ![k].credit = TRUE]
    /\ UNCHANGED <<bridge, engines, nextEngine, sessions, nextSession, timer,
                   todo, flags, producer, seen>>

Handler(steps) ==
    /\ Idle
    /\ todo' = steps
    /\ UNCHANGED <<bridge, tables, exited, producer, seen>>

cancelStream(k) ==
    k \in Running /\ Handler(<<CancelStep(k, FALSE)>>) /\ UNCHANGED fatalExit

cancelSession(s) ==
    /\ s \in Alive
    /\ sessions[s].streamId \in Running
    /\ Handler(<<CancelStep(sessions[s].streamId, FALSE)>>)
    /\ UNCHANGED fatalExit

disposeSession(s) ==
    s \in Alive /\ Handler(_disposeSession(s)) /\ UNCHANGED fatalExit

disposeEngine(e) ==
    e \in engines /\ Handler(_disposeEngine(e)) /\ UNCHANGED fatalExit

close == Handler(<<CloseStep(engines)>>) /\ UNCHANGED fatalExit

testCrash == Handler(<<CloseStep(engines)>>) /\ fatalExit' = TRUE

Tick == timer /\ Handler(<<PumpStep(Running)>>) /\ UNCHANGED fatalExit

-----------------------------------------------------------------------------
(* Steps of the handlers.                                                  *)

\* Mutant: the pointer is cleared, nothing is deleted and so nothing joined.
DeleteHandleUnjoined ==
    /\ Now("join")
    /\ Change(It.s, "handle", Closed)
    /\ Continue(<<>>)
    /\ UNCHANGED <<bridge, engines, nextEngine, nextSession, ops, timer, flags,
                   producer, seen>>

\* _deleteHandle: the destructor joins the runtime's thread.
DeleteHandle ==
    /\ Now("join")
    /\ sessions[It.s].handle.open => producer[It.s] = B!NoId
    /\ Change(It.s, "handle", Closed)
    /\ leftover' = [leftover EXCEPT ![It.s] = <<>>]
    /\ Continue(<<>>)
    /\ UNCHANGED <<bridge, engines, nextEngine, nextSession, ops, timer, flags,
                   producer, nextStream, nativeOf, tokens, ended, askedCancel,
                   completed>>

\* A batch rebuilds its context from the committed history and its own prefix.
Reopen ==
    /\ Now("reopen")
    /\ Change(It.s, "handle", Opened(Append(sessions[It.s].history, Extra(It.k))))
    /\ Continue(<<>>)
    /\ UNCHANGED <<bridge, engines, nextEngine, nextSession, ops, timer, flags,
                   producer, seen>>

ReopenFails ==
    /\ Now("reopen")
    /\ ended' = [ended EXCEPT ![It.k] = "error"]
    /\ Abort
    /\ UNCHANGED <<bridge, tables, flags, producer, nextStream, nativeOf, tokens,
                   askedCancel, completed, leftover>>

\* What a batch that does not start leaves in the handle rebuilt for it: its
\* prefix.  The handle is kept.
Leave(s, k, batch) ==
    leftover' = IF batch THEN [leftover EXCEPT ![s] = <<Extra(k)>>] ELSE leftover

\* The bridge has no id left, perhaps after the rebuild.
IdsExhausted ==
    /\ Now("create")
    /\ next_id = B!NoId
    /\ Leave(It.s, It.k, It.batch)
    /\ ended' = [ended EXCEPT ![It.k] = "error"]
    /\ Abort
    /\ UNCHANGED <<bridge, tables, flags, producer, nextStream, nativeOf, tokens,
                   askedCancel, completed>>

CreateOperation ==
    /\ Now("create")
    /\ B!lrlm_operation_create
    /\ ops' = With(ops, It.k, NewOperation(It.s, next_id, It.batch))
    /\ sessions' = [sessions EXCEPT ![It.s].phase = "generating",
                                    ![It.s].streamId = It.k]
    /\ nativeOf' = [nativeOf EXCEPT ![It.k] = next_id]
    /\ Continue(<<>>)
    /\ UNCHANGED <<engines, nextEngine, nextSession, timer, flags, producer,
                   nextStream, tokens, ended, askedCancel, completed, leftover>>

\* The native start call hands the question to the handle's thread, once that
\* is through with what it did before.
Start ==
    /\ Now("start")
    /\ producer[It.s] = B!NoId
    /\ B!StartBegin(ops[It.k].native)
    /\ producer' = [producer EXCEPT ![It.s] = ops[It.k].native]
    /\ sessions' = [sessions EXCEPT ![It.s].handle.said = Append(@, Ask(It.k))]
    /\ Continue(<<>>)
    /\ UNCHANGED <<engines, nextEngine, nextSession, ops, timer, flags, seen>>

\* The message or the input cannot be made: the catch of _generate.
StartThrows ==
    /\ Now("start")
    /\ B!lrlm_operation_delete(ops[It.k].native)
    /\ ops' = Restrict(ops, Running \ {It.k})
    /\ sessions' = [sessions EXCEPT ![It.s].phase = "ready",
                                    ![It.s].streamId = NoStream]
    /\ Leave(It.s, It.k, ops[It.k].batch)
    /\ ended' = [ended EXCEPT ![It.k] = "error"]
    /\ Abort
    /\ UNCHANGED <<engines, nextEngine, nextSession, timer, flags, producer,
                   nextStream, nativeOf, tokens, askedCancel, completed>>

\* The call returns; what it returns, the queue tells.  Then the first pump.
Started ==
    /\ Now("started")
    /\ \/ B!StartOk /\ UNCHANGED producer
       \/ /\ \E error \in ErrorSize : B!StartFailed(error)
          /\ callback[It.s] = B!NoId
          /\ producer' = [producer EXCEPT ![It.s] = B!NoId]
    /\ timer' = TRUE
    /\ Continue(<<PumpStep(Running)>>)
    /\ UNCHANGED <<engines, nextEngine, sessions, nextSession, ops, flags, seen>>

\* Mutant: a cancel that finds the operation final does nothing.
CancelUnlessFinal ==
    LET k == It.k
        native == ops[k].native
        ignored == ops[k].cancelRequested \/ object[native].final
    IN  /\ Now("cancel")
        /\ IF ignored THEN UNCHANGED <<bridge, ops, sessions>>
           ELSE /\ ops' = [ops EXCEPT ![k].cancelRequested = TRUE,
                                      ![k].backpressure = It.overflow]
                /\ sessions' = [sessions EXCEPT
                                  ![ops[k].session].phase = "cancelRequested"]
                /\ IF ~It.overflow /\ ~object[native].terminal_taken
                   THEN B!lrlm_operation_cancel(native)
                   ELSE UNCHANGED bridge
        /\ askedCancel' = IF It.overflow THEN askedCancel
                          ELSE askedCancel \union {k}
        /\ Continue(<<>>)
        /\ UNCHANGED <<engines, nextEngine, nextSession, timer, flags, producer,
                       nextStream, nativeOf, tokens, ended, completed,
                       leftover>>

\* _cancel
Cancel ==
    LET k == It.k
        native == ops[k].native
        reaches == /\ ~It.overflow
                   /\ ~object[native].cancelled
                   /\ ~object[native].terminal_taken
    IN  /\ Now("cancel")
        /\ IF ops[k].cancelRequested THEN UNCHANGED <<bridge, ops, sessions>>
           ELSE /\ ops' = [ops EXCEPT ![k].cancelRequested = TRUE,
                                      ![k].backpressure = It.overflow]
                /\ sessions' = [sessions EXCEPT
                                  ![ops[k].session].phase = "cancelRequested"]
                /\ IF reaches THEN B!lrlm_operation_cancel(native)
                   ELSE UNCHANGED bridge
        /\ askedCancel' = IF It.overflow THEN askedCancel
                          ELSE askedCancel \union {k}
        /\ Continue(<<>>)
        /\ UNCHANGED <<engines, nextEngine, nextSession, timer, flags, producer,
                       nextStream, nativeOf, tokens, ended, completed,
                       leftover>>

\* _pump for one operation: an overflow is cancelled first.
Overran(k) == LET o == object[ops[k].native] IN o.overflow /\ ~o.final

Pump ==
    /\ Now("pump")
    /\ \E k \in Stream :
        /\ First(k, It.ks)
        /\ LET rest == <<[do |-> "poll", k |-> k], PumpStep(It.ks \ {k})>>
           IN  Continue(IF Overran(k) THEN <<CancelStep(k, TRUE)>> \o rest
                        ELSE rest)
    /\ UNCHANGED <<bridge, tables, flags, producer, seen>>

\* Mutant: the rest of a final operation waits for credit too.
PollOnCreditOnly ==
    LET op == ops[It.k]
    IN  /\ Now("poll")
        /\ Continue(IF op.credit \/ op.cancelRequested
                    THEN <<[do |-> "take", k |-> It.k]>> ELSE <<>>)
        /\ UNCHANGED <<bridge, tables, flags, producer, seen>>

\* Without credit nothing is taken, unless the rest of the queue is finite.
Poll ==
    LET op == ops[It.k]
        wanted == \/ op.credit
                  \/ op.cancelRequested
                  \/ object[op.native].final
    IN  /\ Now("poll")
        /\ Continue(IF wanted THEN <<[do |-> "take", k |-> It.k]>> ELSE <<>>)
        /\ UNCHANGED <<bridge, tables, flags, producer, seen>>

Take ==
    LET native == ops[It.k].native IN
    /\ Now("take")
    /\ IF object[native].queue = <<>>
       THEN UNCHANGED bridge /\ Continue(<<>>)
       ELSE /\ B!lrlm_operation_take(native)
            /\ Continue(<<[do |-> "use", k |-> It.k]>>)
    /\ UNCHANGED <<tables, flags, producer, seen>>

\* Mutant: a text that came without credit is dropped.
UseWithCreditOnly ==
    LET k == It.k
        text == B!IsText(held)
        sent(more) == tokens' = [tokens EXCEPT ![k] = @ + more]
    IN  /\ Now("use")
        /\ B!lrlm_event_delete
        /\ \/ /\ text /\ (ops[k].cancelRequested \/ ~ops[k].credit)
              /\ Continue(<<>>) /\ sent(0) /\ UNCHANGED ops
           \/ /\ text /\ ~ops[k].cancelRequested /\ ops[k].credit
              /\ ops' = [ops EXCEPT ![k].credit = FALSE]
              /\ Continue(<<>>) /\ sent(1)
           \/ /\ ~text
              /\ Continue(<<FinishStep(k, held.kind, FALSE)>>)
              /\ sent(0) /\ UNCHANGED ops
        /\ UNCHANGED <<engines, nextEngine, sessions, nextSession, timer, flags,
                       producer, nextStream, nativeOf, ended, askedCancel,
                       completed, leftover>>

\* The event is decoded and deleted.  A text of a cancelled operation is
\* dropped; an empty one (a control message) needs no credit; a malformed event
\* fails the operation.
Use ==
    LET k == It.k
        text == B!IsText(held)
        sent(more) == tokens' = [tokens EXCEPT ![k] = @ + more]
    IN  /\ Now("use")
        /\ B!lrlm_event_delete
        /\ \/ /\ text /\ ops[k].cancelRequested
              /\ Continue(<<>>) /\ sent(0) /\ UNCHANGED ops
           \/ /\ text /\ ~ops[k].cancelRequested
              /\ \/ ops' = [ops EXCEPT ![k].credit = FALSE]
                 \/ sessions[ops[k].session].conversation /\ UNCHANGED ops
              /\ Continue(<<>>) /\ sent(1)
           \/ /\ ~text
              /\ Continue(<<FinishStep(k, held.kind, FALSE)>>)
              /\ sent(0) /\ UNCHANGED ops
           \/ /\ held.kind \in {B!TextKind, B!Error}
              /\ Continue(FailSteps(k)) /\ sent(0) /\ UNCHANGED ops
        /\ UNCHANGED <<engines, nextEngine, sessions, nextSession, timer, flags,
                       producer, nextStream, nativeOf, ended, askedCancel,
                       completed, leftover>>

\* _finish decides whether the turn counts.  If not, the poisoned handle goes.
FinishCancelled(step) ==
    ~step.afterStop /\ (ops[step.k].cancelRequested \/ step.kind = B!Cancelled)

Discards(step) == FinishCancelled(step) \/ step.kind # B!Complete

RetireStep(step) ==
    [do |-> "retire", k |-> step.k, kind |-> step.kind,
     cancelled |-> FinishCancelled(step)]

FinishDiscards ==
    /\ Now("finish")
    /\ It.k \in Running
    /\ Discards(It)
    /\ Continue(<<JoinStep(ops[It.k].session), RetireStep(It)>>)
    /\ UNCHANGED <<bridge, tables, flags, producer, seen>>

\* Mutant: the preface of the native conversation is forgotten.
CommittedWithoutPreface(session) ==
    IF session.conversation THEN session.handle.said ELSE session.history

CommittedHistory(session) ==
    IF session.conversation THEN session.handle.preface \o session.handle.said
    ELSE session.history

FinishCommits ==
    /\ Now("finish")
    /\ It.k \in Running
    /\ ~Discards(It)
    /\ LET s == ops[It.k].session
       IN  Change(s, "history", CommittedHistory(sessions[s]))
    /\ Continue(<<RetireStep(It)>>)
    /\ UNCHANGED <<bridge, engines, nextEngine, nextSession, ops, timer, flags,
                   producer, seen>>

\* The native history cannot be read: _pump's catch again.
FinishThrows ==
    /\ Now("finish")
    /\ It.k \in Running
    /\ ~Discards(It)
    /\ sessions[ops[It.k].session].conversation
    /\ Continue(FailSteps(It.k))
    /\ UNCHANGED <<bridge, tables, flags, producer, seen>>

\* The end of _finish: the operation goes and its terminal event is sent.
TerminalEvent(step) ==
    CASE ops[step.k].backpressure \/ step.kind = B!Backpressure -> "backpressure"
      [] ~(ops[step.k].backpressure \/ step.kind = B!Backpressure) ->
           CASE step.cancelled -> "cancelled"
             [] ~step.cancelled /\ step.kind = B!Complete -> "complete"
             [] OTHER -> "error"

\* Mutant: the session is not told that its stream ended.
RetireKeepingStream ==
    LET k == It.k
        event == TerminalEvent(It)
    IN  /\ Now("retire")
        /\ B!lrlm_operation_delete(ops[k].native)
        /\ ops' = Restrict(ops, Running \ {k})
        /\ sessions' = [sessions EXCEPT ![ops[k].session].phase = "ready"]
        /\ ended' = [ended EXCEPT ![k] = event]
        /\ Continue(<<>>)
        /\ UNCHANGED <<engines, nextEngine, nextSession, timer, flags, producer,
                       nextStream, nativeOf, tokens, askedCancel, completed,
                       leftover>>

Retire ==
    LET k == It.k
        s == ops[k].session
        event == TerminalEvent(It)
    IN  /\ Now("retire")
        /\ B!lrlm_operation_delete(ops[k].native)
        /\ ops' = Restrict(ops, Running \ {k})
        /\ sessions' = [sessions EXCEPT ![s].phase = "ready",
                                        ![s].streamId = NoStream]
        /\ ended' = IF fatalExit THEN ended ELSE [ended EXCEPT ![k] = event]
        /\ completed' = IF event = "complete"
                        THEN [completed EXCEPT ![s] =
                                @ \o leftover[s] \o Turn(k, ops[k].batch)]
                        ELSE completed
        /\ leftover' = [leftover EXCEPT ![s] = <<>>]
        /\ Continue(<<>>)
        /\ UNCHANGED <<engines, nextEngine, nextSession, timer, flags, producer,
                       nextStream, nativeOf, tokens, askedCancel>>

\* The timer lives as long as there is something to pump.
Settle ==
    /\ Now("pump")
    /\ It.ks = {}
    /\ timer' = (timer /\ Running # {})
    /\ Continue(<<>>)
    /\ UNCHANGED <<bridge, engines, nextEngine, sessions, nextSession, ops,
                   flags, producer, seen>>

Forget ==
    /\ Now("forget")
    /\ sessions' = Restrict(sessions, Alive \ {It.s})
    /\ Continue(<<>>)
    /\ UNCHANGED <<bridge, engines, nextEngine, nextSession, ops, timer, flags,
                   producer, seen>>

\* The loop of _disposeEngine, and what follows it.
DisposeNext ==
    /\ Now("engine")
    /\ \E s \in Session :
        /\ First(s, It.ss)
        /\ Continue(_disposeSession(s) \o <<EngineStep(It.e, It.ss \ {s})>>)
    /\ UNCHANGED <<bridge, tables, flags, producer, seen>>

DeleteEngine ==
    /\ Now("engine")
    /\ It.ss = {}
    /\ engines' = engines \ {It.e}
    /\ Continue(<<>>)
    /\ UNCHANGED <<bridge, nextEngine, sessions, nextSession, ops, timer, flags,
                   producer, seen>>

\* The loop of _closeAll, and what follows it.
CloseNext ==
    /\ Now("close")
    /\ \E e \in Engine :
        /\ First(e, It.es)
        /\ Continue(_disposeEngine(e) \o <<CloseStep(It.es \ {e})>>)
    /\ UNCHANGED <<bridge, tables, flags, producer, seen>>

Exit ==
    /\ Now("close")
    /\ It.es = {}
    /\ timer' = FALSE
    /\ exited' = TRUE
    /\ Continue(<<>>)
    /\ UNCHANGED <<bridge, engines, nextEngine, sessions, nextSession, ops,
                   fatalExit, producer, seen>>

-----------------------------------------------------------------------------
(* The runtime: external.                                                  *)

worker == <<tables, todo, flags, seen>>

RuntimeFind(s) ==
    /\ producer[s] # B!NoId
    /\ ~object[producer[s]].final
    /\ B!CallbackFind(s, producer[s])
    /\ UNCHANGED <<worker, producer>>

\* The answer is complete before the final chunk says so.
RuntimeRun(s, chunk) ==
    /\ B!CallbackRun(s, chunk)
    /\ sessions' = IF chunk.final /\ chunk.error = 0 /\ s \in Alive
                   THEN [sessions EXCEPT ![s].handle.said =
                           Append(@, Reply(sessions[s].streamId))]
                   ELSE sessions
    /\ UNCHANGED <<engines, nextEngine, nextSession, ops, timer, todo, flags,
                   seen, producer>>

\* The thread ends once it said its last word, or nobody can hear it.
RuntimeEnd(s) ==
    /\ producer[s] # B!NoId
    /\ callback[s] = B!NoId
    /\ starting # producer[s]
    /\ object[producer[s]].final \/ producer[s] \notin operations
    /\ producer' = [producer EXCEPT ![s] = B!NoId]
    /\ UNCHANGED <<bridge, worker>>

Command ==
    \/ _loadEngine
    \/ close
    \/ testCrash
    \/ \E e \in Engine : \/ \E conversation \in Conversation :
                               \E configured \in Configured :
                                 _createSession(e, conversation,
                                                Prompt(configured))
                         \/ disposeEngine(e)
    \/ \E s \in Session : \/ _budget(s)
                          \/ GenerateRefused(s)
                          \/ \E batch \in BOOLEAN : _generate(s, batch)
                          \/ cancelSession(s)
                          \/ disposeSession(s)
    \/ \E k \in Stream : credit(k) \/ cancelStream(k)

HandlerStep ==
    \/ DeleteHandle \/ Reopen \/ ReopenFails
    \/ CreateOperation \/ IdsExhausted \/ Start \/ StartThrows \/ Started
    \/ Cancel \/ Pump \/ Poll \/ Take \/ Use
    \/ FinishDiscards \/ FinishCommits \/ FinishThrows \/ Retire
    \/ Settle \/ Forget \/ DisposeNext \/ DeleteEngine \/ CloseNext \/ Exit

Runtime ==
    \E s \in Session : \/ RuntimeFind(s)
                       \/ \E chunk \in B!Chunk : RuntimeRun(s, chunk)
                       \/ RuntimeEnd(s)

Next == Command \/ Tick \/ HandlerStep \/ Runtime

Spec == Init /\ [][Next]_vars

-----------------------------------------------------------------------------
(* What the worker must never do.                                          *)

Handle == [open : BOOLEAN, preface : Seq(Message), said : Seq(Message)]

NativeSession == [engineId : Engine, conversation : BOOLEAN,
                  history : Seq(Message), handle : Handle,
                  phase : {"ready", "generating", "cancelRequested"},
                  streamId : Stream \union {NoStream}]

NativeOperation == [session : Session, native : B!Id, batch : BOOLEAN,
                    credit : BOOLEAN, cancelRequested : BOOLEAN,
                    backpressure : BOOLEAN]

StreamEnd == {"no", "complete", "cancelled", "backpressure", "error"}

\* The worker's tables hold what they should.
WorkerTypeOK ==
    /\ engines \subseteq Engine
    /\ nextEngine \in 1 .. MaxEngine + 1
    /\ nextSession \in 1 .. MaxSession + 1
    /\ nextStream \in 1 .. MaxStream + 1
    /\ Alive \subseteq Session
    /\ \A s \in Alive : sessions[s] \in NativeSession
    /\ Running \subseteq Stream
    /\ \A k \in Running : ops[k] \in NativeOperation
    /\ timer \in BOOLEAN /\ fatalExit \in BOOLEAN /\ exited \in BOOLEAN
    /\ producer \in [Session -> B!Id \union {B!NoId}]
    /\ nativeOf \in [Stream -> B!Id \union {B!NoId}]
    /\ tokens \in [Stream -> Nat]
    /\ ended \in [Stream -> StreamEnd]
    /\ askedCancel \subseteq Stream

\* No native call reaches a handle that a finish, a failure or a dispose
\* deleted: what a step is about to use is still there, whatever the handler it
\* belongs to did before it (a deleted handle is a null pointer to the native
\* library).
NoUseAfterDelete ==
    /\ Now("cancel") => \/ ops[It.k].cancelRequested
                        \/ HandleOf(It.k).open
    /\ Now("start") => sessions[It.s].handle.open
    /\ Now("pump") => It.ks \subseteq Running
    /\ Now("engine") => It.ss \subseteq Alive
    /\ Now("finish") => /\ It.k \in Running
                        /\ ~Discards(It) => HandleOf(It.k).open
    /\ \A s \in Alive : sessions[s].handle.open => sessions[s].engineId \in engines

\* "never a justification to release a live producer" (_pump): an operation
\* leaves the bridge's registry only when the native thread that works for it
\* has said its last word.
NoOrphanedProducer ==
    \A s \in Session :
        \/ producer[s] \in operations \union {B!NoId}
        \/ object[producer[s]].final

\* The tables hold what they should, and between two handlers they agree: an
\* operation belongs to a live session that knows it, has a native operation and
\* an open handle; a session that knows a stream has its operation; no native
\* operation is forgotten in the registry; and the timer that pumps them exists.
TablesAgree ==
    /\ WorkerTypeOK
    /\ todo = <<>> =>
        /\ \A k \in Running :
              /\ ops[k].session \in Alive
              /\ sessions[ops[k].session].streamId = k
              /\ sessions[ops[k].session].phase =
                    IF ops[k].cancelRequested THEN "cancelRequested"
                    ELSE "generating"
              /\ HandleOf(k).open
              /\ ended[k] = "no"
        /\ \A s \in Alive : \/ sessions[s].streamId \in Running
                             \/ /\ sessions[s].streamId = NoStream
                                /\ sessions[s].phase = "ready"
        /\ operations = {ops[k].native : k \in Running}
        /\ held = B!NoEvent
        /\ Running # {} => timer

\* The history of a conversation is what it was created with and the turns that
\* were reported complete, whole and in order: nothing of a cancelled, failed or
\* overrun turn is kept.  The native context of an idle session is that history,
\* with one exception: after a batch that was rebuilt for and did not start, the
\* handle also holds the batch's prefix (and a turn that completes on that handle
\* takes the prefix into the history).
HistoryIsCompletedTurns ==
    \A s \in Alive :
        LET session == sessions[s]
            handle == session.handle
        IN  session.conversation /\ todo = <<>> =>
              /\ session.history = completed[s]
              /\ handle.open /\ session.streamId = NoStream =>
                    handle.preface \o handle.said = completed[s] \o leftover[s]
              /\ ~handle.open => leftover[s] = <<>>

\* "complete" is a promise that every text the runtime produced was forwarded
\* (or was an empty control message), however late the consumer gave credit.
CompleteMeansAll ==
    \A k \in Stream : ended[k] = "complete" => tokens[k] = texts[nativeOf[k]]

\* A stream whose cancel reached the worker before its end is never reported
\* complete.
CancelledNeverComplete == \A k \in askedCancel : ended[k] # "complete"

\* When the worker is gone nothing native is left: no engine, session,
\* operation, handle's thread or event.
CleanExit ==
    exited => /\ engines = {} /\ Alive = {} /\ Running = {}
              /\ operations = {} /\ held = B!NoEvent /\ ~timer
              /\ \A s \in Session : producer[s] = B!NoId
              /\ live_events = 0
=============================================================================
