------------------------------ MODULE LrlmBridge ------------------------------
(***************************************************************************)
(* native/litert_lm_bridge.cc: the bounded event queue between the threads *)
(* of the native runtime and the Dart worker isolate.                      *)
(*                                                                         *)
(* Two kinds of actors.  The runtime's threads enter Callback: they find   *)
(* the operation under the registry's mutex, keep a shared_ptr to it, and  *)
(* only then take the operation's mutex (two actions, CallbackFind and     *)
(* CallbackRun).  The worker isolate, a single thread, makes every other   *)
(* call.  As nobody else erases from the registry, its Find and what it    *)
(* does under the operation's mutex are one action.                        *)
(*                                                                         *)
(* Texts are numbered in the order the runtime delivers them; a text is    *)
(* its number and its size.                                                *)
(***************************************************************************)
EXTENDS Integers, Sequences, FiniteSets

CONSTANTS
    MaxId,        \* the last operation id (2^64 - 1 in the code)
    Thread,       \* threads of the runtime that may be inside Callback
    MaxEvents,    \* kMaxEvents
    MaxBytes,     \* kMaxBytes
    MessageSize,  \* size of the fixed backpressure message
    TextSize,     \* sizes of texts, as strnlen(text, kMaxBytes + 1) sees them
    ErrorSize,    \* sizes of error messages, likewise
    MaxTexts      \* bound: texts the runtime produces for one operation

ASSUME BoundsAssumption ==
    /\ MaxId \in Nat \ {0}
    /\ MaxEvents \in Nat \ {0}
    /\ MaxBytes \in Nat
    /\ MessageSize \in 0 .. MaxBytes
    /\ TextSize \subseteq 1 .. (MaxBytes + 1)
    /\ ErrorSize \subseteq 1 .. (MaxBytes + 1)
    /\ MaxTexts \in Nat

Id   == 1 .. MaxId
NoId == 0

\* The kinds of lrlm_event_kind.
TextKind     == 0
Complete     == 1
Error        == 2
Cancelled    == 3
Backpressure == 4
TerminalKind == {Complete, Error, Cancelled, Backpressure}

\* outcome of an operation whose terminal nobody has taken.
Open == -1

NoEvent == [id |-> NoId, kind |-> TextKind, size |-> 0, n |-> 0]
Event   == [id : Id, kind : {TextKind} \union TerminalKind,
            size : 0 .. MaxBytes, n : Nat]

Operation == [queue : Seq(Event), bytes : 0 .. MaxBytes,
              cancelled : BOOLEAN, overflow : BOOLEAN, final : BOOLEAN,
              started : BOOLEAN, terminal_taken : BOOLEAN]

NewOperation == [queue |-> <<>>, bytes |-> 0,
                 cancelled |-> FALSE, overflow |-> FALSE, final |-> FALSE,
                 started |-> FALSE, terminal_taken |-> FALSE]

VARIABLES
    next_id,      \* the next id; 0 once all were used
    operations,   \* the registry: ids whose operation it owns
    object,       \* the Operation of each id
    callback,     \* the id whose shared_ptr a runtime thread holds, or NoId
    starting,     \* the id whose native start call the worker is in, or NoId
    held,         \* the event the worker took and has not deleted, or NoEvent
    live_events,  \* LrlmEvent objects constructed and not destroyed
    \* History: what the properties compare.
    texts,        \* texts the runtime produced before the operation was final
    read,         \* texts the worker took
    outcome       \* kind of the terminal the worker took, or Open

vars == <<next_id, operations, object, callback, starting, held, live_events,
          texts, read, outcome>>

-----------------------------------------------------------------------------
(* The helpers that work on one Operation under its mutex.                 *)

\* Mutant: the queue goes, its byte count stays.
ClearQueueOnly(op) == [op EXCEPT !.queue = <<>>]

Clear(op) == [op EXCEPT !.queue = <<>>, !.bytes = 0]

Push(op, event) ==
    [op EXCEPT !.queue = Append(@, event), !.bytes = @ + event.size]

\* Mutant: a cancel does not change how the stream ends.
FinishKindUncancelled(op, kind) == IF op.overflow THEN Backpressure ELSE kind

\* The kind and message size Finish settles on.
FinishKind(op, kind) ==
    CASE op.cancelled -> Cancelled
      [] ~op.cancelled /\ op.overflow -> Backpressure
      [] OTHER -> kind

FinishSize(op, error) ==
    CASE op.cancelled -> 0
      [] ~op.cancelled /\ op.overflow -> MessageSize
      [] OTHER -> IF error > MaxBytes THEN MaxBytes ELSE error

Finish(op, id, kind, error) ==
    IF op.final THEN op
    ELSE LET size   == FinishSize(op, error)
             \* Undeliverable texts go, and so do texts the message leaves no
             \* room for.
             kept   == IF \/ op.cancelled
                          \/ op.overflow
                          \/ op.bytes > MaxBytes - size
                       THEN Clear(op) ELSE op
         IN  [Push(kept, [id |-> id, kind |-> FinishKind(op, kind),
                          size |-> size, n |-> 0])
              EXCEPT !.final = TRUE]

\* Mutant: no slot is reserved for the terminal.
OfferUnreserved(op, id, size, n) ==
    IF size = 0 \/ op.cancelled \/ op.overflow THEN op
    ELSE IF Len(op.queue) >= MaxEvents \/ size > MaxBytes - op.bytes
         THEN [Clear(op) EXCEPT !.overflow = TRUE]
         ELSE Push(op, [id |-> id, kind |-> TextKind, size |-> size, n |-> n])

\* A text arrives: one slot stays reserved for the terminal.
Offer(op, id, size, n) ==
    IF size = 0 \/ op.cancelled \/ op.overflow THEN op
    ELSE IF Len(op.queue) >= MaxEvents - 1 \/ size > MaxBytes - op.bytes
         THEN [Clear(op) EXCEPT !.overflow = TRUE]
         ELSE Push(op, [id |-> id, kind |-> TextKind, size |-> size, n |-> n])

\* A stream chunk as Callback reads it; 0 is an absent or empty string.
Chunk == [text : {0} \union TextSize, error : {0} \union ErrorSize,
          final : BOOLEAN]

\* Callback's work under the operation's mutex; n numbers the chunk's text.
Receive(op, id, chunk, n) ==
    IF op.final THEN op
    ELSE IF chunk.error > 0 THEN Finish(op, id, Error, chunk.error)
    ELSE IF chunk.final
         THEN Finish(Offer(op, id, chunk.text, n), id, Complete, 0)
         ELSE Offer(op, id, chunk.text, n)

-----------------------------------------------------------------------------

Init ==
    /\ next_id = 1
    /\ operations = {}
    /\ object = [id \in Id |-> NewOperation]
    /\ callback = [t \in Thread |-> NoId]
    /\ starting = NoId
    /\ held = NoEvent
    /\ live_events = 0
    /\ texts = [id \in Id |-> 0]
    /\ read = [id \in Id |-> 0]
    /\ outcome = [id \in Id |-> Open]

history == <<texts, read, outcome>>

\* Replaces the operation of id; LrlmEvent's constructor and destructor count
\* the events that enter and leave its queue.
Store(id, op) ==
    /\ object' = [object EXCEPT ![id] = op]
    /\ live_events' = live_events + Len(op.queue) - Len(object[id].queue)

\* Mutant: the queue of a destroyed operation is not destroyed.
ReleaseNothing(op) == op

\* The last shared_ptr to an unregistered operation goes, and its queue with it.
Release(op) == Clear(op)

(* The worker isolate.  It makes no other call while a native start runs.  *)

\* Mutant: ids wrap to the first one.
CreateWrapping ==
    /\ starting = NoId
    /\ next_id' = IF next_id = MaxId THEN 1 ELSE next_id + 1
    /\ operations' = operations \union {next_id}
    /\ UNCHANGED <<object, callback, starting, held, live_events, history>>

lrlm_operation_create ==
    /\ starting = NoId
    /\ next_id # 0
    /\ next_id' = IF next_id = MaxId THEN 0 ELSE next_id + 1
    /\ operations' = operations \union {next_id}
    /\ UNCHANGED <<object, callback, starting, held, live_events, history>>

\* lrlm_operation_start_session and _start_conversation, up to the native call.
StartBegin(id) ==
    /\ starting = NoId
    /\ id \in operations
    /\ ~object[id].started
    /\ Store(id, [object[id] EXCEPT !.started = TRUE])
    /\ starting' = id
    /\ UNCHANGED <<next_id, operations, callback, held, history>>

\* The native call returns 0.
StartOk ==
    /\ starting # NoId
    /\ starting' = NoId
    /\ UNCHANGED <<next_id, operations, object, callback, held, live_events,
                   history>>

\* The native call returns an error, whose message is copied.
StartFailed(error) ==
    /\ starting # NoId
    /\ Store(starting, Finish(object[starting], starting, Error, error))
    /\ starting' = NoId
    /\ UNCHANGED <<next_id, operations, callback, held, history>>

\* Mutant: a cancel that arrives after the last callback leaves no terminal.
CancelSilently(op, id) == [Clear(op) EXCEPT !.cancelled = TRUE]

CancelledOperation(op, id) ==
    LET cleared == [Clear(op) EXCEPT !.cancelled = TRUE]
    IN  IF op.final
        THEN Push(cleared, [id |-> id, kind |-> Cancelled, size |-> 0, n |-> 0])
        ELSE cleared

lrlm_operation_cancel(id) ==
    /\ starting = NoId
    /\ id \in operations
    /\ ~object[id].cancelled
    /\ ~object[id].terminal_taken
    /\ Store(id, CancelledOperation(object[id], id))
    /\ UNCHANGED <<next_id, operations, callback, starting, held, history>>

IsText(event) == event.kind = TextKind

TakenOperation(op) ==
    [op EXCEPT !.queue = Tail(@),
               !.bytes = @ - Head(op.queue).size,
               !.terminal_taken = @ \/ ~IsText(Head(op.queue))]

\* The event moves to the caller, so no LrlmEvent is destroyed.
lrlm_operation_take(id) ==
    /\ starting = NoId
    /\ held = NoEvent
    /\ id \in operations
    /\ object[id].queue # <<>>
    /\ held' = Head(object[id].queue)
    /\ object' = [object EXCEPT ![id] = TakenOperation(@)]
    /\ read' = [read EXCEPT ![id] = IF IsText(held') THEN held'.n ELSE @]
    /\ outcome' = [outcome EXCEPT ![id] = IF IsText(held') THEN @ ELSE held'.kind]
    /\ UNCHANGED <<next_id, operations, callback, starting, live_events, texts>>

lrlm_event_delete ==
    /\ starting = NoId
    /\ held # NoEvent
    /\ held' = NoEvent
    /\ live_events' = live_events - 1
    /\ UNCHANGED <<next_id, operations, object, callback, starting, history>>

\* The registry forgets the operation; a callback inside it keeps it alive.
lrlm_operation_delete(id) ==
    /\ starting = NoId
    /\ id \in operations
    /\ operations' = operations \ {id}
    /\ IF \E t \in Thread : callback[t] = id
       THEN UNCHANGED <<object, live_events>>
       ELSE Store(id, Release(object[id]))
    /\ UNCHANGED <<next_id, callback, starting, held, history>>

(* A thread of the runtime, which knows an id once a start was called with  *)
(* it.  A Find that misses returns at once and is a stutter.               *)

CallbackFind(t, id) ==
    /\ callback[t] = NoId
    /\ id \in operations
    /\ object[id].started
    /\ callback' = [callback EXCEPT ![t] = id]
    /\ UNCHANGED <<next_id, operations, object, starting, held, live_events,
                   history>>

CallbackRun(t, chunk) ==
    LET id      == callback[t]
        heard   == ~object[id].final /\ chunk.error = 0 /\ chunk.text > 0
        after   == Receive(object[id], id, chunk, texts[id] + 1)
        keeps   == \/ id \in operations
                   \/ \E u \in Thread \ {t} : callback[u] = id
    IN  /\ id # NoId
        /\ heard => texts[id] < MaxTexts
        /\ texts' = IF heard THEN [texts EXCEPT ![id] = @ + 1] ELSE texts
        /\ Store(id, IF keeps THEN after ELSE Release(after))
        /\ callback' = [callback EXCEPT ![t] = NoId]
        /\ UNCHANGED <<next_id, operations, starting, held, read, outcome>>

Next ==
    \/ lrlm_operation_create
    \/ StartOk
    \/ \E error \in ErrorSize : StartFailed(error)
    \/ lrlm_event_delete
    \/ \E id \in Id : \/ StartBegin(id)
                      \/ lrlm_operation_cancel(id)
                      \/ lrlm_operation_take(id)
                      \/ lrlm_operation_delete(id)
                      \/ \E t \in Thread : CallbackFind(t, id)
    \/ \E t \in Thread, chunk \in Chunk : CallbackRun(t, chunk)

Spec == Init /\ [][Next]_vars

-----------------------------------------------------------------------------
(* What a reader of the queue relies on.                                   *)

\* The queue and the event in the worker's hands hold events of the right
\* shape, the byte count never leaves 0 .. MaxBytes.
TypeOK ==
    /\ next_id \in Id \union {0}
    /\ operations \subseteq Id
    /\ object \in [Id -> Operation]
    /\ callback \in [Thread -> Id \union {NoId}]
    /\ starting \in Id \union {NoId}
    /\ held \in Event \union {NoEvent}
    /\ live_events \in Int
    /\ texts \in [Id -> Nat]
    /\ read \in [Id -> Nat]
    /\ outcome \in [Id -> TerminalKind \union {Open}]

\* However the runtime's texts, errors and finals interleave with the worker's
\* cancel and take, the queue holds at most kMaxEvents events, the last slot
\* going to a terminal only.
QueueBounded ==
    \A id \in Id :
        LET op == object[id] IN
        /\ Len(op.queue) <= MaxEvents
        /\ ~op.final => Len(op.queue) <= MaxEvents - 1

\* Both limits of a queue hold at once, kMaxEvents and (TypeOK) kMaxBytes, with
\* everything else the state is made of well formed.
WithinBounds == TypeOK /\ QueueBounded

\* What the first n of some numbers add up to.
SumOf(size, n) ==
    LET sum[i \in 0 .. n] == IF i = 0 THEN 0 ELSE sum[i - 1] + size[i]
    IN  sum[n]

\* The byte count is the size of the queued events: an operation that drifts
\* from it refuses texts that fit, or takes in more than kMaxBytes.
BytesExact ==
    \A id \in Id :
        LET queue == object[id].queue
        IN  object[id].bytes =
              SumOf([i \in DOMAIN queue |-> queue[i].size], Len(queue))

\* Somebody holds a shared_ptr to the operation.
Owned(id) == id \in operations \/ \E t \in Thread : callback[t] = id

\* Every LrlmEvent sits in the queue of an operation that is registered or kept
\* alive by a callback, or in the worker's hands: no order of callbacks, delete
\* and take leaks an event or destroys one twice.  (The tests assert that
\* lrlm_live_events is 0 at the end.)
EventsAccounted ==
    live_events =
      SumOf([id \in Id |-> IF Owned(id) THEN Len(object[id].queue) ELSE 0], MaxId)
        + (IF held = NoEvent THEN 0 ELSE 1)

\* The worker polls for a terminal, so a lost one hangs its stream and a second
\* one ends a stream twice: a final operation holds exactly one terminal, the
\* last event of its queue, until the worker takes it, and nothing after that;
\* an operation that is not final holds none.
OneTerminal ==
    \A id \in operations :
        LET op == object[id]
            n  == Len(op.queue)
        IN  /\ \A i \in 1 .. n - 1 : IsText(op.queue[i])
            /\ op.terminal_taken => op.final /\ n = 0
            /\ n > 0 => (op.final <=> ~IsText(op.queue[n]))
            /\ op.final /\ ~op.terminal_taken => n > 0

\* Nothing the runtime produced is skipped or reordered: the queue continues
\* where the worker stopped reading and, unless the operation admits a loss (it
\* was cancelled, it overflowed, it failed), reaches the last text produced.  An
\* operation that admits it queues no text at all.
QueuedTexts(op) ==
    Len(op.queue) - (IF op.final /\ ~op.terminal_taken THEN 1 ELSE 0)

Lossy(op) == op.cancelled \/ op.overflow

Failed(op, result) ==
    \/ result = Error
    \/ \E i \in 1 .. Len(op.queue) : op.queue[i].kind = Error

Gapless ==
    \A id \in operations :
        LET op == object[id] IN
        /\ \A i \in 1 .. Len(op.queue) :
              IsText(op.queue[i]) => op.queue[i].n = read[id] + i /\ ~Lossy(op)
        /\ \/ Lossy(op)
           \/ Failed(op, outcome[id])
           \/ read[id] + QueuedTexts(op) = texts[id]

\* An operation the registry takes in is new: no callback of an earlier one can
\* reach it, because ids are used up rather than reused.
FreshId ==
    [][\A id \in operations' \ operations :
          /\ object[id] = NewOperation
          /\ \A t \in Thread : callback[t] # id]_vars

\* The bridge keeps EventStream's promise for every operation.
Promise == INSTANCE EventStream WITH
    Stream       <- Id,
    produced     <- texts,
    sealed       <- [id \in Id |-> object[id].final],
    lossy        <- [id \in Id |-> Lossy(object[id])],
    delivered    <- read,
    ended        <- outcome

KeepsPromise == Promise!Spec
=============================================================================
