------------------------------ MODULE ClientPort ------------------------------
(***************************************************************************)
(* The main isolate's side of the native backend (NativeLiteRtLmBackend in *)
(* lib/src/native_backend.dart): it turns calls into commands for the      *)
(* worker isolate, replies into completed futures and stream messages into *)
(* events of a StreamController, and survives the worker's death.          *)
(*                                                                         *)
(* The isolates share nothing: `inbox` and `outbox` are the two ports, in  *)
(* order.  The notice that the worker ended comes through ports of its own *)
(* and may overtake what the worker sent.  Of the worker (NativeWorker)    *)
(* only what its messages depend on is kept.  The StreamController and its *)
(* subscription are dart:async's: external.                                *)
(***************************************************************************)
EXTENDS Integers, Sequences, FiniteSets, Functions

CONSTANTS
    Stream,    \* generations
    Request,   \* requests that want a reply
    Close,     \* the id of the close request
    MaxTokens, \* bound: texts of one generation
    MaxInbox   \* bound: commands under way when a resume adds a credit

ASSUME PortBounds == /\ Close \notin Request
                     /\ MaxTokens \in Nat
                     /\ MaxInbox \in Nat

VARIABLES
    \* The main isolate.
    ready,      \* what _start answered: "no" for not yet, "ok" or "failed"
    _closing, _closed,
    portsOpen,  \* the receive ports listen
    _pending,   \* requests whose reply is awaited
    _streams,   \* streams the worker's messages are for
    consumer,   \* stream -> its _Consumer and StreamController
    settled,    \* request -> "no", "ok", "failed"
    \* The ports.
    inbox, outbox,
    \* The worker.
    worker,     \* "starting", "up", "gone"
    running,    \* stream -> its operation (credit, cancelRequested, final)
    sent        \* stream -> texts sent

main == <<ready, _closing, _closed, portsOpen, _pending, _streams, consumer,
          settled>>
vars == <<main, inbox, outbox, worker, running, sent>>

\* A consumer: the _Consumer record (cancelled, finished, done), its controller
\* (paused, the events it buffers) and what its listener heard.
NewConsumer ==
    [listened |-> FALSE, cancelled |-> FALSE, finished |-> FALSE, done |-> FALSE,
     paused |-> FALSE, buffer |-> <<>>,
     tokens |-> 0, end |-> "no", cancelWaits |-> FALSE]

\* What the main isolate tells a listener itself, and what the worker said.
EventKind == {"token", "ended", "failed"}

Running == DOMAIN running
NewOperation == [credit |-> TRUE, cancelRequested |-> FALSE, final |-> FALSE]

Init ==
    /\ ready = "no"
    /\ _closing = FALSE /\ _closed = FALSE
    /\ portsOpen = TRUE
    /\ _pending = {} /\ _streams = {}
    /\ consumer = [k \in Stream |-> NewConsumer]
    /\ settled = [r \in Request \union {Close} |-> "no"]
    /\ inbox = <<>> /\ outbox = <<>>
    /\ worker = "starting"
    /\ running = <<>>
    /\ sent = [k \in Stream |-> 0]

-----------------------------------------------------------------------------
(* The consumer's controller.                                              *)

Hear(c, event) ==
    IF event = "token" THEN [c EXCEPT !.tokens = @ + 1]
    ELSE [c EXCEPT !.end = event]

Busy(c) == c.paused \/ c.buffer # <<>>

\* controller.add: at once to a listener that keeps up, else into the buffer.
Add(c, event) ==
    IF Busy(c) THEN [c EXCEPT !.buffer = Append(@, event)] ELSE Hear(c, event)

\* Mutant: cancelling does not wait for the worker.
CancelWithoutWaiting(c) ==
    [c EXCEPT !.cancelled = TRUE, !.buffer = <<>>, !.cancelWaits = FALSE]

\* onCancel of the controller: delivery stops here, the future it returns waits
\* for the worker to be done with the stream.
Cancelled(c) ==
    [c EXCEPT !.cancelled = TRUE, !.buffer = <<>>,
              !.cancelWaits = ~c.finished /\ ~_closed]

\* What a listener may do with its subscription while it hears an event.
Reaction == {"goOn", "pause", "cancel"}

React(c, reaction) ==
    CASE reaction = "goOn" -> c
      [] reaction = "pause" -> [c EXCEPT !.paused = TRUE]
      [] reaction = "cancel" -> Cancelled(c)

Command(do, id) == [do |-> do, id |-> id]

\* The commands a change of a consumer sends: it was cancelled, or it wants more.
CancelCommand(k, c) ==
    IF Cancelled(c).cancelWaits THEN <<Command("cancelStream", k)>> ELSE <<>>

CreditCommand(k, c) ==
    IF c.finished \/ c.cancelled THEN <<>> ELSE <<Command("credit", k)>>

Set(k, c) == consumer' = [consumer EXCEPT ![k] = c]

-----------------------------------------------------------------------------
(* Calls.                                                                  *)

Live == ready = "ok"

_request(r) ==
    /\ Live
    /\ settled[r] = "no" /\ r \notin _pending
    /\ IF _closed \/ _closing
       THEN /\ settled' = [settled EXCEPT ![r] = "failed"]
            /\ UNCHANGED <<_pending, inbox>>
       ELSE /\ _pending' = _pending \union {r}
            /\ inbox' = Append(inbox, Command("request", r))
            /\ UNCHANGED settled
    /\ UNCHANGED <<ready, _closing, _closed, portsOpen, _streams, consumer,
                   outbox, worker, running, sent>>

\* Mutant: a stream that is listened to while the backend closes is registered.
OnListenWhileClosing(k) ==
    /\ Live
    /\ ~consumer[k].listened
    /\ ~_closed
    /\ Set(k, [consumer[k] EXCEPT !.listened = TRUE])
    /\ _streams' = _streams \union {k}
    /\ inbox' = Append(inbox, Command("generate", k))
    /\ UNCHANGED <<ready, _closing, _closed, portsOpen, _pending, settled,
                   outbox, worker, running, sent>>

onListen(k) ==
    /\ Live
    /\ ~consumer[k].listened
    /\ LET c == [consumer[k] EXCEPT !.listened = TRUE]
       IN  IF _closing \/ _closed
           THEN /\ Set(k, Hear([c EXCEPT !.finished = TRUE, !.done = TRUE],
                               "failed"))
                /\ UNCHANGED <<_streams, inbox>>
           ELSE /\ Set(k, c)
                /\ _streams' = _streams \union {k}
                /\ inbox' = Append(inbox, Command("generate", k))
    /\ UNCHANGED <<ready, _closing, _closed, portsOpen, _pending, settled,
                   outbox, worker, running, sent>>

Subscribed(k) ==
    LET c == consumer[k] IN c.listened /\ ~c.cancelled /\ c.end = "no"

pause(k) ==
    /\ Subscribed(k) /\ ~consumer[k].paused
    /\ Set(k, [consumer[k] EXCEPT !.paused = TRUE])
    /\ UNCHANGED <<ready, _closing, _closed, portsOpen, _pending, _streams,
                   settled, inbox, outbox, worker, running, sent>>

\* Mutant: onResume sends nothing.
ResumeSilently(k) ==
    /\ Subscribed(k) /\ consumer[k].paused
    /\ Set(k, [consumer[k] EXCEPT !.paused = FALSE])
    /\ UNCHANGED <<ready, _closing, _closed, portsOpen, _pending, _streams,
                   settled, inbox, outbox, worker, running, sent>>

\* With nothing buffered, onResume follows at once.
resume(k) ==
    LET c == consumer[k]
        credits == IF c.buffer = <<>> THEN CreditCommand(k, c) ELSE <<>>
    IN  /\ Subscribed(k) /\ c.paused
        /\ credits # <<>> => Len(inbox) < MaxInbox
        /\ Set(k, [c EXCEPT !.paused = FALSE])
        /\ inbox' = inbox \o credits
        /\ UNCHANGED <<ready, _closing, _closed, portsOpen, _pending, _streams,
                       settled, outbox, worker, running, sent>>

onCancel(k) ==
    /\ Subscribed(k)
    /\ Set(k, Cancelled(consumer[k]))
    /\ inbox' = inbox \o CancelCommand(k, consumer[k])
    /\ UNCHANGED <<ready, _closing, _closed, portsOpen, _pending, _streams,
                   settled, outbox, worker, running, sent>>

\* close; a second call returns the future of the first.
close ==
    /\ Live
    /\ settled[Close] = "no" /\ Close \notin _pending
    /\ IF _closed
       THEN /\ settled' = [settled EXCEPT ![Close] = "ok"]
            /\ UNCHANGED <<_closing, _pending, inbox>>
       ELSE /\ _closing' = TRUE
            /\ _pending' = _pending \union {Close}
            /\ inbox' = Append(inbox, Command("close", Close))
            /\ UNCHANGED settled
    /\ UNCHANGED <<ready, _closed, portsOpen, _streams, consumer, outbox,
                   worker, running, sent>>

-----------------------------------------------------------------------------
(* Messages.                                                               *)

Message(do, id) == [do |-> do, id |-> id]
Received(do) == portsOpen /\ outbox # <<>> /\ Head(outbox).do = do
Its == Head(outbox).id

\* _receive, the worker's first message, and what _start does with it.
ReceiveReady ==
    /\ \/ Received("ready") /\ ready' = (IF ready = "no" THEN "ok" ELSE ready)
       \/ Received("notReady")
          /\ ready' = (IF ready = "no" THEN "failed" ELSE ready)
    /\ portsOpen' = (ready' # "failed")
    /\ outbox' = Tail(outbox)
    /\ UNCHANGED <<_closing, _closed, _pending, _streams, consumer, settled,
                   inbox, worker, running, sent>>

\* The reply to close is the last thing the backend waits for.
ReceiveReply ==
    /\ Received("reply")
    /\ outbox' = Tail(outbox)
    /\ _pending' = _pending \ {Its}
    /\ settled' = IF Its \in _pending THEN [settled EXCEPT ![Its] = "ok"]
                  ELSE settled
    /\ LET last == Its = Close /\ Its \in _pending
       IN  /\ _closed' = (_closed \/ last)
           /\ portsOpen' = ~last
    /\ UNCHANGED <<ready, _closing, _streams, consumer, inbox, worker, running,
                   sent>>

\* Mutant: a text that comes while the listener is paused is dropped.
ReceiveTokenUnlessPaused ==
    /\ Received("token")
    /\ outbox' = Tail(outbox)
    /\ \/ /\ Its \notin _streams \/ Busy(consumer[Its])
          /\ UNCHANGED <<consumer, inbox>>
       \/ /\ Its \in _streams /\ ~Busy(consumer[Its])
          /\ Set(Its, Hear(consumer[Its], "token"))
          /\ inbox' = inbox \o CreditCommand(Its, consumer[Its])
    /\ UNCHANGED <<ready, _closing, _closed, portsOpen, _pending, _streams,
                   settled, worker, running, sent>>

\* A token: the listener may pause or cancel while it hears it, and only if it
\* did neither it is owed the next one.
ReceiveToken ==
    /\ Received("token")
    /\ outbox' = Tail(outbox)
    /\ LET k == Its
           c == consumer[k]
           after == Add(c, "token")
       IN  \/ /\ k \notin _streams \/ c.cancelled
              /\ UNCHANGED <<consumer, inbox>>
           \/ /\ k \in _streams /\ ~c.cancelled /\ Busy(c)
              /\ Set(k, after)
              /\ UNCHANGED inbox
           \/ /\ k \in _streams /\ ~c.cancelled /\ ~Busy(c)
              /\ \E reaction \in Reaction :
                    /\ Set(k, React(after, reaction))
                    /\ inbox' = inbox \o
                         (CASE reaction = "goOn" -> CreditCommand(k, after)
                            [] reaction = "pause" -> <<>>
                            [] reaction = "cancel" -> CancelCommand(k, after))
    /\ UNCHANGED <<ready, _closing, _closed, portsOpen, _pending, _streams,
                   settled, worker, running, sent>>

ReceiveTerminal ==
    /\ Received("ended")
    /\ outbox' = Tail(outbox)
    /\ _streams' = _streams \ {Its}
    /\ LET c == [consumer[Its] EXCEPT !.finished = TRUE, !.done = TRUE]
       IN  IF Its \in _streams
           THEN Set(Its, IF c.cancelled THEN c ELSE Add(c, "ended"))
           ELSE UNCHANGED consumer
    /\ UNCHANGED <<ready, _closing, _closed, portsOpen, _pending, settled,
                   inbox, worker, running, sent>>

FailedRequests ==
    [r \in DOMAIN settled |-> IF r \in _pending THEN "failed" ELSE settled[r]]

FailedConsumer(c) ==
    LET over == [c EXCEPT !.finished = TRUE, !.done = TRUE]
    IN  IF c.cancelled THEN over ELSE Add(over, "failed")

\* Mutant: the death of the worker forgets the streams that were cancelled.
FailedStreamsUncancelled ==
    [k \in Stream |-> IF k \in _streams /\ ~consumer[k].cancelled
                      THEN FailedConsumer(consumer[k]) ELSE consumer[k]]

FailedStreams ==
    [k \in Stream |-> IF k \in _streams THEN FailedConsumer(consumer[k])
                      ELSE consumer[k]]

\* onExit and onError.  When the worker never started, this is what _start's
\* catch does.
_workerEnded ==
    /\ worker = "gone"
    /\ portsOpen
    /\ ~_closed
    /\ _closed' = TRUE
    /\ ready' = (IF ready = "no" THEN "failed" ELSE ready)
    /\ settled' = FailedRequests
    /\ _pending' = {}
    /\ consumer' = FailedStreams
    /\ _streams' = {}
    /\ portsOpen' = FALSE
    /\ UNCHANGED <<_closing, inbox, outbox, worker, running, sent>>

\* The subscription delivers what was buffered; with the last event of the
\* buffer onResume follows.
Flush(k) ==
    LET c == consumer[k]
        after == Hear([c EXCEPT !.buffer = Tail(@)], Head(c.buffer))
    IN  /\ Subscribed(k) /\ ~c.paused /\ c.buffer # <<>>
        /\ \E reaction \in Reaction :
             /\ after.end # "no" => reaction = "goOn"
             /\ Set(k, React(after, reaction))
             /\ inbox' = inbox \o
                  (CASE reaction = "goOn" ->
                          IF after.buffer = <<>> THEN CreditCommand(k, after)
                          ELSE <<>>
                     [] reaction = "pause" -> <<>>
                     [] reaction = "cancel" -> CancelCommand(k, after))
        /\ UNCHANGED <<ready, _closing, _closed, portsOpen, _pending, _streams,
                       settled, outbox, worker, running, sent>>

-----------------------------------------------------------------------------
(* The worker isolate.                                                     *)

Say(messages) == outbox' = outbox \o messages

\* _workerMain: the library is there and fits, or not; a worker without its
\* command port has nothing to wait for and ends.
_workerMain ==
    /\ worker = "starting"
    /\ \/ worker' = "up" /\ Say(<<Message("ready", Close)>>)
       \/ worker' = "gone" /\ Say(<<Message("notReady", Close)>>)
       \/ worker' = "gone" /\ UNCHANGED outbox
    /\ UNCHANGED <<main, inbox, running, sent>>

Commanded(do) == worker = "up" /\ inbox # <<>> /\ Head(inbox).do = do
Whom == Head(inbox).id

WorkerReplies ==
    /\ Commanded("request")
    /\ inbox' = Tail(inbox)
    /\ Say(<<Message("reply", Whom)>>)
    /\ UNCHANGED <<main, worker, running, sent>>

WorkerGenerates ==
    /\ Commanded("generate")
    /\ inbox' = Tail(inbox)
    /\ \/ /\ running' = [k \in Running \union {Whom} |->
                          IF k \in Running THEN running[k] ELSE NewOperation]
          /\ UNCHANGED outbox
       \/ /\ Say(<<Message("ended", Whom)>>)
          /\ UNCHANGED running
    /\ UNCHANGED <<main, worker, sent>>

WorkerIsTold ==
    /\ Commanded("credit") \/ Commanded("cancelStream")
    /\ inbox' = Tail(inbox)
    /\ running' =
         IF Whom \notin Running THEN running
         ELSE IF Head(inbox).do = "credit"
              THEN [running EXCEPT ![Whom].credit = TRUE]
              ELSE [running EXCEPT ![Whom].cancelRequested = TRUE]
    /\ UNCHANGED <<main, outbox, worker, sent>>

\* Every operation that runs ends with an event, then close is answered.
WorkerCloses ==
    /\ Commanded("close")
    /\ inbox' = <<>>
    /\ \E order \in [1 .. Cardinality(Running) -> Running] :
          /\ IsInjective(order)
          /\ Say([i \in DOMAIN order |-> Message("ended", order[i])]
                   \o <<Message("reply", Close)>>)
    /\ running' = <<>>
    /\ worker' = "gone"
    /\ UNCHANGED <<main, sent>>

\* A text goes out for credit, or because the rest of the queue is finite.
WorkerSends(k) ==
    /\ worker = "up" /\ k \in Running
    /\ ~running[k].cancelRequested
    /\ running[k].credit \/ running[k].final
    /\ sent[k] < MaxTokens
    /\ sent' = [sent EXCEPT ![k] = @ + 1]
    /\ running' = [running EXCEPT ![k].credit = FALSE]
    /\ Say(<<Message("token", k)>>)
    /\ UNCHANGED <<main, inbox, worker>>

WorkerFinal(k) ==
    /\ worker = "up" /\ k \in Running
    /\ running' = [running EXCEPT ![k].final = TRUE]
    /\ UNCHANGED <<main, inbox, outbox, worker, sent>>

WorkerEnds(k) ==
    /\ worker = "up" /\ k \in Running
    /\ running[k].final
    /\ running' = Restrict(running, Running \ {k})
    /\ Say(<<Message("ended", k)>>)
    /\ UNCHANGED <<main, inbox, worker, sent>>

\* An uncaught error, or testCrash.
WorkerDies ==
    /\ worker = "up"
    /\ worker' = "gone"
    /\ running' = <<>>
    /\ UNCHANGED <<main, inbox, outbox, sent>>

Call ==
    \/ close
    \/ \E r \in Request : _request(r)
    \/ \E k \in Stream : onListen(k) \/ pause(k) \/ resume(k) \/ onCancel(k)

Receive == ReceiveReady \/ ReceiveReply \/ ReceiveToken \/ ReceiveTerminal

Worker ==
    \/ _workerMain \/ WorkerReplies \/ WorkerGenerates \/ WorkerIsTold
    \/ WorkerCloses
    \/ \E k \in Stream : WorkerSends(k) \/ WorkerFinal(k) \/ WorkerEnds(k)

Next ==
    \/ Call
    \/ Receive
    \/ _workerEnded
    \/ \E k \in Stream : Flush(k)
    \/ Worker
    \/ WorkerDies

Spec == Init /\ [][Next]_vars

-----------------------------------------------------------------------------
(* What a caller relies on.                                                *)

Consumer == [listened : BOOLEAN, cancelled : BOOLEAN, finished : BOOLEAN,
             done : BOOLEAN, paused : BOOLEAN, buffer : Seq(EventKind),
             tokens : 0 .. MaxTokens, end : {"no", "ended", "failed"},
             cancelWaits : BOOLEAN]

\* The backend's tables hold what they should; no listener hears more texts than
\* there are.
ClientTypeOK ==
    /\ ready \in {"no", "ok", "failed"}
    /\ _closing \in BOOLEAN /\ _closed \in BOOLEAN /\ portsOpen \in BOOLEAN
    /\ _pending \subseteq Request \union {Close}
    /\ _streams \subseteq Stream
    /\ consumer \in [Stream -> Consumer]
    /\ settled \in [Request \union {Close} -> {"no", "ok", "failed"}]

\* Once the receive ports are closed nothing can arrive any more, so nobody may
\* still wait, and the backend's tables hold what they should: no request is
\* pending, no stream is registered, every listener has its last event or its
\* cancellation done, whatever was under way when the backend closed or the
\* worker died.
NobodyWaits ==
    /\ ClientTypeOK
    /\ ~portsOpen =>
        /\ _pending = {} /\ _streams = {}
        /\ \A k \in Stream : consumer[k].listened => consumer[k].done

\* "subscription cancellation" completes when the worker is done with the
\* stream (onCancel; README, Cancellation and ownership): if its future is
\* complete, no operation of the stream runs and none will start.
CancelMeansCleaned ==
    \A k \in Stream :
        LET c == consumer[k]
        IN  c.cancelled /\ (c.done \/ ~c.cancelWaits) =>
              \/ worker = "gone"
              \/ /\ k \notin Running
                 /\ \A i \in DOMAIN inbox : inbox[i] # Command("generate", k)

\* A listener that the worker's terminal event reached heard every text the
\* worker had sent, also the ones that came while it was paused.
NoTextDropped ==
    \A k \in Stream : consumer[k].end = "ended" => consumer[k].tokens = sent[k]

\* A stream that keeps up is never starved: its next credit is in the worker, on
\* its way there, or owed for a text on its way here.  (Without it the queue
\* overruns although the consumer is willing.)
NeverStarved ==
    \A k \in Stream :
        LET c == consumer[k]
        IN  /\ k \in Running /\ worker = "up" /\ portsOpen
            /\ ~c.cancelled /\ ~Busy(c)
            => \/ running[k].credit
               \/ \E i \in DOMAIN inbox : inbox[i] = Command("credit", k)
               \/ \E i \in DOMAIN outbox : outbox[i] = Message("token", k)

=============================================================================
