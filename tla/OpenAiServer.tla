----------------------------- MODULE OpenAiServer -----------------------------
(***************************************************************************)
(* The HTTP adapter (lib/src/openai_server.dart): bind, close, and a       *)
(* handler per request that creates a session, generates and disposes it.  *)
(* The three run in one isolate and interleave at every await; the actions *)
(* are what runs between two awaits.                                       *)
(*                                                                         *)
(* The session's native generation (NativeWorker) is kept as far as a      *)
(* cancel tells it apart: a cancel that finds nothing running does nothing.*)
(* Peers, sockets and HttpServer are dart:io's: external.                  *)
(***************************************************************************)
EXTENDS Integers, FiniteSets

CONSTANTS
    Bind,       \* calls of bind; a bound HttpServer is known by its call
    Close,      \* calls of close that are not answered with an earlier future
    Request,    \* requests for a completion
    Streaming,  \* those that ask for server-sent events
    None        \* no HttpServer, no future

ASSUME ServerConstants == /\ Streaming \subseteq Request
                          /\ None \notin Bind \union Close

VARIABLES
    _server,        \* the HttpServer to close, or None
    _closing,       \* the future of a close, or None
    _activeCancels, \* requests whose session is registered for cancellation
    listening,      \* HttpServers that accept requests
    bindStep,       \* bind -> "no", "waiting", "binding", "done"
    awaits,         \* bind -> the close it waits for
    closeStep,      \* close -> "no", "cancelling", "stopping", "draining", "done"
    took,           \* close -> the HttpServer it closes
    waits,          \* close -> the requests it waits for
    accepted,       \* request -> the HttpServer it came through
    phase,          \* request -> where its handler is
    generation,     \* request -> "no", "running", "cancelling", "ended"
    gone,           \* requests whose peer's end the server was told of
    overlapped      \* a bind, or a close of its own, was called during a bind

vars == <<_server, _closing, _activeCancels, listening, bindStep, awaits,
          closeStep, took, waits, accepted, phase, generation, gone, overlapped>>
binds  == <<bindStep, awaits>>
closes == <<closeStep, took, waits>>
work   == <<accepted, phase, generation, gone>>

Phase == {"no", "reading", "creating", "preparing", "greeting", "generating",
          "disposing", "done"}

_requests == {r \in Request : phase[r] \notin {"no", "done"}}

BindUnderWay  == \E b \in Bind : bindStep[b] \in {"waiting", "binding"}
UnderWay(c) == closeStep[c] \notin {"no", "done"}

Init ==
    /\ _server = None /\ _closing = None
    /\ _activeCancels = {} /\ listening = {}
    /\ bindStep = [b \in Bind |-> "no"]
    /\ awaits = [b \in Bind |-> None]
    /\ closeStep = [c \in Close |-> "no"]
    /\ took = [c \in Close |-> None]
    /\ waits = [c \in Close |-> {}]
    /\ accepted = [r \in Request |-> None]
    /\ phase = [r \in Request |-> "no"]
    /\ generation = [r \in Request |-> "no"]
    /\ gone = {}
    /\ overlapped = FALSE

\* session.cancel for several requests.
CancelAll(R) ==
    generation' = [r \in Request |->
                     IF r \in R /\ generation[r] = "running" THEN "cancelling"
                     ELSE generation[r]]

-----------------------------------------------------------------------------
(* bind                                                                    *)

bind(b) ==
    /\ bindStep[b] = "no"
    /\ overlapped' = (overlapped \/ BindUnderWay)
    /\ bindStep' = [bindStep EXCEPT ![b] = "waiting"]
    /\ awaits' = [awaits EXCEPT ![b] = _closing]
    /\ UNCHANGED <<_server, _closing, _activeCancels, listening, closes, work>>

\* After "await _closing".
BindResumes(b) ==
    /\ bindStep[b] = "waiting"
    /\ awaits[b] # None => closeStep[awaits[b]] = "done"
    /\ _closing' = None
    /\ bindStep' = [bindStep EXCEPT ![b] = IF _server = None THEN "binding"
                                           ELSE "done"]
    /\ UNCHANGED <<_server, _activeCancels, listening, awaits, closes, work,
                   overlapped>>

\* After "await HttpServer.bind".
Bound(b) ==
    /\ bindStep[b] = "binding"
    /\ bindStep' = [bindStep EXCEPT ![b] = "done"]
    /\ \/ _server' = b /\ listening' = listening \union {b}
       \/ UNCHANGED <<_server, listening>>
    /\ UNCHANGED <<_closing, _activeCancels, awaits, closes, work, overlapped>>

-----------------------------------------------------------------------------
(* close                                                                   *)

\* Mutant: the generations are left to end by themselves.
CloseUncancelled(c) ==
    /\ closeStep[c] = "no"
    /\ _closing = None
    /\ overlapped' = (overlapped \/ BindUnderWay)
    /\ _closing' = c
    /\ took' = [took EXCEPT ![c] = _server]
    /\ _server' = None
    /\ closeStep' = [closeStep EXCEPT ![c] = "cancelling"]
    /\ UNCHANGED <<_activeCancels, listening, binds, waits, work>>

close(c) ==
    /\ closeStep[c] = "no"
    /\ _closing = None
    /\ overlapped' = (overlapped \/ BindUnderWay)
    /\ _closing' = c
    /\ took' = [took EXCEPT ![c] = _server]
    /\ _server' = None
    /\ CancelAll(_activeCancels)
    /\ closeStep' = [closeStep EXCEPT ![c] = "cancelling"]
    /\ UNCHANGED <<_activeCancels, listening, binds, waits, accepted, phase, gone>>

\* The cancels are acknowledged; server.close.
Stop(c) ==
    /\ closeStep[c] = "cancelling"
    /\ listening' = listening \ {took[c]}
    /\ closeStep' = [closeStep EXCEPT ![c] = "stopping"]
    /\ UNCHANGED <<_server, _closing, _activeCancels, binds, took, waits, work,
                   overlapped>>

\* Mutant: only the requests with a session are waited for.
SnapshotRegistered(c) ==
    /\ closeStep[c] = "stopping"
    /\ waits' = [waits EXCEPT ![c] = _activeCancels]
    /\ closeStep' = [closeStep EXCEPT ![c] = "draining"]
    /\ UNCHANGED <<_server, _closing, _activeCancels, listening, binds, took,
                   work, overlapped>>

\* The socket is closed; the requests that are there now are waited for.
Snapshot(c) ==
    /\ closeStep[c] = "stopping"
    /\ waits' = [waits EXCEPT ![c] = _requests]
    /\ closeStep' = [closeStep EXCEPT ![c] = "draining"]
    /\ UNCHANGED <<_server, _closing, _activeCancels, listening, binds, took,
                   work, overlapped>>

Closed(c) ==
    /\ closeStep[c] = "draining"
    /\ waits[c] \intersect _requests = {}
    /\ closeStep' = [closeStep EXCEPT ![c] = "done"]
    /\ UNCHANGED <<_server, _closing, _activeCancels, listening, binds, took,
                   waits, work, overlapped>>

-----------------------------------------------------------------------------
(* A request's handler.                                                    *)

Go(r, to) == phase' = [phase EXCEPT ![r] = to]

state == <<_server, _closing, listening, binds, closes, accepted, overlapped>>

_serve(r) ==
    /\ phase[r] = "no"
    /\ \E server \in listening : accepted' = [accepted EXCEPT ![r] = server]
    /\ Go(r, "reading")
    /\ UNCHANGED <<_server, _closing, listening, binds, closes, _activeCancels,
                   generation, gone, overlapped>>

\* The key, the endpoint, the model, the messages or a parameter is wrong, or the
\* request is for no completion: it is answered and nothing is created.
Refused(r) ==
    /\ phase[r] = "reading"
    /\ Go(r, "done")
    /\ UNCHANGED <<state, _activeCancels, generation, gone>>

\* A completion's request passes the checks: its session is asked for.
_handle(r) ==
    /\ phase[r] = "reading"
    /\ Go(r, "creating")
    /\ UNCHANGED <<state, _activeCancels, generation, gone>>

\* Mutant: a handler does not look whether the server closes.
StartRegardless(r) ==
    /\ Go(r, "generating")
    /\ generation' = [generation EXCEPT ![r] = "running"]
    /\ UNCHANGED _activeCancels

\* "if (_closing != null) return": to the finally, or on to the generation.
Start(r) ==
    IF _closing # None
    THEN /\ Go(r, "disposing")
         /\ _activeCancels' = _activeCancels \ {r}
         /\ UNCHANGED generation
    ELSE /\ Go(r, "generating")
         /\ _activeCancels' = _activeCancels \union {r}
         /\ generation' = [generation EXCEPT ![r] = "running"]

\* The engine refused the session.
NoSession(r) ==
    /\ phase[r] = "creating"
    /\ Go(r, "done")
    /\ UNCHANGED <<state, _activeCancels, generation, gone>>

\* _trackGeneration.  Its cancel for a server that closes comes before there is
\* anything to cancel.
_trackGeneration(r) == _activeCancels' = _activeCancels \union {r}

\* The session is there.  Without streaming the generation follows at once.
_completeChatCompletion(r) ==
    /\ phase[r] = "creating"
    /\ r \notin Streaming
    /\ Start(r)
    /\ UNCHANGED <<state, gone>>

_streamChatCompletion(r) ==
    /\ phase[r] = "creating"
    /\ r \in Streaming
    /\ _trackGeneration(r)
    /\ Go(r, "preparing")
    /\ UNCHANGED <<state, generation, gone>>

\* The socket is detached and listened to; a chat is greeted.
_prepareSse(r) ==
    /\ phase[r] = "preparing"
    /\ Go(r, "greeting")
    /\ UNCHANGED <<state, _activeCancels, generation, gone>>

\* A text completion is not greeted.
_streamCompletion(r) ==
    /\ phase[r] = "preparing"
    /\ Start(r)
    /\ UNCHANGED <<state, gone>>

Greeted(r) ==
    /\ phase[r] = "greeting"
    /\ Start(r)
    /\ UNCHANGED <<state, gone>>

\* To the handler's finally; a failure of the connection cancels on the way.
Finally(r) ==
    /\ Go(r, "disposing")
    /\ _activeCancels' = _activeCancels \ {r}

ConnectionFails(r) ==
    /\ phase[r] \in {"preparing", "greeting"} \/ (phase[r] = "generating"
                                                  /\ r \in Streaming)
    /\ Finally(r)
    /\ CancelAll({r})
    /\ UNCHANGED <<state, gone>>

\* The terminal event reached the handler: the response is written, or the last
\* chunks of the stream.
Respond(r) ==
    /\ phase[r] = "generating"
    /\ r \notin Streaming
    /\ generation[r] = "ended"
    /\ Finally(r)
    /\ UNCHANGED <<state, generation, gone>>

EndOfStream(r) ==
    /\ phase[r] = "generating"
    /\ r \in Streaming
    /\ generation[r] = "ended"
    /\ Finally(r)
    /\ UNCHANGED <<state, generation, gone>>

\* session.dispose cancels, joins and ends whatever still runs.
Dispose(r) ==
    /\ phase[r] = "disposing"
    /\ Go(r, "done")
    /\ generation' = [generation EXCEPT ![r] = IF @ = "no" THEN "no" ELSE "ended"]
    /\ UNCHANGED <<state, _activeCancels, gone>>

\* onDone of the detached socket, or response.done's error.
PeerGone(r) ==
    /\ \/ phase[r] \in {"greeting", "generating"} /\ r \in Streaming
       \/ r \in _activeCancels /\ r \notin Streaming
    /\ r \notin gone
    /\ gone' = gone \union {r}
    /\ CancelAll({r})
    /\ UNCHANGED <<state, _activeCancels, phase>>

\* The native generation ends, by itself or cancelled.
Ends(r) ==
    /\ generation[r] \in {"running", "cancelling"}
    /\ phase[r] = "generating"
    /\ generation' = [generation EXCEPT ![r] = "ended"]
    /\ UNCHANGED <<state, _activeCancels, phase, gone>>

Handler(r) ==
    \/ Refused(r) \/ _handle(r) \/ NoSession(r)
    \/ _completeChatCompletion(r) \/ _streamChatCompletion(r)
    \/ _prepareSse(r) \/ _streamCompletion(r) \/ Greeted(r)
    \/ Respond(r) \/ EndOfStream(r) \/ Dispose(r)

Next ==
    \/ \E b \in Bind : bind(b) \/ BindResumes(b) \/ Bound(b)
    \/ \E c \in Close : close(c) \/ Stop(c) \/ Snapshot(c) \/ Closed(c)
    \/ \E r \in Request : \/ _serve(r)
                          \/ Handler(r)
                          \/ ConnectionFails(r)
                          \/ PeerGone(r)
                          \/ Ends(r)

Spec == Init /\ [][Next]_vars

\* The isolate's futures complete, and a generation that was cancelled ends; one
\* that was not may go on for ever.
FairSpec ==
    /\ Spec
    /\ \A c \in Close : WF_vars(Stop(c) \/ Snapshot(c) \/ Closed(c))
    /\ \A b \in Bind : WF_vars(BindResumes(b) \/ Bound(b))
    /\ \A r \in Request :
          WF_vars(Handler(r)) /\ WF_vars(generation[r] = "cancelling" /\ Ends(r))

-----------------------------------------------------------------------------

\* The server's fields hold what they should; only sessions that exist are
\* registered.
ServerTypeOK ==
    /\ _server \in Bind \union {None}
    /\ _closing \in Close \union {None}
    /\ listening \subseteq Bind
    /\ phase \in [Request -> Phase]
    /\ generation \in [Request -> {"no", "running", "cancelling", "ended"}]
    /\ \A r \in _activeCancels : phase[r] \in {"preparing", "greeting", "generating"}

\* When close has completed, and until bind is called and goes on, nothing listens
\* and no handler is at work, also none that was accepted while close was waiting
\* and none of a bind that waits for the close.  Only calls that overlap with a
\* bind (a second bind, or a close) can break it.
CloseMeansQuiet ==
    /\ ServerTypeOK
    /\ \A c \in Close :
        closeStep[c] = "done" /\ _closing = c /\ ~overlapped =>
            listening = {} /\ _requests = {}

\* While a close is under way, and as long as the server remembers it, no
\* registered generation runs uncancelled, whatever await its handler was in when
\* close was called; and it is remembered unless calls overlapped with a bind.
CloseCancels ==
    \A c \in Close :
        UnderWay(c) /\ (_closing = c \/ ~overlapped) =>
            \A r \in _activeCancels : generation[r] # "running"

\* close completes, although a generation that is not cancelled may never end,
\* unless calls overlapped with a bind.
CloseCompletes ==
    \A c \in Close :
        closeStep[c] = "cancelling" ~> (closeStep[c] = "done" \/ overlapped)

\* "Server shutdown cancels all registered active operations" (README): while a
\* close is under way no registered generation of the HttpServer it closes runs
\* uncancelled, in whatever order bind and close are called.
ShutdownCancels ==
    \A c \in Close, r \in _activeCancels :
        UnderWay(c) /\ accepted[r] = took[c] => generation[r] # "running"

\* "Streaming disconnect cancels/cleans its operation" (README): once the server
\* was told that a streaming peer is gone, that peer's generation does not run on.
DisconnectCancels ==
    \A r \in gone \intersect Streaming : generation[r] # "running"
=============================================================================
