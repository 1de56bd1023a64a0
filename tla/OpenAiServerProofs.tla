-------------------------- MODULE OpenAiServerProofs --------------------------
(***************************************************************************)
(* Theorems about the HTTP adapter, for calls of bind and close in any     *)
(* order.  Part of what holds ends once calls overlapped with a bind: the  *)
(* properties say which, and so does the invariant.                        *)
(***************************************************************************)
EXTENDS OpenAiServer, TLAPS

LEMMA NoneIsNone == None \notin Bind /\ None \notin Close
BY ServerConstants

\* What the state's functions range over, beside ServerTypeOK.
StepsOK ==
    /\ bindStep \in [Bind -> {"no", "waiting", "binding", "done"}]
    /\ awaits \in [Bind -> Close \union {None}]
    /\ closeStep \in [Close -> {"no", "cancelling", "stopping", "draining", "done"}]
    /\ took \in [Close -> Bind \union {None}]
    /\ waits \in [Close -> SUBSET Request]
    /\ _activeCancels \subseteq Request
    /\ overlapped \in BOOLEAN

\* A handler generates nothing before it looked whether the server closes, and
\* what is registered while it closes was cancelled.
NothingRuns ==
    /\ \A r \in Request :
          phase[r] \in {"no", "reading", "creating", "preparing", "greeting"} =>
              generation[r] = "no"
    /\ _closing # None => \A r \in _activeCancels : generation[r] # "running"

\* Binds and closes take turns: one bind at a time, which waits for the close the
\* server remembers and binds when there is none; and a close that is under way
\* is the one the server remembers.
TakeTurns ==
    /\ \A b, d \in Bind : bindStep[b] \in {"waiting", "binding"}
                          /\ bindStep[d] \in {"waiting", "binding"} => b = d
    /\ \A c \in Close : UnderWay(c) => _closing = c
    /\ \A c \in Close : _closing = c => closeStep[c] # "no"
    /\ \A b \in Bind : bindStep[b] = "waiting" => awaits[b] = _closing
    /\ \A b \in Bind : bindStep[b] = "binding" => _closing = None /\ _server = None

\* A server that closes has given its HttpServer away, and whatever listens is
\* the server's or in the hands of a close that has not stopped it yet.
OneListens ==
    /\ _closing # None => _server = None
    /\ \A s \in listening :
          s = _server \/ \E c \in Close : closeStep[c] = "cancelling" /\ took[c] = s

\* A close that has stopped the HttpServer waits for all there is to wait for.
WaitsForAll ==
    \A c \in Close :
        /\ closeStep[c] = "draining" => _requests \subseteq waits[c]
        /\ closeStep[c] = "done" /\ _closing = c => _requests = {}

Turns == TakeTurns /\ OneListens /\ WaitsForAll

\* What holds whatever the calls, and what holds until they overlapped.
Always == ServerTypeOK /\ StepsOK /\ NothingRuns

ServerInv == Always /\ (~overlapped => Turns)

-----------------------------------------------------------------------------
(* What the invariant says while a server closes.                          *)

\* Once a close has stopped its HttpServer, and until the server binds again,
\* nothing listens: no request can come in behind the close.
LEMMA StoppedIsSilent ==
    ASSUME Always, Turns, NEW c \in Close, _closing = c, closeStep[c] # "cancelling"
    PROVE  listening = {}
<1>1. _server = None
  BY NoneIsNone DEF Turns, OneListens
<1>2. ASSUME NEW d \in Close, closeStep[d] = "cancelling" PROVE FALSE
  BY <1>2 DEF Turns, TakeTurns, UnderWay
<1>3. ASSUME NEW s \in listening PROVE FALSE
  <2>1. s # _server
    BY <1>1, <1>3, NoneIsNone DEF Always, ServerTypeOK
  <2> QED
    BY <1>2, <1>3, <2>1 DEF Turns, OneListens
<1> QED
  BY <1>3

\* The invariant implies the two properties.
LEMMA InvIsQuiet == ServerInv => CloseMeansQuiet
<1> SUFFICES ASSUME ServerInv, NEW c \in Close, closeStep[c] = "done", _closing = c,
                    ~overlapped
             PROVE  listening = {} /\ _requests = {}
  BY DEF CloseMeansQuiet, ServerInv, Always
<1> QED
  BY StoppedIsSilent DEF ServerInv, Turns, WaitsForAll

LEMMA InvIsCancelled == ServerInv => CloseCancels
<1> SUFFICES ASSUME ServerInv, NEW c \in Close, UnderWay(c), _closing = c \/ ~overlapped
             PROVE  \A r \in _activeCancels : generation[r] # "running"
  BY DEF CloseCancels
<1>1. _closing = c /\ c # None
  BY NoneIsNone DEF ServerInv, Turns, TakeTurns
<1> QED
  BY <1>1 DEF ServerInv, Always, NothingRuns

LEMMA InvInit == Init => ServerInv
<1> SUFFICES ASSUME Init PROVE ServerInv
  OBVIOUS
<1>1. ServerTypeOK /\ StepsOK
  BY DEF Init, ServerTypeOK, StepsOK, Phase
<1>2. TakeTurns /\ OneListens
  BY NoneIsNone DEF Init, TakeTurns, OneListens, UnderWay
<1>3. WaitsForAll /\ NothingRuns
  BY DEF Init, WaitsForAll, NothingRuns
<1> QED
  BY <1>1, <1>2, <1>3 DEF ServerInv, Always, Turns

-----------------------------------------------------------------------------
(* bind                                                                    *)

\* A bind begins: with another bind the calls overlap; without, it waits for the
\* close the server remembers.
LEMMA BindKeeps ==
    ASSUME ServerInv, NEW b \in Bind, bind(b)
    PROVE  ServerInv'
<1>1. Always'
  BY DEF bind, ServerInv, Always, ServerTypeOK, StepsOK, NothingRuns, closes, work
<1>2. ASSUME ~overlapped' PROVE Turns'
  <2>1. Turns /\ ~BindUnderWay
    BY <1>2 DEF bind, ServerInv
  <2>2. \A d \in Bind : /\ bindStep'[d] = IF d = b THEN "waiting" ELSE bindStep[d]
                        /\ awaits'[d] = IF d = b THEN _closing ELSE awaits[d]
    BY DEF bind, ServerInv, Always, StepsOK
  <2>3. TakeTurns'
    BY <2>1, <2>2 DEF bind, Turns, TakeTurns, BindUnderWay, UnderWay, closes
  <2>4. OneListens' /\ WaitsForAll'
    BY <2>1 DEF bind, Turns, OneListens, WaitsForAll, closes, work, _requests
  <2> QED
    BY <2>3, <2>4 DEF Turns
<1> QED
  BY <1>1, <1>2 DEF ServerInv

\* It goes on when the close it waited for is done, which is then the last one,
\* and forgets it.
LEMMA BindResumesKeeps ==
    ASSUME ServerInv, NEW b \in Bind, BindResumes(b)
    PROVE  ServerInv'
<1>1. Always'
  BY DEF BindResumes, ServerInv, Always, ServerTypeOK, StepsOK, NothingRuns, closes,
         work
<1>2. ASSUME ~overlapped' PROVE Turns'
  <2>1. Turns
    BY <1>2 DEF BindResumes, ServerInv
  <2>2. closeStep' = closeStep /\ _closing' = None
    BY DEF BindResumes, closes
  <2>3. ASSUME NEW c \in Close PROVE closeStep[c] \in {"no", "done"}
    <3>1. awaits[b] = _closing
      BY <2>1 DEF BindResumes, Turns, TakeTurns
    <3> QED
      BY <2>1, <3>1, NoneIsNone DEF BindResumes, Turns, TakeTurns, UnderWay
  <2>4. bindStep'[b] \in {"binding", "done"}
        /\ (bindStep'[b] = "binding" => _server' = None)
    BY DEF BindResumes, ServerInv, Always, StepsOK
  <2>5. \A d \in Bind \ {b} : bindStep'[d] = bindStep[d]
                              /\ bindStep[d] \notin {"waiting", "binding"}
    BY <2>1 DEF BindResumes, ServerInv, Always, StepsOK, Turns, TakeTurns
  <2>6. TakeTurns'
    BY <2>2, <2>3, <2>4, <2>5, NoneIsNone DEF TakeTurns, UnderWay
  <2>7. OneListens'
    BY <2>1 DEF BindResumes, Turns, OneListens, closes
  <2>8. WaitsForAll'
    BY <2>2, <2>3, NoneIsNone DEF WaitsForAll
  <2> QED
    BY <2>6, <2>7, <2>8 DEF Turns
<1> QED
  BY <1>1, <1>2 DEF ServerInv

\* The HttpServer is there, or could not be bound.
LEMMA BoundKeeps ==
    ASSUME ServerInv, NEW b \in Bind, Bound(b)
    PROVE  ServerInv'
<1>1. Always'
  BY DEF Bound, ServerInv, Always, ServerTypeOK, StepsOK, NothingRuns, closes, work
<1>2. ASSUME ~overlapped' PROVE Turns'
  <2>1. Turns
    BY <1>2 DEF Bound, ServerInv
  <2>2. _closing = None /\ _server = None /\ bindStep[b] = "binding"
    BY <2>1 DEF Bound, Turns, TakeTurns
  <2>3. TakeTurns'
    <3>1. \A d \in Bind : bindStep'[d] \notin {"waiting", "binding"}
      BY <2>1, <2>2 DEF Bound, ServerInv, Always, StepsOK, Turns, TakeTurns
    <3> QED
      BY <2>1, <3>1 DEF Bound, Turns, TakeTurns, UnderWay, closes
  <2>4. OneListens'
    <3>1. _closing' = None /\ closeStep' = closeStep /\ took' = took
      BY <2>2 DEF Bound, closes
    <3>2. ASSUME NEW s \in listening
          PROVE  \E c \in Close : closeStep[c] = "cancelling" /\ took[c] = s
      BY <2>1, <2>2, <3>2, NoneIsNone
         DEF ServerInv, Always, ServerTypeOK, Turns, OneListens
    <3>3. \A s \in listening' : s = _server' \/ s \in listening
      BY DEF Bound
    <3> QED
      BY <3>1, <3>2, <3>3 DEF OneListens
  <2>5. WaitsForAll'
    BY <2>1 DEF Bound, Turns, WaitsForAll, closes, work, _requests
  <2> QED
    BY <2>3, <2>4, <2>5 DEF Turns
<1> QED
  BY <1>1, <1>2 DEF ServerInv

-----------------------------------------------------------------------------
(* close                                                                   *)

\* A close takes the HttpServer and cancels what is registered; without a bind
\* under way it is the only one.
LEMMA CloseKeeps ==
    ASSUME ServerInv, NEW c \in Close, close(c)
    PROVE  ServerInv'
<1>1. Always'
  <2>1. ServerTypeOK' /\ StepsOK'
    BY DEF close, CancelAll, ServerInv, Always, ServerTypeOK, StepsOK, binds
  <2>2. NothingRuns'
    BY DEF close, CancelAll, ServerInv, Always, StepsOK, NothingRuns
  <2> QED
    BY <2>1, <2>2 DEF Always
<1>2. ASSUME ~overlapped' PROVE Turns'
  <2>1. Turns /\ ~BindUnderWay /\ _closing = None
    BY <1>2 DEF close, ServerInv
  <2>2. \A d \in Close : closeStep[d] \in {"no", "done"}
    BY <2>1, NoneIsNone DEF Turns, TakeTurns, UnderWay
  <2>3. \A d \in Close : closeStep'[d] = IF d = c THEN "cancelling" ELSE closeStep[d]
    BY DEF close, ServerInv, Always, StepsOK
  <2>4. TakeTurns'
    BY <2>1, <2>2, <2>3 DEF close, Turns, TakeTurns, BindUnderWay, UnderWay, binds
  <2>5. OneListens'
    <3>1. ASSUME NEW s \in listening PROVE s = _server
      BY <2>1, <2>2, <3>1 DEF Turns, OneListens
    <3>2. took'[c] = _server /\ closeStep'[c] = "cancelling" /\ listening' = listening
          /\ _server' = None
      BY DEF close, ServerInv, Always, StepsOK
    <3> QED
      BY <3>1, <3>2 DEF OneListens
  <2>6. WaitsForAll'
    BY <2>1, <2>2, <2>3 DEF close, WaitsForAll
  <2> QED
    BY <2>4, <2>5, <2>6 DEF Turns
<1> QED
  BY <1>1, <1>2 DEF ServerInv

\* What the three steps after it leave alone.
LEMMA CloseGoesOn ==
    ASSUME Always, Turns, NEW c \in Close, UnderWay(c),
           NEW to \in {"stopping", "draining", "done"},
           closeStep' = [closeStep EXCEPT ![c] = to],
           UNCHANGED <<_server, _closing, _activeCancels, binds, took, work>>
    PROVE  /\ TakeTurns'
           /\ _closing = c /\ c # None
           /\ \A d \in Close : closeStep'[d] = IF d = c THEN to ELSE closeStep[d]
           /\ \A d \in Close : d # c => closeStep[d] \in {"no", "done"}
<1>1. _closing = c /\ c # None
  BY NoneIsNone DEF Turns, TakeTurns
<1>2. \A d \in Close : closeStep'[d] = IF d = c THEN to ELSE closeStep[d]
  BY DEF Always, StepsOK
<1>3. \A d \in Close : d # c => closeStep[d] \in {"no", "done"}
  BY <1>1 DEF Turns, TakeTurns, UnderWay
<1>4. TakeTurns'
  BY <1>1, <1>2, <1>3 DEF Turns, TakeTurns, UnderWay, binds
<1> QED
  BY <1>1, <1>2, <1>3, <1>4

\* The HttpServer stops, the requests that are there are looked up, and they end.
LEMMA StopKeeps ==
    ASSUME ServerInv, NEW c \in Close, Stop(c)
    PROVE  ServerInv'
<1>1. Always'
  BY DEF Stop, ServerInv, Always, ServerTypeOK, StepsOK, NothingRuns, binds, work
<1>2. ASSUME ~overlapped' PROVE Turns'
  <2>1. Always /\ Turns
    BY <1>2 DEF Stop, ServerInv
  <2>2. /\ TakeTurns' /\ _closing = c /\ c # None
        /\ \A d \in Close : closeStep'[d] = IF d = c THEN "stopping" ELSE closeStep[d]
        /\ \A d \in Close : d # c => closeStep[d] \in {"no", "done"}
    BY <2>1, CloseGoesOn DEF Stop, UnderWay
  <2>3. OneListens'
    <3>1. _server' = None /\ listening' = listening \ {took[c]} /\ _server = None
      BY <2>1, <2>2 DEF Stop, Turns, OneListens
    <3>2. ASSUME NEW s \in listening PROVE s = took[c]
      BY <2>1, <2>2, <3>1, <3>2, NoneIsNone DEF Always, Turns, OneListens,
                                                ServerTypeOK
    <3>3. listening' = {}
      BY <3>1, <3>2
    <3> QED
      BY <3>1, <3>3 DEF OneListens
  <2>4. WaitsForAll'
    BY <2>1, <2>2 DEF Stop, Turns, WaitsForAll, work, _requests
  <2> QED
    BY <2>2, <2>3, <2>4 DEF Turns
<1> QED
  BY <1>1, <1>2 DEF ServerInv

LEMMA SnapshotKeeps ==
    ASSUME ServerInv, NEW c \in Close, Snapshot(c)
    PROVE  ServerInv'
<1>1. Always'
  <2>1. _requests \subseteq Request
    BY DEF _requests
  <2> QED
    BY <2>1 DEF Snapshot, ServerInv, Always, ServerTypeOK, StepsOK, NothingRuns,
                binds, work
<1>2. ASSUME ~overlapped' PROVE Turns'
  <2>1. Always /\ Turns
    BY <1>2 DEF Snapshot, ServerInv
  <2>2. /\ TakeTurns' /\ _closing = c
        /\ \A d \in Close : closeStep'[d] = IF d = c THEN "draining" ELSE closeStep[d]
        /\ \A d \in Close : d # c => closeStep[d] \in {"no", "done"}
    BY <2>1, CloseGoesOn DEF Snapshot, UnderWay
  <2>3. OneListens'
    BY <2>1, <2>2, StoppedIsSilent DEF Snapshot, Turns, OneListens
  <2>4. WaitsForAll'
    <3>1. _requests' = _requests /\ waits'[c] = _requests /\ _closing' = _closing
      BY DEF Snapshot, ServerInv, Always, StepsOK, work, _requests
    <3> QED
      BY <2>1, <2>2, <3>1 DEF Turns, WaitsForAll
  <2> QED
    BY <2>2, <2>3, <2>4 DEF Turns
<1> QED
  BY <1>1, <1>2 DEF ServerInv

LEMMA ClosedKeeps ==
    ASSUME ServerInv, NEW c \in Close, Closed(c)
    PROVE  ServerInv'
<1>1. Always'
  BY DEF Closed, ServerInv, Always, ServerTypeOK, StepsOK, NothingRuns, binds, work
<1>2. ASSUME ~overlapped' PROVE Turns'
  <2>1. Always /\ Turns
    BY <1>2 DEF Closed, ServerInv
  <2>2. /\ TakeTurns' /\ _closing = c
        /\ \A d \in Close : closeStep'[d] = IF d = c THEN "done" ELSE closeStep[d]
        /\ \A d \in Close : d # c => closeStep[d] \in {"no", "done"}
    BY <2>1, CloseGoesOn DEF Closed, UnderWay
  <2>3. OneListens'
    BY <2>1, <2>2, StoppedIsSilent DEF Closed, Turns, OneListens
  <2>4. WaitsForAll'
    <3>1. _requests = {}
      BY <2>1 DEF Closed, Turns, WaitsForAll
    <3>2. _requests' = _requests
      BY DEF Closed, work, _requests
    <3> QED
      BY <2>2, <3>1, <3>2 DEF WaitsForAll
  <2> QED
    BY <2>2, <2>3, <2>4 DEF Turns
<1> QED
  BY <1>1, <1>2 DEF ServerInv

-----------------------------------------------------------------------------
(* The handlers.  They leave bind and close alone, and no request comes back. *)

\* A step of a request that is there disturbs only what is said of it.
LEMMA WorkKeeps ==
    ASSUME ServerInv, Always', UNCHANGED state, _requests' \subseteq _requests
    PROVE  ServerInv'
<1> SUFFICES ASSUME Turns PROVE Turns'
  BY DEF ServerInv, state
<1>1. TakeTurns' /\ OneListens'
  BY DEF Turns, TakeTurns, OneListens, UnderWay, state, binds, closes
<1>2. WaitsForAll'
  BY DEF Turns, WaitsForAll, state, closes
<1> QED
  BY <1>1, <1>2 DEF Turns

LEMMA NoneComesBack ==
    ASSUME NEW r \in Request, NEW to \in Phase, phase \in [Request -> Phase],
           phase[r] \notin {"no", "done"}, Go(r, to)
    PROVE  _requests' \subseteq _requests
<1>1. \A q \in Request : q # r => phase'[q] = phase[q]
  BY DEF Go
<1> QED
  BY <1>1 DEF _requests

\* A request is accepted: nothing closes that would have had to wait for it.
LEMMA ServeKeeps ==
    ASSUME ServerInv, NEW r \in Request, _serve(r)
    PROVE  ServerInv'
<1>1. Always'
  BY DEF _serve, Go, ServerInv, Always, ServerTypeOK, StepsOK, NothingRuns, Phase,
         binds, closes
<1>2. ASSUME ~overlapped' PROVE Turns'
  <2>1. Always /\ Turns
    BY <1>2 DEF _serve, ServerInv
  <2>2. TakeTurns' /\ OneListens'
    BY <2>1 DEF _serve, Turns, TakeTurns, OneListens, UnderWay, binds, closes
  <2>3. ASSUME NEW c \in Close
        PROVE  closeStep[c] # "draining" /\ ~(closeStep[c] = "done" /\ _closing = c)
    BY <2>1, StoppedIsSilent DEF _serve, Turns, TakeTurns, UnderWay
  <2>4. WaitsForAll'
    BY <2>3 DEF _serve, WaitsForAll, closes
  <2> QED
    BY <2>2, <2>4 DEF Turns
<1> QED
  BY <1>1, <1>2 DEF ServerInv

\* The common shape: the request goes from a place where it is at work to another.
LEMMA StepKeeps ==
    ASSUME ServerInv, NEW r \in Request, NEW to \in Phase, Go(r, to),
           phase[r] \notin {"no", "done"}, UNCHANGED state,
           Always'
    PROVE  ServerInv'
<1>1. _requests' \subseteq _requests
  BY NoneComesBack DEF ServerInv, Always, ServerTypeOK
<1> QED
  BY <1>1, WorkKeeps

LEMMA RefusedKeeps ==
    ASSUME ServerInv, NEW r \in Request,
           Refused(r) \/ _handle(r) \/ NoSession(r) \/ _prepareSse(r)
    PROVE  ServerInv'
<1>1. PICK to \in {"done", "creating", "greeting"} :
          /\ Go(r, to)
          /\ to = "done" => phase[r] \in {"reading", "creating"}
          /\ to = "creating" => phase[r] = "reading"
          /\ to = "greeting" => phase[r] = "preparing"
  BY DEF Refused, _handle, NoSession, _prepareSse
<1>2. UNCHANGED <<state, _activeCancels, generation>>
  BY DEF Refused, _handle, NoSession, _prepareSse
<1>3. Always'
  BY <1>1, <1>2 DEF Go, ServerInv, Always, ServerTypeOK, StepsOK, NothingRuns,
                    Phase, state, binds, closes
<1> QED
  BY <1>1, <1>2, <1>3, StepKeeps DEF Phase

\* A handler goes on to generate only when nothing closes.
LEMMA StartKeeps ==
    ASSUME ServerInv, NEW r \in Request,
           phase[r] \in {"creating", "preparing", "greeting"}, Start(r), UNCHANGED state
    PROVE  ServerInv'
<1>1. CASE _closing # None
  <2>1. Go(r, "disposing") /\ _activeCancels' = _activeCancels \ {r}
        /\ generation' = generation
    BY <1>1 DEF Start
  <2>2. Always'
    BY <2>1 DEF Go, ServerInv, Always, ServerTypeOK, StepsOK, NothingRuns, Phase,
                state, binds, closes
  <2> QED
    BY <2>1, <2>2, StepKeeps DEF Phase
<1>2. CASE _closing = None
  <2>1. Go(r, "generating") /\ _activeCancels' = _activeCancels \union {r}
        /\ generation' = [generation EXCEPT ![r] = "running"]
    BY <1>2 DEF Start
  <2>2. Always'
    BY <1>2, <2>1 DEF Go, ServerInv, Always, ServerTypeOK, StepsOK, NothingRuns,
                      Phase, state, binds, closes
  <2> QED
    BY <2>1, <2>2, StepKeeps DEF Phase
<1> QED
  BY <1>1, <1>2

\* What is registered before the generation has nothing to cancel.
LEMMA TrackKeeps ==
    ASSUME ServerInv, NEW r \in Request, _streamChatCompletion(r)
    PROVE  ServerInv'
<1>1. Go(r, "preparing") /\ phase[r] = "creating" /\ generation[r] = "no"
  BY DEF _streamChatCompletion, ServerInv, Always, NothingRuns
<1>2. Always'
  BY <1>1 DEF _streamChatCompletion, _trackGeneration, Go, ServerInv, Always,
              ServerTypeOK, StepsOK, NothingRuns, Phase, state, binds, closes
<1> QED
  BY <1>1, <1>2, StepKeeps DEF _streamChatCompletion, Phase

\* The handler reaches its finally, after its generation or after a failure.
LEMMA FinallyKeeps ==
    ASSUME ServerInv, NEW r \in Request, Respond(r) \/ EndOfStream(r) \/ ConnectionFails(r)
    PROVE  ServerInv'
<1>1. /\ phase[r] \in {"preparing", "greeting", "generating"}
      /\ Go(r, "disposing") /\ _activeCancels' = _activeCancels \ {r}
      /\ UNCHANGED state
      /\ generation' = generation \/ CancelAll({r})
  BY DEF Respond, EndOfStream, ConnectionFails, Finally
<1>2. Always'
  BY <1>1 DEF CancelAll, Go, ServerInv, Always, ServerTypeOK, StepsOK, NothingRuns,
              Phase, state, binds, closes
<1> QED
  BY <1>1, <1>2, StepKeeps DEF Phase

LEMMA DisposeKeeps ==
    ASSUME ServerInv, NEW r \in Request, Dispose(r)
    PROVE  ServerInv'
<1>1. Go(r, "done") /\ phase[r] = "disposing" /\ UNCHANGED <<state, _activeCancels>>
  BY DEF Dispose
<1>2. Always'
  BY <1>1 DEF Dispose, Go, ServerInv, Always, ServerTypeOK, StepsOK, NothingRuns,
              Phase, state, binds, closes
<1> QED
  BY <1>1, <1>2, StepKeeps DEF Phase

\* A peer goes, or a generation ends: nothing starts to run.
LEMMA GenerationKeeps ==
    ASSUME ServerInv, NEW r \in Request, PeerGone(r) \/ Ends(r)
    PROVE  ServerInv'
<1>1. /\ UNCHANGED <<state, _activeCancels, phase>>
      /\ CancelAll({r}) \/ (/\ phase[r] = "generating"
                            /\ generation' = [generation EXCEPT ![r] = "ended"])
  BY DEF PeerGone, Ends
<1>2. Always'
  BY <1>1 DEF CancelAll, ServerInv, Always, ServerTypeOK, StepsOK, NothingRuns,
              state, binds, closes
<1>3. _requests' = _requests
  BY <1>1 DEF _requests
<1> QED
  BY <1>1, <1>2, <1>3, WorkKeeps

-----------------------------------------------------------------------------

LEMMA InvNext ==
    ASSUME ServerInv, [Next]_vars
    PROVE  ServerInv'
<1>1. ASSUME NEW b \in Bind, bind(b) \/ BindResumes(b) \/ Bound(b)
      PROVE  ServerInv'
  BY <1>1, BindKeeps, BindResumesKeeps, BoundKeeps
<1>2. ASSUME NEW c \in Close, close(c) \/ Stop(c) \/ Snapshot(c) \/ Closed(c)
      PROVE  ServerInv'
  BY <1>2, CloseKeeps, StopKeeps, SnapshotKeeps, ClosedKeeps
<1>3. ASSUME NEW r \in Request, Handler(r)
      PROVE  ServerInv'
  <2>1. CASE Refused(r) \/ _handle(r) \/ NoSession(r) \/ _prepareSse(r)
    BY <2>1, RefusedKeeps
  <2>2. CASE _completeChatCompletion(r) \/ _streamCompletion(r) \/ Greeted(r)
    BY <2>2, StartKeeps DEF _completeChatCompletion, _streamCompletion, Greeted
  <2>3. CASE _streamChatCompletion(r)
    BY <2>3, TrackKeeps
  <2>4. CASE Respond(r) \/ EndOfStream(r)
    BY <2>4, FinallyKeeps
  <2>5. CASE Dispose(r)
    BY <2>5, DisposeKeeps
  <2> QED
    BY <1>3, <2>1, <2>2, <2>3, <2>4, <2>5 DEF Handler
<1>4. ASSUME NEW r \in Request, _serve(r) \/ ConnectionFails(r) \/ PeerGone(r) \/ Ends(r)
      PROVE  ServerInv'
  BY <1>4, ServeKeeps, FinallyKeeps, GenerationKeeps
<1>5. CASE UNCHANGED vars
  BY <1>5 DEF vars, binds, closes, work, ServerInv, Always, ServerTypeOK, StepsOK,
              NothingRuns, Turns, TakeTurns, OneListens, WaitsForAll, UnderWay,
              _requests
<1> QED
  BY <1>1, <1>2, <1>3, <1>4, <1>5 DEF Next

\* A close that is complete, and not forgotten by a later bind, leaves nothing
\* listening and no handler at work, with any number of HttpServers, closes and
\* requests, a bind that waits for the close among them; only calls that overlap
\* with a bind are excepted (LiteRtLmOpenAiServer.close and bind).
THEOREM ClosedIsQuiet == Spec => []CloseMeansQuiet
<1>1. Init => ServerInv
  BY InvInit
<1>2. ServerInv /\ [Next]_vars => ServerInv'
  BY InvNext
<1>3. ServerInv => CloseMeansQuiet
  BY InvIsQuiet
<1> QED
  BY <1>1, <1>2, <1>3, PTL DEF Spec

\* While a close is under way no registered generation runs uncancelled, whatever
\* its handler was doing when close was called, as long as the server remembers
\* the close; and it does, unless calls overlapped with a bind
\* (_trackGeneration and the looks at _closing before a generation).
THEOREM RememberedClosesCancel == Spec => []CloseCancels
<1>1. Init => ServerInv
  BY InvInit
<1>2. ServerInv /\ [Next]_vars => ServerInv'
  BY InvNext
<1>3. ServerInv => CloseCancels
  BY InvIsCancelled
<1> QED
  BY <1>1, <1>2, <1>3, PTL DEF Spec
=============================================================================
