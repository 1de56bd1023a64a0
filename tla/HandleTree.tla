------------------------------ MODULE HandleTree ------------------------------
(***************************************************************************)
(* The public handles (lib/src/types.dart): a client, its engines, their   *)
(* sessions and conversations.  A handle is closed when it or an ancestor  *)
(* was disposed; a handle that is being created while an ancestor is       *)
(* disposed is never handed out.  The backend (ClientPort, NativeWorker)   *)
(* carries out what the handles ask for in order, some time later.         *)
(***************************************************************************)
EXTENDS Integers, Sequences, FiniteSets

CONSTANTS
    Client,   \* the handle of the LiteRtLm client
    Engine,   \* LiteRtLmEngine handles
    Session   \* LiteRtLmSession and LiteRtLmConversation handles

Child  == Engine \union Session
Handle == Child \union {Client}

ASSUME HandlesDiffer == /\ Client \notin Child
                        /\ Engine \intersect Session = {}
                        /\ Engine # {}

VARIABLES
    parent,   \* handle -> the handle it was or is created from
    created,  \* handle -> "no", "asked", "open", "refused"
    _closed,  \* handles that were disposed (_HandleState._closed)
    _closing, \* handle -> its dispose future: "no", "waiting", "done"
    direct,   \* disposed handles that asked the backend
    inbox,    \* what the handles asked the backend for, in order
    outbox,   \* its answers, in order
    native    \* handles whose native object exists

vars == <<parent, created, _closed, _closing, direct, inbox, outbox, native>>

Ancestors(h) ==
    CASE h = Client -> {}
      [] h \in Engine -> {Client}
      [] h \in Session -> {parent[h], Client}

Closed(h) == (Ancestors(h) \union {h}) \intersect _closed # {}

Init ==
    /\ parent = [h \in Child |-> Client]
    /\ created = [h \in Handle |-> IF h = Client THEN "open" ELSE "no"]
    /\ _closed = {}
    /\ _closing = [h \in Handle |-> "no"]
    /\ direct = {}
    /\ inbox = <<>> /\ outbox = <<>>
    /\ native = {Client}

Ask(do, h) == [do |-> do, h |-> h]

\* loadEngine, createSession, createConversation, up to their await.
Create(h, p) ==
    /\ created[h] = "no"
    /\ created[p] = "open" /\ ~Closed(p)
    /\ p = Client <=> h \in Engine
    /\ p \notin Session
    /\ parent' = [parent EXCEPT ![h] = p]
    /\ created' = [created EXCEPT ![h] = "asked"]
    /\ inbox' = Append(inbox, Ask("create", h))
    /\ UNCHANGED <<_closed, _closing, direct, outbox, native>>

\* After the await.
Created(h, ok) == IF ok /\ ~Closed(parent[h]) THEN "open" ELSE "refused"

Answered ==
    LET answer == Head(outbox)
    IN  /\ outbox # <<>>
        /\ outbox' = Tail(outbox)
        /\ \/ /\ answer.do = "create"
              /\ created' = [created EXCEPT ![answer.h] =
                                Created(answer.h, answer.ok)]
              /\ UNCHANGED _closing
           \/ /\ answer.do = "dispose"
              /\ _closing' = [_closing EXCEPT ![answer.h] = "done"]
              /\ UNCHANGED created
        /\ UNCHANGED <<parent, _closed, direct, inbox, native>>

\* Mutant: a handle that is disposed twice answers the second call at once.
CloseAgain(h) ==
    /\ created[h] = "open"
    /\ IF h \in _closed \/ Ancestors(h) \intersect _closed # {}
       THEN /\ _closing' = [_closing EXCEPT ![h] = "done"]
            /\ UNCHANGED <<direct, inbox>>
       ELSE /\ _closing' = [_closing EXCEPT ![h] = "waiting"]
            /\ direct' = direct \union {h}
            /\ inbox' = Append(inbox, Ask("dispose", h))
    /\ _closed' = _closed \union {h}
    /\ UNCHANGED <<parent, created, outbox, native>>

\* Mutant: a child that is disposed after its parent waits for an answer nobody
\* owes it.
CloseUnanswered(h) ==
    /\ created[h] = "open"
    /\ _closing[h] = "no"
    /\ _closed' = _closed \union {h}
    /\ _closing' = [_closing EXCEPT ![h] = "waiting"]
    /\ UNCHANGED <<parent, created, direct, inbox, outbox, native>>

\* dispose (_HandleState.close).  A second call returns the first one's future.
close(h) ==
    /\ created[h] = "open"
    /\ _closing[h] = "no"
    /\ _closed' = _closed \union {h}
    /\ IF Ancestors(h) \intersect _closed # {}
       THEN /\ _closing' = [_closing EXCEPT ![h] = "done"]
            /\ UNCHANGED <<direct, inbox>>
       ELSE /\ _closing' = [_closing EXCEPT ![h] = "waiting"]
            /\ direct' = direct \union {h}
            /\ inbox' = Append(inbox, Ask("dispose", h))
    /\ UNCHANGED <<parent, created, outbox, native>>

\* The backend.  It creates what has a live parent, or fails; it disposes an
\* object with everything below it.
BackendCreates ==
    /\ inbox # <<>> /\ Head(inbox).do = "create"
    /\ \E ok \in {TRUE, FALSE} :
         LET h == Head(inbox).h
         IN  /\ ok => parent[h] \in native
             /\ native' = IF ok THEN native \union {h} ELSE native
             /\ outbox' = Append(outbox, [do |-> "create", h |-> h, ok |-> ok])
    /\ inbox' = Tail(inbox)
    /\ UNCHANGED <<parent, created, _closed, _closing, direct>>

\* Mutant: only the object itself goes.
DisposesAlone(h) == {h}

Disposes(h) == {g \in Handle : g = h \/ h \in Ancestors(g)}

BackendDisposes ==
    /\ inbox # <<>> /\ Head(inbox).do = "dispose"
    /\ LET h == Head(inbox).h
       IN  /\ native' = native \ Disposes(h)
           /\ outbox' = Append(outbox, [do |-> "dispose", h |-> h, ok |-> TRUE])
    /\ inbox' = Tail(inbox)
    /\ UNCHANGED <<parent, created, _closed, _closing, direct>>

Next ==
    \/ \E h \in Child, p \in Handle : Create(h, p)
    \/ \E h \in Handle : close(h)
    \/ Answered
    \/ BackendCreates
    \/ BackendDisposes

Spec == Init /\ [][Next]_vars

\* The backend works through its commands and its answers arrive.
FairSpec == Spec /\ WF_vars(BackendCreates \/ BackendDisposes) /\ WF_vars(Answered)

-----------------------------------------------------------------------------

What == {"create", "dispose"}

\* The handles' tables hold what they should.
HandleTypeOK ==
    /\ parent \in [Child -> Engine \union {Client}]
    /\ created \in [Handle -> {"no", "asked", "open", "refused"}]
    /\ _closed \subseteq Handle
    /\ _closing \in [Handle -> {"no", "waiting", "done"}]
    /\ direct \subseteq _closed
    /\ inbox \in Seq([do : What, h : Handle])
    /\ outbox \in Seq([do : What, h : Handle, ok : BOOLEAN])
    /\ native \subseteq Handle

\* A disposal of the handle or of an ancestor is under way.
Going(h) ==
    \E i \in DOMAIN inbox : /\ inbox[i].do = "dispose"
                            /\ inbox[i].h \in Ancestors(h) \union {h}

\* A native object whose handle is closed, or was withheld after the await (its
\* parent had been disposed meanwhile), is about to go: nothing leaks, though
\* nobody but the backend knows of it.
NoLeak ==
    \A h \in native :
        \/ created[h] \in {"asked", "open"} /\ ~Closed(h)
        \/ Going(h)

\* Conversely a handle that is open has its native object: it never is the first
\* to learn that its parent was disposed.
OpenHandleIsLive ==
    \A h \in Handle : created[h] = "open" /\ ~Closed(h) => h \in native

\* Handles and native objects agree, whatever the order of creations, answers and
\* disposals: none leaks, none is missing under an open handle.
HandlesSafe == HandleTypeOK /\ NoLeak /\ OpenHandleIsLive

\* A dispose that asked the backend is complete only when the native object and
\* everything created from it are gone, however many times it is called.
DisposeMeansGone ==
    \A h \in direct : _closing[h] = "done" => native \intersect Disposes(h) = {}

\* The future of every dispose completes, the backend's answers permitting: a
\* child that is disposed after its parent waits for nobody (_HandleState.close).
DisposeCompletes == \A h \in Handle : h \in _closed ~> _closing[h] = "done"

=============================================================================
