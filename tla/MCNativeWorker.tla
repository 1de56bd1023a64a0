---------------------------- MODULE MCNativeWorker ----------------------------
(* NativeWorker for TLC: fairness and what it makes happen.                *)
EXTENDS NativeWorker

\* The isolate's loop runs: it goes on with a handler that has begun, and the
\* periodic timer fires between commands however many arrive.
LoopRuns == WF_vars(HandlerStep) /\ SF_vars(Tick)

\* The native library keeps working.  A thread that has an operation calls back,
\* ends when it said its last word, and says it some time after it was asked to
\* stop; a generation that nobody stops may go on for ever.
AskedToStop(s) ==
    \E k \in Running : ops[k].session = s /\ ops[k].cancelRequested

RuntimeRuns ==
    \A s \in Session :
        /\ WF_vars(RuntimeFind(s))
        /\ WF_vars(\E chunk \in B!Chunk : RuntimeRun(s, chunk))
        /\ SF_vars(\E chunk \in B!Chunk :
                      AskedToStop(s) /\ chunk.final /\ RuntimeRun(s, chunk))
        /\ WF_vars(RuntimeEnd(s))

FairSpec == Spec /\ LoopRuns /\ RuntimeRuns

Ending(k) ==
    IF k \in Running
    THEN LET o == object[ops[k].native]
         IN  o.final \/ o.overflow \/ ops[k].cancelRequested
    ELSE FALSE

\* "native cleanup never waits for a Dart resume" (_pump): a stream whose native
\* generation said its last word, was cancelled or overran its queue ends, though
\* the consumer may never give credit again.
StreamEnds == \A k \in Stream : Ending(k) ~> k \notin Running

\* "no closed Dart callback or full blocking queue can deadlock" the join of a
\* native destructor (_disposeSession): every handler comes to its end, although
\* a generation need not.
HandlersEnd == todo # <<>> ~> todo = <<>>
=============================================================================
