----------------------------- MODULE MCClientPort -----------------------------
(* ClientPort for TLC: fairness and what it makes happen.                  *)
EXTENDS ClientPort

\* Both isolates run their event loops and dart:async flushes buffers; the worker
\* ends what is final and every generation becomes final; a dead worker's notice
\* arrives.  Nothing is assumed of the callers.
Fairness ==
    /\ WF_vars(Receive)
    /\ WF_vars(_workerEnded)
    /\ WF_vars(_workerMain)
    /\ WF_vars(WorkerReplies \/ WorkerGenerates \/ WorkerIsTold \/ WorkerCloses)
    /\ \A k \in Stream : /\ WF_vars(Flush(k))
                         /\ WF_vars(WorkerFinal(k))
                         /\ WF_vars(WorkerEnds(k))

FairSpec == Spec /\ Fairness

\* Everything a caller waits for comes: a request is answered, close too; a stream
\* that is listened to ends, unless its listener stays paused or cancels it; and
\* the future of a subscription's cancel completes.  The worker may be closed or
\* die at any point.
CallersAnswered ==
    /\ \A r \in Request \union {Close} : r \in _pending ~> settled[r] # "no"
    /\ \A k \in Stream :
          /\ consumer[k].listened ~>
                consumer[k].end # "no" \/ consumer[k].paused \/ consumer[k].cancelled
          /\ consumer[k].cancelWaits ~> consumer[k].done
=============================================================================
