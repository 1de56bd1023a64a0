----------------------------- MODULE EventStream -----------------------------
(***************************************************************************)
(* What the callback bridge promises the Dart side about every operation,  *)
(* without its queue, its locks, its registry and its byte accounting.     *)
(*                                                                         *)
(* The native runtime produces numbered texts and then seals the stream.   *)
(* The consumer receives a prefix of the texts, in order and without a     *)
(* gap, and at most one terminal, after which it receives nothing.  A      *)
(* stream may give up on its texts (a cancel or a full queue): then no     *)
(* text follows and the terminal admits it.  "complete" is a promise that  *)
(* nothing was lost.                                                       *)
(***************************************************************************)
EXTENDS Naturals

CONSTANTS Stream,                        \* the operations
          Open,                          \* the stream has not ended yet
          Complete, Error, Cancelled, Backpressure

VARIABLES produced,                      \* texts the runtime has produced
          sealed,                        \* the runtime will not be heard again
          lossy,                         \* texts may have been dropped
          delivered,                     \* texts the consumer has received
          ended                          \* Open, or the terminal it received

vars == <<produced, sealed, lossy, delivered, ended>>

Init ==
    /\ produced  = [s \in Stream |-> 0]
    /\ sealed    = [s \in Stream |-> FALSE]
    /\ lossy     = [s \in Stream |-> FALSE]
    /\ delivered = [s \in Stream |-> 0]
    /\ ended     = [s \in Stream |-> Open]

\* The runtime is heard: a text or none, perhaps the last one.  Only a text
\* can be what overruns the stream.
Produce(s) ==
    /\ ~sealed[s]
    /\ \E text \in {0, 1}, drop, last \in BOOLEAN :
         /\ drop => text = 1
         /\ produced' = [produced EXCEPT ![s] = @ + text]
         /\ lossy' = [lossy EXCEPT ![s] = @ \/ drop]
         /\ sealed' = [sealed EXCEPT ![s] = last]
    /\ UNCHANGED <<delivered, ended>>

Cancel(s) ==
    /\ ended[s] = Open
    /\ lossy' = [lossy EXCEPT ![s] = TRUE]
    /\ UNCHANGED <<produced, sealed, delivered, ended>>

Deliver(s) ==
    /\ ended[s] = Open
    /\ ~lossy[s]
    /\ delivered[s] < produced[s]
    /\ delivered' = [delivered EXCEPT ![s] = @ + 1]
    /\ UNCHANGED <<produced, sealed, lossy, ended>>

End(s, kind) ==
    /\ ended[s] = Open
    /\ sealed[s]
    /\ kind = Complete => ~lossy[s] /\ delivered[s] = produced[s]
    /\ kind \in {Cancelled, Backpressure} <=> lossy[s]
    /\ ended' = [ended EXCEPT ![s] = kind]
    /\ UNCHANGED <<produced, sealed, lossy, delivered>>

Next ==
    \E s \in Stream :
        \/ Produce(s)
        \/ Cancel(s)
        \/ Deliver(s)
        \/ \E kind \in {Complete, Error, Cancelled, Backpressure} : End(s, kind)

Spec == Init /\ [][Next]_vars
=============================================================================
